------------------------ MODULE MCGenerationJournal ------------------------
EXTENDS GenerationJournal
=============================================================================
