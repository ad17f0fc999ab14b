--------------------------- MODULE MCImportDialog ---------------------------
EXTENDS ImportDialog
CONSTANTS d1, d2
=============================================================================
