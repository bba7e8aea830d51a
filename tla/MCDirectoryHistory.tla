------------------------- MODULE MCDirectoryHistory -------------------------
(* Instances of UserDirectory with the history of DirectoryHistory.        *)
EXTENDS MCUserDirectory, DirectoryHistory
=============================================================================
