--------------------------- MODULE MCCommandLine ---------------------------
EXTENDS CommandLine

MCCommands == {"cp", "mv", "sync", "rm", "rb", "mb", "ls", "presign", "website"}
=============================================================================
