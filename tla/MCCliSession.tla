---------------------------- MODULE MCCliSession ----------------------------
(***************************************************************************)
(* A buffer of four bytes, three lines of history and one letter, a comma: *)
(* a letter like another, or what ends the part that TAB completes.  And,  *)
(* before a session begins, the lines and the registry of commands by      *)
(* themselves.                                                             *)
(***************************************************************************)
EXTENDS CliSession, CliLineChecks, CliPrint, CliRegistry

MCLetters == {","}
MCRecorded == {<<",", " ">>, <<" ", ",", ",">>}
MCCompletions == {<<",", ",">>}
MCAccounts == {<<<<",">>, <<",", ",">>>>}
MCEnableWords == {<<",">>}
=============================================================================
