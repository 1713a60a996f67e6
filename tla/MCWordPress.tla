---------------------------- MODULE MCWordPress ----------------------------
(* WordPress for TLC. *)
EXTENDS WordPress

(* What mysqldump makes of a server with all its databases. *)
AllDatabases == << Settings, <<"createdb", "wp">>, <<"use", "wp">>, Table(1), Row(1, 7, 1)>>
MCDumps == {AllDatabases}

(* prepareVerifyDatabase: two statements in one line. *)
MCQueries == {<< << <<"dropdb", "verify">>, <<"createdb", "verify">> >> >>}
============================================================================
