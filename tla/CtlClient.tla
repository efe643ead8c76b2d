----------------------------- MODULE CtlClient ------------------------------
(***************************************************************************)
(* ssyncdctl (src/src/ctl_interface/main.cpp): what command it makes of    *)
(* the words it is called with.  The words are gone through once; a word   *)
(* that opens an option takes the next one as its value.                   *)
(***************************************************************************)
EXTENDS Integers, Sequences, SequencesExt

\* The command a value stands for, for the options with a fixed set of them
Values ==
    [write  |-> [http |-> "WRITE_HTTP", recent |-> "WRITE_RECENT"],
     clear  |-> [http |-> "CLEAR_HTTP", recent |-> "CLEAR_RECENT"],
     count  |-> [http |-> "COUNT_HTTP", recent |-> "COUNT_RECENT"],
     show   |-> [http |-> "SHOW_HTTP", recent |-> "SHOW_RECENT",
                 mode |-> "SHOW_MODE"],
     start  |-> [http |-> "START_HTTP_SYNC", recent |-> "START_RECENT_SYNC"],
     stop   |-> [http |-> "STOP_HTTP_SYNC", recent |-> "STOP_RECENT_SYNC"],
     switch |-> [master |-> "SW_TO_MASTER", backup |-> "SW_TO_CLIENT"]]

TakesValue == DOMAIN Values \cup {"table", "port", "address"}

NoOption == "none"
FarmOption == "farm"    \* the farm after "start http" and "stop http"

\* What main() knows after some words: the packet, the option that waits for
\* its value, and whether it has called exit().
NoWords == [command |-> "VOID", data |-> "", option |-> NoOption, exit |-> FALSE]

ReadOption(s, word) ==
    CASE word = "help"          -> [s EXCEPT !.exit = TRUE]
      [] word = "quit"          -> [s EXCEPT !.command = "QUIT"]
      [] word \in TakesValue    -> [s EXCEPT !.option = word]
      [] OTHER                  -> s

\* "table *" is what turns WRITE_RECENT into WRITE_RECENT_TABLE.
ReadTable(s, word) ==
    LET named == [s EXCEPT !.data = word, !.option = NoOption]
    IN  IF word # "*" THEN named
        ELSE IF s.command = "WRITE_RECENT"
             THEN [named EXCEPT !.command = "WRITE_RECENT_TABLE"]
             ELSE [named EXCEPT !.exit = TRUE]

\* Faulty form: the farm after "start http" is not waited for
ForgetFarm(s, word) ==
    IF word \in DOMAIN Values[s.option]
    THEN [s EXCEPT !.command = Values[s.option][word], !.option = NoOption]
    ELSE [s EXCEPT !.option = NoOption]

\* An unknown value leaves the command as it is.
ReadFixed(s, word) ==
    IF word \in DOMAIN Values[s.option]
    THEN [s EXCEPT !.command = Values[s.option][word],
                   !.option  = IF s.option \in {"start", "stop"} /\ word = "http"
                               THEN FarmOption ELSE NoOption]
    ELSE [s EXCEPT !.option = NoOption]

\* Ports and addresses are taken to be well formed and are left out.
ReadWord(s, word) ==
    IF s.exit THEN s
    ELSE CASE s.option = NoOption   -> ReadOption(s, word)
           [] s.option = FarmOption -> [s EXCEPT !.data = word, !.option = NoOption]
           [] s.option = "table"    -> ReadTable(s, word)
           [] s.option \in {"port", "address"} -> [s EXCEPT !.option = NoOption]
           [] s.option \in DOMAIN Values       -> ReadFixed(s, word)

NoCommand == [command |-> "VOID", data |-> ""]

\* A missing value is an error, except for the port and the address.
command_line(argv) ==
    LET s == FoldLeft(ReadWord, NoWords, argv)
    IN  IF s.exit \/ s.option \notin {NoOption, "port", "address"}
        THEN NoCommand
        ELSE [command |-> s.command, data |-> s.data]
=============================================================================
