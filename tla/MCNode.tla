------------------------------- MODULE MCNode -------------------------------
(***************************************************************************)
(* The process of Node with two farms and a few calls of ssyncdctl.        *)
(***************************************************************************)
EXTENDS Node

MCFarms == {"A", "B"}

\* Two farms are enough for one to take over a number of the other.
Everyday ==
    {<<"start", "http", "A">>, <<"start", "http", "B">>,
     <<"stop", "http", "A">>, <<"write", "http">>}

\* One of each kind of what else the controller tells apart, and calls that
\* ssyncdctl refuses
Rare ==
    {<<"clear", "http">>, <<"write", "recent", "table", "*">>,
     <<"switch", "master", "port", "5001">>, <<"quit">>, <<"start", "http">>,
     <<"start", "recent">>, <<"show", "recent">>,
     <<"clear", "recent", "table", "*">>, <<"help">>}

AllCalls == Everyday \cup Rare
=============================================================================
