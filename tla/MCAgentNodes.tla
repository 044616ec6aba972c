----------------------------- MODULE MCAgentNodes -----------------------------
(***************************************************************************)
(* Instances of AgentNodes for TLC.  The programs break each rule of the   *)
(* policy once; the outputs have records that are complete, incomplete,    *)
(* repeated, empty and no dicts at all.                                    *)
(***************************************************************************)
EXTENDS AgentNodes, TLC

CONSTANTS title, price

TwoFields == {title, price}

AllRequests ==
  [respect : BOOLEAN, required : {{}, {title}, TwoFields}, max : {1, 2}]

AllSetups ==
  [keys : SUBSET {"primary", "secondary"}, backend : {"python", "bubblewrap", "launcher"}]

Plain == [blank |-> FALSE, parses |-> TRUE, body |-> {"import", "scrape", "literal"}, uses |-> {}]

SomePrograms ==
  {Plain,
   [Plain EXCEPT !.body = {"import", "function"}],
   [Plain EXCEPT !.body = {"scrape", "computed"}],
   [Plain EXCEPT !.uses = {"dunder"}],
   [Plain EXCEPT !.parses = FALSE]}

Item(t, p) == [dict |-> TRUE, fields |-> title :> t @@ price :> p]

Full == Item("text", "number")
NoPrice == Item("text", "null")
NoTitle == Item("blank", "number")
Hollow == Item("blank", "null")
Empty == Item("absent", "absent")
Scalar == [Empty EXCEPT !.dict = FALSE]

Lists ==
  {<<>>, <<Full>>, <<NoPrice>>, <<Scalar, Full>>, <<Empty>>, <<Full, Full>>,
   <<Full, NoPrice>>, <<NoTitle, NoPrice>>, <<NoPrice, Hollow>>, <<NoTitle, NoTitle, Full>>}

SomeOutputs ==
  [kind : {"none", "garbled", "error", "other"}, records : {<<>>}]
    \cup [kind : {"records"}, records : Lists]
===============================================================================
