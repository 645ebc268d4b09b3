------------------------------- MODULE MCComputations -------------------------------
(***************************************************************************)
(* Small instances of the parts that only compute: the monitor, the format *)
(* of the console's messages, the digest and the encoding of HTML.  They   *)
(* have nothing in common, and one of them runs at a time.                                         *)
(***************************************************************************)
EXTENDS Monitor, AdminMessage, Digest, Html, TLC

CONSTANTS n1, n2, n3

Interchangeable == Permutations(Names)

MCMessage == [i \in 1..42 |-> i]

MCCharacters ==
  Range(Decimals) \union Range(RawBytes) \union {",", "-", " ", "\r", "\n", "q", "D", "E", "v"}
MCUids           == {<<"q">>, <<"1">>, <<"q", "1">>}
MCPropertyNames  == <<Data, <<"E">>>>
MCPropertyValues == {<<>>, <<"v">>, <<"v", ",">>}
MCCrc(s) == (IF Len(s) = 1 THEN -1000 ELSE 1000) + 7 * Len(s) + Cardinality({i \in 1..Len(s) : s[i] = ","})

monitorIdle == guid = 0 /\ updates = 0 /\ names = <<>>
wireIdle    == written = 0
digestIdle  == taken = 0 /\ ~finalized
htmlIdle    == encoding = "idle"

allVars == <<vars, wireVars, digestVars, htmlVars>>

ComputationsInit == Init /\ WireInit /\ DigestInit /\ HtmlInit

ComputationsNext ==
  \/ /\ wireIdle /\ digestIdle /\ htmlIdle
     /\ Next /\ UNCHANGED <<wireVars, digestVars, htmlVars>>
  \/ /\ monitorIdle /\ digestIdle /\ htmlIdle
     /\ WireNext /\ UNCHANGED <<vars, digestVars, htmlVars>>
  \/ /\ monitorIdle /\ wireIdle /\ htmlIdle
     /\ DigestNext /\ UNCHANGED <<vars, wireVars, htmlVars>>
  \/ /\ monitorIdle /\ wireIdle /\ digestIdle
     /\ HtmlNext /\ UNCHANGED <<vars, wireVars, digestVars>>

ComputationsSpec == ComputationsInit /\ [][ComputationsNext]_allVars
=====================================================================================
