------------------------------- MODULE AdminMessage -------------------------------
(***************************************************************************)
(* The format of the console's messages (src/src/admin/message.cpp): what  *)
(* to_stream writes, one message after the other, and what from_stream     *)
(* makes of it, into the one message object that a connection reads into.  *)
(*                                                                         *)
(* A text is a sequence of characters.  The bytes that options and         *)
(* feedback are written as are characters of their own.                    *)
(***************************************************************************)
EXTENDS Integers, Sequences, SequencesExt

CONSTANTS
  Characters,      \* a text is a sequence of them
  Uids,            \* identifiers, names and values that messages are made with
  PropertyNames,   \* a sequence, in the order of std::map
  PropertyValues,
  Feedbacks,
  MaxLength,       \* max_length
  MaxMessages,     \* bounds the messages that are written
  Crc(_)           \* the checksum of a text

VARIABLES
  stream,   \* the buffer that is written to and read from
  queue,    \* the messages that were written to it and not read
  inbound,  \* the message object that is read into
  status,   \* "open", "refused" if from_stream returned false, or "lost"
  written   \* the number of messages

wireVars == <<stream, queue, inbound, status, written>>

Data         == <<"D">>
NoFormat     == 1
Footer       == <<"\r", "\n", "\r", "\n">>
HeaderLength == 7
IntSize      == 4
Comma        == ","
Decimals     == <<"0", "1", "2", "3", "4", "5", "6", "7", "8", "9">>
RawBytes     == <<"x00", "x01", "x02", "x03", "x04", "x05">>
Raw(n)       == RawBytes[n + 1]
SanityCheck  == 5

Index(seq, c) == CHOOSE i \in 1..Len(seq) : seq[i] = c

Unread == [uid |-> <<"U">>, options |-> 0, feedback |-> 0, properties |-> <<>>]

Composed ==
  {m \in [uid : Uids, options : {0, NoFormat}, feedback : Feedbacks,
          properties : UNION {[S -> PropertyValues] : S \in SUBSET Range(PropertyNames)}] :
     \* to_stream asserts that there are data to dump
     m.options = NoFormat /\ m.properties # <<>> => Data \in DOMAIN m.properties}

WireInit ==
  /\ stream = <<>> /\ queue = <<>>
  /\ inbound = Unread
  /\ status = "open"
  /\ written = 0

-----------------------------------------------------------------------------
(***************************************************************************)
(* to_stream                                                               *)
(***************************************************************************)
Unformatted(m) == m.options = NoFormat

Text[n \in Nat] ==
  IF n < 10 THEN <<Decimals[n + 1]>>
  ELSE Text[n \div 10] \o <<Decimals[(n % 10) + 1]>>

\* A checksum is an int.
Signed(n) == IF n < 0 THEN <<"-">> \o Text[-n] ELSE Text[n]

Pair(name, value) == name \o <<Comma>> \o value \o <<Comma>>

\* The properties with the first names, in the map's order
Pairs(properties) ==
  LET pairs[i \in 0..Len(PropertyNames)] ==
        IF i = 0 THEN <<>>
        ELSE pairs[i - 1] \o IF PropertyNames[i] \in DOMAIN properties
                             THEN Pair(PropertyNames[i], properties[PropertyNames[i]])
                             ELSE <<>>
  IN  pairs

\* name,value,name,value: the last comma is erased.
Flattened(properties) == Front(Pairs(properties)[Len(PropertyNames)])

Flat(m) == IF m.properties = <<>> THEN <<>>
           ELSE IF Unformatted(m) THEN m.properties[Data]
           ELSE Flattened(m.properties)

ToStream(m) ==
  LET props == Flat(m)
  IN  Text[Len(m.uid)] \o m.uid \o <<Raw(m.options), Raw(m.feedback)>>
        \o Text[Len(props)] \o <<" ">>
        \o (IF props = <<>> THEN <<>> ELSE Signed(Crc(props)) \o <<" ">> \o props)
        \o Footer

ASSUME WireAssumption ==
  /\ Range(Decimals) \union Range(RawBytes) \union Range(Footer) \union {Comma, "-", " "}
       \subseteq Characters
  /\ Uids \union PropertyValues \subseteq Seq(Characters)
  /\ PropertyNames \in Seq(Seq(Characters))
  /\ Feedbacks \subseteq 0..(SanityCheck - 1)
  /\ \A m \in Composed : Crc(Flat(m)) \in Int

-----------------------------------------------------------------------------
(***************************************************************************)
(* from_stream                                                             *)
(***************************************************************************)
From(s, n)  == SubSeq(s, n + 1, Len(s))
First(s, n) == SubSeq(s, 1, IF n < Len(s) THEN n ELSE Len(s))

\* how many characters come before the first that is not one of C
Leading(s, C) ==
  CHOOSE k \in 0..Len(s) : /\ \A i \in 1..k : s[i] \in C
                           /\ k < Len(s) => s[k + 1] \notin C

\* operator>> of a number takes all the digits there are.
Digits(s) == First(s, Leading(s, Range(Decimals)))

Number[s \in Seq(Range(Decimals))] ==
  IF s = <<>> THEN 0 ELSE 10 * Number[Front(s)] + Index(Decimals, Last(s)) - 1

Negative(s)     == s # <<>> /\ s[1] = "-"
SignedDigits(s) == IF Negative(s) THEN <<"-">> \o Digits(From(s, 1)) ELSE Digits(s)
Integer(s)      == IF Negative(s) THEN -Number[From(s, 1)] ELSE Number[s]

\* getline finds nothing after the last comma.
Split[s \in Seq(Characters)] ==
  LET k == Leading(s, Characters \ {Comma})
  IN  IF s = <<>> THEN <<>> ELSE <<First(s, k)>> \o Split[From(s, k + 1)]

SetProperty(properties, name, value) ==
  [n \in DOMAIN properties \union {name} |-> IF n = name THEN value ELSE properties[n]]

\* The elements are names and values in turn; the last value of a name stays.
SetProperties(properties, elems) ==
  LET Set(n) == {i \in 1..(Len(elems) \div 2) : elems[2 * i - 1] = n}
      names  == {elems[2 * i - 1] : i \in 1..(Len(elems) \div 2)}
  IN  [n \in DOMAIN properties \union names |->
         IF n \in names THEN elems[2 * Max(Set(n))] ELSE properties[n]]

\* the four fields that begin a message, and what is after the space that ends them
Header(s) ==
  LET first  == Digits(s)
      text   == From(s, Len(first))
      flags  == From(text, Number[first])
      second == Digits(From(flags, 2))
  IN  [uid      |-> First(text, Number[first]),
       flags    |-> First(flags, 2),
       length   |-> Number[second],
       body     |-> From(flags, 3 + Len(second)),
       legible  |-> /\ first # <<>> /\ second # <<>>
                    /\ Len(flags) >= 2
                    /\ \A i \in {1, 2} : flags[i] \in Range(RawBytes)]

Sane(h) ==
  /\ h.length <= MaxLength
  /\ Index(RawBytes, h.flags[2]) - 1 < SanityCheck

\* The difference is unsigned: fewer bytes than a header and a footer are many.
LongEnough(h, received) ==
  LET rest == received - HeaderLength - Len(Footer)
  IN  h.length > 0 /\ rest >= 0 => rest >= h.length + IntSize

\* the checksum, the properties and what follows them
Body(h) ==
  LET sum  == SignedDigits(h.body)
      text == From(h.body, Len(sum) + 1)
  IN  IF h.length = 0 THEN [valid |-> TRUE, props |-> <<>>, rest |-> h.body]
      ELSE LET props == First(text, h.length)
           IN  [valid |-> Len(props) = h.length /\ Crc(props) = Integer(sum),
                props |-> props,
                rest  |-> From(text, h.length)]

Accepts(h, body, received) ==
  /\ Sane(h) /\ LongEnough(h, received) /\ body.valid
  /\ h.length > 0 /\ h.flags[1] # Raw(NoFormat) =>
       Len(Split[body.props]) > 0 /\ Len(Split[body.props]) % 2 = 0

Parsed(h, body) ==
  [uid        |-> h.uid,
   options    |-> Index(RawBytes, h.flags[1]) - 1,
   feedback   |-> Index(RawBytes, h.flags[2]) - 1,
   properties |-> IF h.length = 0 THEN inbound.properties
                  ELSE IF h.flags[1] = Raw(NoFormat)
                  THEN SetProperty(inbound.properties, Data, body.props)
                  ELSE SetProperties(inbound.properties, Split[body.props])]

-----------------------------------------------------------------------------
(***************************************************************************)
(* A connection's buffer                                                   *)
(***************************************************************************)
Write(m) ==
  /\ status = "open" /\ written < MaxMessages
  /\ stream' = stream \o ToStream(m)
  /\ queue' = Append(queue, m)
  /\ written' = written + 1
  /\ UNCHANGED <<inbound, status>>

\* Mutant of PastFooter: the footer is left.
PastFooter_Left(s) == s

PastFooter(s) == From(s, Len(Footer))

TooShort(received) == received < HeaderLength + Len(Footer) - 2

\* on_read's loop calls from_stream as long as it returns true.  What it makes of a
\* message whose header is not one is not followed any further.
FromStream ==
  /\ status = "open" /\ stream # <<>>
  /\ LET h    == Header(stream)
         body == Body(h)
     IN  IF ~h.legible /\ ~TooShort(Len(stream))
         THEN status' = "lost" /\ UNCHANGED <<stream, inbound>>
         ELSE IF ~TooShort(Len(stream)) /\ Accepts(h, body, Len(stream))
         THEN /\ inbound' = Parsed(h, body)
              /\ stream' = PastFooter(body.rest)
              /\ UNCHANGED status
         ELSE status' = "refused" /\ UNCHANGED <<stream, inbound>>
  /\ queue' = From(queue, 1)
  /\ UNCHANGED written

\* read: the message is reset, and what the loop left is discarded.
Read ==
  /\ status = "refused" \/ (status = "open" /\ stream = <<>>)
  /\ stream' = <<>> /\ queue' = <<>> /\ inbound' = Unread /\ status' = "open"
  /\ UNCHANGED written

WireNext == FromStream \/ Read \/ \E m \in Composed : Write(m)

-----------------------------------------------------------------------------
WireSpec == WireInit /\ [][WireNext]_wireVars

-----------------------------------------------------------------------------
IsDigit(c) == c \in Range(Decimals)

\* The messages that the format can carry.
Plain(m) ==
  LET props == Flat(m)
      named == {i \in 1..Len(PropertyNames) : PropertyNames[i] \in DOMAIN m.properties}
  IN  /\ m.uid # <<>> => ~IsDigit(m.uid[1])
      /\ Len(props) <= MaxLength
      /\ m.properties # <<>> =>
           /\ Len(m.uid) + Len(Text[Len(props)]) + Len(Signed(Crc(props))) >= 6
           /\ m.properties[PropertyNames[Max(named)]] # <<>>
           /\ IF Unformatted(m) THEN DOMAIN m.properties = {Data}
              ELSE \A n \in DOMAIN m.properties :
                     ~Contains(n, Comma) /\ ~Contains(m.properties[n], Comma)

Over(new, old) ==
  [n \in DOMAIN new \union DOMAIN old |-> IF n \in DOMAIN new THEN new[n] ELSE old[n]]

\* A message arrives as it was sent, on top of the properties of those before it in
\* the buffer, and the next one is found where it ends, provided that: its
\* identifier does not begin with a digit, none of its formatted names and values
\* has a comma, the last value is not empty, an unformatted message has no property
\* but its data, and it is neither too long nor too short.  (message.cpp:152-283)
RoundTrip ==
  [][ (FromStream /\ queue # <<>>) =>
        LET m == Head(queue)
        IN  (Plain(m) /\ IsPrefix(ToStream(m), stream)) =>
              /\ status' = "open"
              /\ inbound' = [m EXCEPT !.properties = Over(@, inbound.properties)]
              /\ stream = ToStream(m) \o stream'
    ]_wireVars
===================================================================================
