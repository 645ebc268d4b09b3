---------------------------------- MODULE Html ----------------------------------
(***************************************************************************)
(* html_encode (src/src/utility.cpp): a buffer is allocated by an estimate *)
(* of what the text becomes, and the text is encoded into it character by  *)
(* character as long as there is room.                                     *)
(*                                                                         *)
(* A byte is known by what the encoder makes of it.  Which entity the code *)
(* point of a character has, or which number, is left open: any of the     *)
(* lengths that there are.                                                 *)
(***************************************************************************)
EXTENDS Naturals, Sequences, FiniteSets, SequencesExt

CONSTANTS MaxBytes   \* bounds the texts

VARIABLES
  text,       \* src
  processed,  \* the number of its bytes that are encoded
  outlen,     \* the number of bytes that are written
  encoding    \* "idle", "running", or what html_encode returned

htmlVars == <<text, processed, outlen, encoding>>

\* alphanumeric; other ASCII; the ASCII that has an entity; trailing; leading, with
\* one to three bytes to follow; and what is no byte of UTF-8.
Bytes == {"alnum", "sign", "markup", "trail", "lead1", "lead2", "lead3", "none"}

Trailing(b) == CASE b = "lead1" -> 1 [] b = "lead2" -> 2 [] b = "lead3" -> 3 [] OTHER -> 0

HtmlInit == text = <<>> /\ processed = 0 /\ outlen = 0 /\ encoding = "idle"

-----------------------------------------------------------------------------
\* Mutant: the bytes of other than ASCII are not counted.
Outsz_Ascii(s) == Len(s) + 6 * Cardinality({i \in DOMAIN s : s[i] \in {"sign", "markup"}}) + 1

\* The size of the buffer: insz + count * 6 + 1.
Outsz(s) == Len(s) + 6 * Cardinality({i \in DOMAIN s : s[i] # "alnum"}) + 1

HtmlEncode(s) ==
  /\ encoding = "idle"
  /\ text' = s /\ processed' = 0 /\ outlen' = 0 /\ encoding' = "running"

Encoding == encoding = "running" /\ UNCHANGED text
Lead     == text[processed + 1]
Follow   == SubSeq(text, processed + 2, Len(text))
Return(result) == encoding' = result /\ UNCHANGED <<processed, outlen>>

EncodeEnd == Encoding /\ processed = Len(text) /\ Return("true")

\* A character that the text ends in the middle of ends the loop.
EncodeCut ==
  /\ Encoding /\ processed < Len(text)
  /\ Len(Follow) < Trailing(Lead)
  /\ Return("true")

EncodeFails ==
  /\ Encoding /\ processed < Len(text)
  /\ \/ Lead \in {"trail", "none"}
     \/ /\ Len(Follow) >= Trailing(Lead)
        /\ \E i \in 1..Trailing(Lead) : Follow[i] # "trail"
  /\ Return("false")

\* What a character takes: one byte, or a name or number between "&" and ";".  Two bytes
\* or more may stand for a code point of ASCII.
Taken(b) == CASE b \in {"alnum", "sign"} -> {1}
              [] b = "markup"            -> {4, 5, 6}
              [] OTHER                   -> {1} \union 4..10

EncodeChar(size) ==
  /\ Encoding /\ processed < Len(text)
  /\ Lead \notin {"trail", "none"} /\ Len(Follow) >= Trailing(Lead)
  /\ \A i \in 1..Trailing(Lead) : Follow[i] = "trail"
  /\ size \in Taken(Lead)
  /\ IF outlen + size > Outsz(text)
     THEN Return("true")
     ELSE /\ processed' = processed + 1 + Trailing(Lead)
          /\ outlen' = outlen + size
          /\ UNCHANGED encoding

HtmlNext ==
  \/ \E s \in BoundedSeq(Bytes, MaxBytes) : HtmlEncode(s)
  \/ EncodeEnd \/ EncodeCut \/ EncodeFails
  \/ \E size \in 1..10 : EncodeChar(size)

HtmlSpec == HtmlInit /\ [][HtmlNext]_htmlVars

-----------------------------------------------------------------------------
\* Whatever the characters of the text become, the buffer has room for them: when
\* html_encode returns true, nothing is missing but a character that the text ends in
\* the middle of.  (utility.cpp:515-528, 437-506)
EncodedInFull ==
  /\ outlen <= Outsz(text)
  /\ encoding = "true" => processed = Len(text) \/ Len(Follow) < Trailing(Lead)

\* When html_encode returns true, the whole text is encoded.  Not so: the bytes of a
\* last character that is cut short are left out without notice.  (utility.cpp:456-457)
NothingIsDropped == encoding = "true" => processed = Len(text)
=================================================================================
