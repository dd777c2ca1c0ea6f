-------------------------------- MODULE Datagrams -------------------------------
(***************************************************************************)
(* The texts of UPUSH: how lines and datagrams are formatted, parsed and   *)
(* recognised (common.c and the sprintfs and checks of its callers).       *)
(*                                                                         *)
(* A text is a sequence of words and single spaces.  A word is an atom, so *)
(* that two words of a text never stand side by side; <<>> is the empty    *)
(* text.  The last element parse_message returns may hold spaces.          *)
(***************************************************************************)
EXTENDS Naturals, SequencesExt

CONSTANTS
  BadNick,     \* words of 20 characters or more, not ASCII, or with a tab
  BadMessage   \* words not in ASCII, or that make a message too long

SP == " "

IsText(t) == \A i \in 1 .. Len(t) - 1 : t[i] = SP \/ t[i + 1] = SP

\* Where the words of t begin, and the place of the k-th word.
WordPlaces(t)  == {i \in DOMAIN t : t[i] # SP}
Place(places, k) == CHOOSE i \in places : Cardinality(places \cap 1 .. i) = k

Words(t) ==
  LET places == WordPlaces(t)
  IN  [k \in 1 .. Cardinality(places) |-> t[Place(places, k)]]

Text(words) ==
  [i \in 1 .. 2 * Len(words) - 1 |-> IF i % 2 = 1 THEN words[(i + 1) \div 2] ELSE SP]

Decimal(n) == IF n = 0 THEN "0" ELSE "1"
atoi(t)    == IF t = <<"1">> THEN 1 ELSE 0

-----------------------------------------------------------------------------
(* common.c                                                                *)

\* What strtok(NULL, "") returns after the word at position i: the space behind the
\* word was overwritten, and an empty remainder is no element.
Remainder(t, i) == SubSeq(t, i + 2, Len(t))

\* Faulty variant: the last element is a word like the others.
parse_message_Words(t, max) ==
  [i \in 1 .. Min({Len(Words(t)), max}) |-> <<Words(t)[i]>>]

\* The first max - 1 words of t, and as a last element what follows them.
parse_message(t, max) ==
  LET places == WordPlaces(t)
      n      == Cardinality(places)
      first  == [k \in 1 .. Min({n, max - 1}) |-> <<t[Place(places, k)]>>]
      last   == Remainder(t, Place(places, max - 1))
  IN  IF max <= 1 THEN <<>>
      ELSE IF n < max - 1 \/ last = <<>> THEN first
      ELSE Append(first, last)

\* The empty text is valid.
is_word_valid_nick(t) == \A i \in DOMAIN t : t[i] # SP /\ t[i] \notin BadNick

is_word_number(t) == \A i \in DOMAIN t : t[i] \in {"0", "1"}

-----------------------------------------------------------------------------
(* What is typed, behind the @: a nick and a message.                      *)

is_valid_client_message(t) == \A i \in DOMAIN t : t[i] \notin BadMessage

\* Faulty variant: a line that is a nick alone is accepted.
IsClientInput_NickAlone(line) ==
  LET parsed == parse_message(line, 2) IN
  /\ Len(parsed) >= 1
  /\ is_word_valid_nick(parsed[1])

\* Whether parse_client_input accepts a line, and what it returns then.
IsClientInput(line) ==
  LET parsed == parse_message(line, 2) IN
  /\ Len(parsed) >= 2
  /\ is_word_valid_nick(parsed[1])
  /\ is_valid_client_message(parsed[2])

recipient_nick(line)    == Head(parse_message(line, 2)[1])
recipient_message(line) ==
  IF Len(parse_message(line, 2)) < 2 THEN <<>> ELSE parse_message(line, 2)[2]

-----------------------------------------------------------------------------
(* Requests to the server and its answers.                                 *)

RegMessage(num, nick)    == Text(<<"PKT", Decimal(num), "REG", nick>>)
LookupMessage(num, nick) == Text(<<"PKT", Decimal(num), "LOOKUP", nick>>)

IsRequest(parsed, command) ==
  /\ Len(parsed) = 4
  /\ parsed[1] = <<"PKT">>
  /\ is_word_number(parsed[2])
  /\ parsed[3] = <<command>>
  /\ is_word_valid_nick(parsed[4])

is_reg_message(parsed)    == IsRequest(parsed, "REG")
is_lookup_message(parsed) == IsRequest(parsed, "LOOKUP")

NotFoundAnswer(number)          == Text(<<"ACK">> \o number \o <<"NOT", "FOUND">>)
FoundAnswer(number, nick, port) ==
  Text(<<"ACK">> \o number \o <<"NICK", nick, "IP", "127.0.0.1", "PORT", port>>)

-----------------------------------------------------------------------------
(* Datagrams between clients.                                              *)

PktMessage(num, from, to, message) ==
  Text(<<"PKT", Decimal(num), "FROM", from, "TO", to, "MSG">>) \o <<SP>> \o message

AckMessage(num) == Text(<<"ACK", Decimal(num), "OK">>)

-----------------------------------------------------------------------------
\* The texts over a few words, for comparing parse_message with its description.
TextsOver(W, n) ==
  {t \in UNION {[1 .. len -> W \cup {SP}] : len \in 0 .. n} : IsText(t)}

\* "if msg has more spaces than max, squeeze the remainder into last element"
\* (common.h:67): every element but the last is a word, in order; the last one is
\* a suffix of the message that holds all its other words; and no word is missing.
AsDocumented(t, max) ==
  LET parsed == parse_message(t, max)
      n      == Len(parsed)
  IN  /\ n <= max
      /\ \A i \in 1 .. n : i < max => parsed[i] = <<Words(t)[i]>>
      /\ n = max => /\ IsSuffix(parsed[n], t)
                    /\ Words(t) = SubSeq(Words(t), 1, n - 1) \o Words(parsed[n])
      /\ n < max => n = Len(Words(t))
=============================================================================
