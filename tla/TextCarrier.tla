---------------------------- MODULE TextCarrier ----------------------------
(***************************************************************************)
(* TextCarrier and the text form of SpanContext: how a context is written  *)
(* into the headers of a request or behind the payload of a message, and   *)
(* read back.  A text is a sequence of characters; 0..15 are the digits,   *)
(* larger numbers are other characters.  Signs, blanks and a leading 0x,   *)
(* which stoul accepts and nothing writes, are left out.                   *)
(***************************************************************************)
EXTENDS Integers, Sequences, SequencesExt

CONSTANT WordDigits   \* hexadecimal digits of an id: 16 in the code

ASSUME WordDigitsAssumption == WordDigits \in Nat \ {0}

\* The number of words with so many digits, 16 to the power of k.
WordCount[k \in Nat] == IF k = 0 THEN 1 ELSE 16 * WordCount[k - 1]

Word == 0..(WordCount[WordDigits] - 1)

\* An int64_t printed in hexadecimal and stoul's result stored in one are the
\* word of its bits, so ids are words.  Flags are small numbers.
ContextType == [high : Word, low : Word, span : Word, parent : Word, flags : Nat]

-----------------------------------------------------------------------------
(* Numbers and texts. *)

\* operator<< with std::hex, and std::to_string: no leading zeros.
Numeral(n, base) ==
    LET digits[m \in Nat] == IF m < base THEN <<m>> ELSE Append(digits[m \div base], m % base)
    IN digits[n]

\* setfill('0') << setw(16)
Padded(text) == [i \in 1..(WordDigits - Len(text)) |-> 0] \o text

TraceText(c) ==
    IF c.high = 0 THEN Numeral(c.low, 16)
    ELSE Numeral(c.high, 16) \o Padded(Numeral(c.low, 16))

\* The digits a text starts with.
LeadingDigits(text, base) ==
    SubSeq(text, 1, CHOOSE n \in 0..Len(text) :
                       /\ \A i \in 1..n : text[i] < base
                       /\ n < Len(text) => text[n + 1] >= base)

Value(digits, base) ==
    LET upTo[i \in 0..Len(digits)] == IF i = 0 THEN 0 ELSE upTo[i - 1] * base + digits[i]
    IN upTo[Len(digits)]

\* std::stoul: the number the text starts with, or an exception (no element).
Stoul(text, base) ==
    LET digits == LeadingDigits(text, base)
    IN IF digits = <<>> \/ Value(digits, base) \notin Word THEN {} ELSE {Value(digits, base)}

-----------------------------------------------------------------------------
(* SpanContext(std::stringstream&): the items between the colons. *)

\* The two words of a trace id.
HighText(trace) ==
    IF Len(trace) > WordDigits THEN SubSeq(trace, 1, Len(trace) - WordDigits) ELSE <<0>>
LowText(trace) ==
    IF Len(trace) > WordDigits THEN SubSeq(trace, Len(trace) - WordDigits + 1, Len(trace))
    ELSE IF trace = <<>> THEN <<0>> ELSE trace

\* getline finds no last item that is empty.
Items(items) == IF items # <<>> /\ Last(items) = <<>> THEN Front(items) ELSE items

\* The context, or none: too few items, or an exception of stoul.
Parse(texts) ==
    LET items == Items(texts)
    IN IF Len(items) < 4 THEN {}
       ELSE {[high |-> high, low |-> low, span |-> span, parent |-> parent, flags |-> flags] :
                high \in Stoul(HighText(items[1]), 16),
                low \in Stoul(LowText(items[1]), 16),
                span \in Stoul(items[2], 16),
                parent \in Stoul(items[3], 16),
                flags \in Stoul(items[4], 10)}

\* operator std::string: here the flags are hexadecimal too.
ContextText(c) ==
    <<TraceText(c), Numeral(c.span, 16), Numeral(c.parent, 16), Numeral(c.flags, 16)>>

-----------------------------------------------------------------------------
(* A string carrier: the pieces between its bars, each a list of items.  A  *)
(* payload may hold bars of its own.                                       *)

Bar == 31   \* '|', which is no digit

InjectStringAppends(c, carrier) == carrier \o <<ContextText(c)>>   \* mutant

\* What is behind the first bar, the payload's or an injected one, is replaced.
InjectString(c, carrier) == <<Head(carrier), ContextText(c)>>

\* Several pieces as one text: the items around a bar are one item with a bar in it.
Joined(pieces) ==
    LET upTo[n \in 1..Len(pieces)] ==
          IF n = 1 THEN pieces[1]
          ELSE Front(upTo[n - 1])
                 \o <<Last(upTo[n - 1]) \o <<Bar>> \o Head(pieces[n])>> \o Tail(pieces[n])
    IN upTo[Len(pieces)]

ExtractFirst(carrier) == Parse(carrier[1])   \* mutant: what is before the bar

\* All that is behind the first bar; without a bar the whole string.
ExtractString(carrier) == Parse(Joined(IF Len(carrier) > 1 THEN Tail(carrier) ELSE carrier))

-----------------------------------------------------------------------------
(* A map carrier.  Names of headers come as inject writes them, in small    *)
(* letters, or as HTTP servers do, capitalized: [small, capital], each with *)
(* the four headers.  An absent header is a set without element.           *)

Headers == {"traceid", "spanid", "parentspanid", "sampled"}
NoHeaders == [h \in Headers |-> {}]
EmptyMap  == [small |-> NoHeaders, capital |-> NoHeaders]

InjectMapKeeps(c, carrier) ==   \* mutant: a header that is there keeps its text
    [carrier EXCEPT !.small =
        [h \in Headers |->
            IF carrier.small[h] # {} THEN carrier.small[h]
            ELSE CASE h = "traceid" -> {TraceText(c)}
                   [] h = "spanid" -> {Numeral(c.span, 16)}
                   [] h = "parentspanid" -> {Numeral(c.parent, 16)}
                   [] h = "sampled" -> {Numeral(c.flags, 10)}]]

InjectMap(c, carrier) ==
    [carrier EXCEPT !.small =
        [h \in Headers |->
            CASE h = "traceid" -> {TraceText(c)}
              [] h = "spanid" -> {Numeral(c.span, 16)}
              [] h = "parentspanid" -> {Numeral(c.parent, 16)}
              [] h = "sampled" -> {Numeral(c.flags, 10)}]]

\* The map is sorted, capital letters first: the last spelling wins.
Lowercase(carrier) ==
    [h \in Headers |-> IF carrier.small[h] # {} THEN carrier.small[h] ELSE carrier.capital[h]]

\* A header that is absent is read as the empty text.
Text(header) == IF header = {} THEN <<>> ELSE CHOOSE text \in header : TRUE

ExtractMap(carrier) ==
    LET headers == Lowercase(carrier)
    IN Parse(<<Text(headers["traceid"]), Text(headers["spanid"]),
               Text(headers["parentspanid"]), Text(headers["sampled"])>>)

\* A decision that starts with no digit: stoul throws std::invalid_argument, which
\* extract does not catch.
FlagThrows(carrier) ==
    \E text \in Lowercase(carrier)["sampled"] : LeadingDigits(text, 10) = <<>>

\* What extract assigns to Tracer::header_flag: nothing (std::out_of_range, caught)
\* without the header, or when its number is too large.
HeaderFlag(carrier, old) ==
    LET flag == UNION {Stoul(text, 10) : text \in Lowercase(carrier)["sampled"]}
    IN IF flag = {} THEN old ELSE CHOOSE f \in flag : TRUE

=============================================================================
