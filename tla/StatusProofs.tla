--------------------------- MODULE StatusProofs ----------------------------
(***************************************************************************)
(* What s6-svstat prints of a service is read right by svstat_parse() and  *)
(* Service.svstat(), in every state of Pgctl and for every line that there *)
(* may be.  Lines are lists of words; the words stand in the lemmas as     *)
(* names (Named says which), and are told apart as what they are only where *)
(* that is needed.                                                         *)
(***************************************************************************)
EXTENDS PgctlProofs, StatusLine, SequenceTheorems

(***************************************************************************)
(* parse()                                                                 *)
(***************************************************************************)
\* Nothing is parsed of what does not begin with the field.
LEMMA ParseOff ==
  ASSUME NEW start, NEW divider, NEW string, string = <<>> \/ string[1] # start
  PROVE  Parse(string, start, divider) = [result |-> None, rest |-> string]
BY DEF Parse

\* A sequence of one atom.
LEMMA Single ==
  ASSUME NEW S, NEW q \in Seq(S), Len(q) = 1
  PROVE  q = <<q[1]>>
OBVIOUS

\* The divider follows one atom.
LEMMA ValueFirst ==
  ASSUME NEW S, NEW v \in S, NEW divider \in S, v # divider, NEW rest \in Seq(S),
         NEW body, body = <<v, divider>> \o rest
  PROVE  UpTo(body, divider) = [result |-> <<v>>, rest |-> rest]
<1>1. <<v, divider>> \in Seq(S) /\ Len(<<v, divider>>) = 2
  OBVIOUS
<1>2. /\ body \in Seq(S) /\ Len(body) = 2 + Len(rest)
      /\ \A i \in 1..(2 + Len(rest)) :
           body[i] = IF i <= 2 THEN <<v, divider>>[i] ELSE rest[i - 2]
  BY <1>1, ConcatProperties
<1>3. Len(rest) \in Nat /\ DOMAIN body = 1..(2 + Len(rest))
  BY <1>2, LenProperties
<1>4. body[1] = v /\ body[2] = divider
  BY <1>2, <1>3
<1>6. EndOf(body, divider) = 2
  <2> DEFINE ends == {i \in DOMAIN body : body[i] = divider}
  <2>1. 2 \in ends /\ \A i \in ends : i \in Nat /\ 2 <= i
    BY <1>3, <1>4
  <2>2. EndOf(body, divider) = Min(ends)
    BY <2>1 DEF EndOf
  <2> HIDE DEF ends
  <2>3. \A x \in ends : (\A y \in ends : x <= y) => x = 2
    BY <2>1
  <2>4. Min(ends) \in ends /\ \A y \in ends : Min(ends) <= y
    BY <2>1 DEF Min
  <2> QED
    BY <2>2, <2>3, <2>4
<1>7. SubSeq(body, 1, 1) = <<v>>
  <2>1. /\ SubSeq(body, 1, 1) \in Seq(S) /\ Len(SubSeq(body, 1, 1)) = 1
        /\ SubSeq(body, 1, 1)[1] = v
    BY <1>4, SubSeqProperties
  <2> QED
    BY <2>1, Single
<1>8. SubSeq(body, 3, Len(body)) = rest
  <2> DEFINE sub == SubSeq(body, 3, Len(body))
  <2>1. \A i \in 3..Len(body) : body[i] = rest[i - 2] /\ rest[i - 2] \in S
    BY <1>2, <1>3, LenProperties
  <2>2. /\ sub \in Seq(S)
        /\ Len(sub) = IF 3 <= Len(body) THEN Len(body) - 3 + 1 ELSE 0
        /\ \A i \in 1..(Len(body) - 3 + 1) : sub[i] = body[3 + i - 1]
    BY <1>2, <1>3, <2>1, SubSeqProperties
  <2> HIDE DEF sub
  <2>3. Len(sub) = Len(rest)
    BY <1>2, <1>3, <2>2
  <2>4. ASSUME NEW i \in 1..Len(sub) PROVE sub[i] = rest[i]
    <3>1. i \in 1..Len(rest) /\ i + 2 \in 3..Len(body) /\ 3 + i - 1 = i + 2 /\ (i + 2) - 2 = i
      BY <1>2, <1>3, <2>3
    <3>2. sub[i] = body[i + 2]
      BY <1>2, <1>3, <2>2, <3>1
    <3> QED
      BY <2>1, <3>1, <3>2
  <2>5. sub = rest
    BY <2>2, <2>3, <2>4, SeqEqual
  <2> QED
    BY <2>5 DEF sub
<1>9. UpTo(body, divider) =
        [result |-> SubSeq(body, 1, 2 - 1), rest |-> SubSeq(body, 2 + 1, Len(body))]
  BY <1>6 DEF UpTo
<1>10. UpTo(body, divider) = [result |-> SubSeq(body, 1, 1), rest |-> SubSeq(body, 3, Len(body))]
  BY <1>9
<1> QED
  BY <1>7, <1>8, <1>10, Zenon

\* The tail of a sequence that begins with an atom.
LEMMA Behind ==
  ASSUME NEW S, NEW first \in S, NEW body \in Seq(S), NEW string, string = <<first>> \o body
  PROVE  /\ string \in Seq(S) /\ string # <<>> /\ string[1] = first
         /\ Tail(string) = body
<1>1. <<first>> \in Seq(S) /\ Len(<<first>>) = 1
  OBVIOUS
<1>4. /\ string \in Seq(S) /\ Len(string) = 1 + Len(body)
      /\ \A i \in 1..(1 + Len(body)) : string[i] = IF i <= 1 THEN <<first>>[i] ELSE body[i - 1]
  BY <1>1, ConcatProperties
<1>5. Len(body) \in Nat
  BY LenProperties
<1>6. string # <<>> /\ string[1] = first
  BY <1>4, <1>5
<1>7. Tail(string) = body
  <2>1. /\ Tail(string) \in Seq(S) /\ Len(Tail(string)) = Len(body)
        /\ \A i \in 1..Len(Tail(string)) : Tail(string)[i] = string[i + 1]
    BY <1>4, <1>5, <1>6, HeadTailProperties
  <2>2. \A i \in 1..Len(body) : string[i + 1] = body[i]
    BY <1>4, <1>5
  <2> QED
    BY <2>1, <2>2, SeqEqual
<1> QED
  BY <1>4, <1>6, <1>7

\* A field, and what is left.
LEMMA FieldFirst ==
  ASSUME NEW S, NEW start \in S, NEW v \in S, NEW divider \in S, NEW rest \in Seq(S),
         NEW string, string = <<start, v, divider>> \o rest
  PROVE  /\ string # <<>> /\ string[1] = start /\ Tail(string) = <<v, divider>> \o rest
<1>1. PICK body : body = <<v, divider>> \o rest
  OBVIOUS
<1>2. <<start>> \in Seq(S) /\ <<v, divider>> \in Seq(S)
  OBVIOUS
<1>3. <<start, v, divider>> = <<start>> \o <<v, divider>>
  OBVIOUS
<1>4. body \in Seq(S)
  BY <1>1, <1>2, ConcatProperties
<1>5. string = <<start>> \o body
  <2>1. (<<start>> \o <<v, divider>>) \o rest = <<start>> \o (<<v, divider>> \o rest)
    BY <1>2, ConcatAssociative
  <2> QED
    BY <1>1, <1>3, <2>1
<1> QED
  BY <1>1, <1>4, <1>5, Behind

\* A field at the end of the line.
LEMMA ValueLast ==
  ASSUME NEW S, NEW v \in S, NEW divider \in S, v # divider, NEW body, body = <<v>>
  PROVE  UpTo(body, divider) = [result |-> <<v>>, rest |-> <<>>]
<1>1. body \in Seq(S) /\ Len(body) = 1 /\ body[1] = v
  OBVIOUS
<1>2. EndOf(body, divider) = 2
  <2>1. {i \in DOMAIN body : body[i] = divider} = {}
    BY <1>1
  <2> QED
    BY <1>1, <2>1 DEF EndOf
<1>3. SubSeq(body, 1, 1) = <<v>>
  <2>1. /\ SubSeq(body, 1, 1) \in Seq(S) /\ Len(SubSeq(body, 1, 1)) = 1
        /\ SubSeq(body, 1, 1)[1] = v
    BY <1>1, SubSeqProperties
  <2> QED
    BY <2>1, Single
<1>4. SubSeq(body, 3, 1) = <<>>
  BY SubSeqEmpty
<1> QED
  BY <1>1, <1>2, <1>3, <1>4 DEF UpTo

\* Two atoms.
LEMMA Pair ==
  ASSUME NEW start, NEW v, NEW string, string = <<start, v>>
  PROVE  string # <<>> /\ string[1] = start /\ Tail(string) = <<v>>
OBVIOUS

\* A field of two atoms is the whole string.
LEMMA ParseLast ==
  ASSUME NEW S, NEW start \in S, NEW v \in S, NEW divider \in S, v # divider
  PROVE  Parse(<<start, v>>, start, divider) = [result |-> <<v>>, rest |-> <<>>]
<1>1. PICK string : string = <<start, v>>
  OBVIOUS
<1>2. PICK body : body = <<v>>
  OBVIOUS
<1>3. string # <<>> /\ string[1] = start /\ Tail(string) = body
  BY <1>1, <1>2, Pair
<1>4. UpTo(body, divider) = [result |-> <<v>>, rest |-> <<>>]
  BY <1>2, ValueLast
<1> QED
  BY <1>1, <1>3, <1>4 DEF Parse

(***************************************************************************)
(* One field.                                                              *)
(***************************************************************************)
\* The atoms of a line, the lines, and what stands in front of one.
Atoms == {"up", "down", "up\\0", " ", "(pid ", "(exitcode ", "(signal ", ") ", "0", "1",
          "SIGTERM", " seconds", ", ", "normally ", "want ", "ready "}
Text == Seq(Atoms)
Puts2(string, v, w, tail) == string = <<v, w>> \o tail
Puts3(string, v, w, x, tail) == string = <<v, w, x>> \o tail
Reads(read, result, rest) == read.result = result /\ read.rest = rest

\* What is put in front of a line is a line.
LEMMA PutsText ==
  ASSUME NEW v \in Atoms, NEW w \in Atoms, NEW x \in Atoms, NEW tail \in Text, NEW string,
         Puts2(string, v, w, tail) \/ Puts3(string, v, w, x, tail)
  PROVE  string \in Text
<1>1. <<v, w>> \in Seq(Atoms) /\ <<v, w, x>> \in Seq(Atoms)
  OBVIOUS
<1> QED
  BY <1>1, ConcatProperties DEF Text, Puts2, Puts3

\* A value and its divider.
LEMMA ReadsValue ==
  ASSUME NEW v \in Atoms, NEW divider \in Atoms, v # divider, NEW tail \in Text,
         NEW string, Puts2(string, v, divider, tail)
  PROVE  Reads(UpTo(string, divider), <<v>>, tail)
<1>1. UpTo(string, divider) = [result |-> <<v>>, rest |-> tail]
  BY ValueFirst DEF Text, Puts2
<1> QED
  BY <1>1 DEF Reads

\* A field that is there.
LEMMA ReadsField ==
  ASSUME NEW start \in Atoms, NEW v \in Atoms, NEW divider \in Atoms, v # divider,
         NEW tail \in Text, NEW string, Puts3(string, start, v, divider, tail)
  PROVE  Reads(Parse(string, start, divider), <<v>>, tail)
<1>1. PICK body : Puts2(body, v, divider, tail)
  BY DEF Puts2
<1>2. Reads(UpTo(body, divider), <<v>>, tail)
  BY <1>1, ReadsValue
<1>3. string # <<>> /\ string[1] = start /\ Tail(string) = body
  BY <1>1, FieldFirst DEF Text, Puts2, Puts3
<1> QED
  BY <1>2, <1>3 DEF Parse

\* A field that is not there: something else is.
LEMMA ReadsNone ==
  ASSUME NEW v \in Atoms, NEW w \in Atoms, NEW x \in Atoms, NEW tail \in Text,
         NEW start, start # v, NEW divider, NEW string,
         Puts2(string, v, w, tail) \/ Puts3(string, v, w, x, tail)
  PROVE  Reads(Parse(string, start, divider), None, string)
<1>1. <<v, w>> \in Seq(Atoms) /\ Len(<<v, w>>) = 2 /\ Len(tail) \in Nat
  BY DEF Text
<1>2. <<v, w, x>> \in Seq(Atoms) /\ Len(<<v, w, x>>) = 3
  OBVIOUS
<1>3. CASE Puts2(string, v, w, tail)
  <2>1. string[1] = v
    BY <1>1, <1>3, ConcatProperties DEF Text, Puts2
  <2> QED
    BY <2>1 DEF Parse, Reads
<1>4. CASE Puts3(string, v, w, x, tail)
  <2>1. string[1] = v
    BY <1>4, FieldFirst DEF Text, Puts3
  <2> QED
    BY <2>1 DEF Parse, Reads
<1> QED
  BY <1>3, <1>4

\* A field at the end.
LEMMA ReadsLast ==
  ASSUME NEW start \in Atoms, NEW v \in Atoms, NEW divider \in Atoms, v # divider,
         NEW string, string = <<start, v>>
  PROVE  Reads(Parse(string, start, divider), <<v>>, <<>>)
<1>1. Parse(<<start, v>>, start, divider) = [result |-> <<v>>, rest |-> <<>>]
  BY ParseLast
<1> QED
  BY <1>1 DEF Reads

(***************************************************************************)
(* The fields behind the seconds.                                          *)
(***************************************************************************)
\* What begins with a field, and what it is followed by: `rest` behind a comma, if
\* there is a rest.
Begins(string, v) == string # <<>> /\ string[1] = v
Comes(string, start, v, comma, rest) ==
  \/ rest = <<>> /\ string = <<start, v>>
  \/ rest # <<>> /\ Puts3(string, start, v, comma, rest)
Led(string, comma, rest) ==
  \/ rest = <<>> /\ string = <<>>
  \/ rest # <<>> /\ string = <<comma>> \o rest

\* A field that is the last or not.
LEMMA ReadsComing ==
  ASSUME NEW start \in Atoms, NEW v \in Atoms, NEW comma \in Atoms, v # comma,
         NEW rest \in Text, NEW string, Comes(string, start, v, comma, rest)
  PROVE  /\ Reads(Parse(string, start, comma), <<v>>, rest)
         /\ Begins(string, start) /\ string \in Text
<1>1. CASE rest = <<>> /\ string = <<start, v>>
  <2>1. Reads(Parse(string, start, comma), <<v>>, <<>>)
    BY <1>1, ReadsLast
  <2>2. string # <<>> /\ string[1] = start
    BY <1>1, Pair
  <2>3. string \in Text
    BY <1>1 DEF Text
  <2> QED
    BY <1>1, <2>1, <2>2, <2>3 DEF Begins
<1>2. CASE rest # <<>> /\ Puts3(string, start, v, comma, rest)
  <2>1. Reads(Parse(string, start, comma), <<v>>, rest)
    BY <1>2, ReadsField
  <2>2. string # <<>> /\ string[1] = start
    BY <1>2, FieldFirst DEF Text, Puts3
  <2>3. string \in Text
    BY <1>2, PutsText
  <2> QED
    BY <2>1, <2>2, <2>3 DEF Begins
<1> QED
  BY <1>1, <1>2 DEF Comes

\* One more field in front of fields that are led by a comma.
LEMMA OneMore ==
  ASSUME NEW comma \in Atoms, NEW start \in Atoms, NEW v \in Atoms, NEW rest \in Text,
         NEW led, Led(led, comma, rest), NEW string, string = <<comma, start, v>> \o led
  PROVE  \E more \in Text : Comes(more, start, v, comma, rest) /\ Led(string, comma, more)
<1>1. PICK more : IF rest = <<>> THEN more = <<start, v>> ELSE Puts3(more, start, v, comma, rest)
  BY DEF Puts3
<1>2. more \in Text
  <2>0. <<start, v>> \in Seq(Atoms)
    OBVIOUS
  <2>1. rest = <<>> => more \in Text
    BY <1>1, <2>0 DEF Text
  <2>2. rest # <<>> => more \in Text
    BY <1>1, PutsText
  <2> QED
    BY <2>1, <2>2
<1>3. Comes(more, start, v, comma, rest)
  BY <1>1 DEF Comes
<1>4. more # <<>>
  <2>1. rest = <<>> => more # <<>>
    BY <1>1, Pair
  <2>2. rest # <<>> => more # <<>>
    BY <1>1, FieldFirst DEF Text, Puts3
  <2> QED
    BY <2>1, <2>2
<1>5. string = <<comma>> \o more
  <2>0. <<comma>> \in Seq(Atoms) /\ <<start, v>> \in Seq(Atoms) /\ <<comma, start, v>> \in Seq(Atoms)
        /\ <<comma, start, v>> = <<comma>> \o <<start, v>>
        /\ <<start, v, comma>> = <<start, v>> \o <<comma>>
    OBVIOUS
  <2>1. CASE rest = <<>>
    <3>1. led = <<>> /\ more = <<start, v>>
      BY <1>1, <2>1 DEF Led
    <3>2. <<comma, start, v>> \o <<>> = <<comma, start, v>>
      BY <2>0
    <3> QED
      BY <2>0, <3>1, <3>2
  <2>2. CASE rest # <<>>
    <3>1. led = <<comma>> \o rest /\ more = <<start, v, comma>> \o rest
      BY <1>1, <2>2 DEF Led, Puts3
    <3>2. PICK pair : pair = <<start, v>>
      OBVIOUS
    <3>3. PICK one : one = <<comma>>
      OBVIOUS
    <3>4. pair \in Seq(Atoms) /\ one \in Seq(Atoms) /\ rest \in Seq(Atoms) /\ pair \o one \in Seq(Atoms)
      BY <2>0, <3>2, <3>3, ConcatProperties DEF Text
    <3>5. (one \o pair) \o (one \o rest) = one \o (pair \o (one \o rest))
      <4>1. one \o rest \in Seq(Atoms)
        BY <3>4, ConcatProperties
      <4> QED
        BY <3>4, <4>1, ConcatAssociative
    <3>6. (pair \o one) \o rest = pair \o (one \o rest)
      BY <3>4, ConcatAssociative, SMTT(30)
    <3>7. string = (one \o pair) \o (one \o rest)
      BY <2>0, <3>1, <3>2, <3>3
    <3>8. more = (pair \o one) \o rest
      BY <2>0, <3>1, <3>2, <3>3
    <3> QED
      BY <3>3, <3>5, <3>6, <3>7, <3>8
  <2> QED
    BY <2>1, <2>2
<1>6. Led(string, comma, more)
  BY <1>4, <1>5 DEF Led
<1> QED
  BY <1>2, <1>3, <1>6

\* lstrip() takes the comma.
LEMMA Stripped ==
  ASSUME NEW rest \in Text, NEW string, Led(string, ", ", rest)
  PROVE  LStrip(string) = rest
<1>1. PICK comma : comma = ", "
  OBVIOUS
<1>2. comma \in Atoms
  BY <1>1 DEF Atoms
<1>3. CASE rest = <<>> /\ string = <<>>
  BY <1>3 DEF LStrip
<1>4. CASE rest # <<>> /\ string = <<comma>> \o rest
  <2>1. string # <<>> /\ string[1] = comma /\ Tail(string) = rest
    BY <1>2, <1>4, Behind DEF Text
  <2> QED
    BY <1>1, <2>1 DEF LStrip
<1> QED
  BY <1>1, <1>3, <1>4 DEF Led

\* The last field, if it is there.
LEMMA ReadsReady ==
  ASSUME NEW ready \in Atoms, NEW one \in Atoms, NEW sec \in Atoms, one # sec,
         NEW string, NEW r,
         \/ string = <<>> /\ r = None
         \/ string = <<ready, one, sec>> /\ r = <<one>>
  PROVE  /\ Reads(Parse(string, ready, sec), r, <<>>) /\ string \in Text
         /\ string = <<>> \/ string[1] = ready
<1>0. <<>> \in Text /\ <<ready, one, sec>> \in Text
  BY DEF Text
<1>1. CASE string = <<>> /\ r = None
  BY <1>0, <1>1, ParseOff DEF Reads
<1>2. CASE string = <<ready, one, sec>> /\ r = <<one>>
  <2>1. <<ready, one, sec>> \o <<>> = <<ready, one, sec>>
    BY <1>0 DEF Text
  <2>2. Puts3(string, ready, one, sec, <<>>)
    BY <1>2, <2>1 DEF Puts3
  <2>3. Reads(Parse(string, ready, sec), <<one>>, <<>>)
    BY <1>0, <2>2, ReadsField
  <2>4. string[1] = ready
    BY <1>2
  <2> QED
    BY <1>0, <1>2, <2>3, <2>4
<1> QED
  BY <1>1, <1>2

\* A field in front of others, if it is there.
Optional(string, start, v, comma, rest, r) ==
  \/ string = rest /\ r = None
  \/ Comes(string, start, v, comma, rest) /\ r = <<v>>

\* It is read if it is there, and passed over if it is not.
LEMMA ReadsOptional ==
  ASSUME NEW start \in Atoms, NEW v \in Atoms, NEW comma \in Atoms, v # comma,
         NEW rest \in Text, rest = <<>> \/ rest[1] # start, NEW string, NEW r, Optional(string, start, v, comma, rest, r)
  PROVE  /\ Reads(Parse(string, start, comma), r, rest) /\ string \in Text
         /\ string = rest \/ string[1] = start
<1>1. CASE string = rest /\ r = None
  BY <1>1, ParseOff DEF Reads
<1>2. CASE Comes(string, start, v, comma, rest) /\ r = <<v>>
  BY <1>2, ReadsComing DEF Begins
<1> QED
  BY <1>1, <1>2 DEF Optional

\* What is made of the fields behind the seconds.
TailRead(string, norm, wanted, ready, comma, sec, w, r) ==
  /\ Parse(Parse(string, norm, comma).rest, wanted, comma).result = w
  /\ Reads(Parse(Parse(Parse(string, norm, comma).rest, wanted, comma).rest, ready, sec), r, <<>>)

\* All of them are read, whichever are there.
LEMMA ReadsTail ==
  ASSUME NEW norm \in Atoms, NEW nv \in Atoms, NEW wanted \in Atoms, NEW wv \in Atoms,
         NEW ready \in Atoms, NEW one \in Atoms, NEW sec \in Atoms, NEW comma \in Atoms,
         one # sec, nv # comma, wv # comma, norm # wanted, norm # ready, wanted # ready,
         NEW last, NEW r,
         \/ last = <<>> /\ r = None
         \/ last = <<ready, one, sec>> /\ r = <<one>>,
         NEW middle, NEW w,
         Optional(middle, wanted, wv, comma, last, w),
         NEW string, string = middle \/ Comes(string, norm, nv, comma, middle)
  PROVE  TailRead(string, norm, wanted, ready, comma, sec, w, r)
<1>1. /\ Reads(Parse(last, ready, sec), r, <<>>) /\ last \in Text
      /\ last = <<>> \/ last[1] = ready
  BY ReadsReady
<1>2. /\ Reads(Parse(middle, wanted, comma), w, last) /\ middle \in Text
      /\ middle = last \/ middle[1] = wanted
  <2>1. last = <<>> \/ last[1] # wanted
    BY <1>1
  <2> QED
    BY <1>1, <2>1, ReadsOptional
<1>3. middle = <<>> \/ middle[1] # norm
  BY <1>1, <1>2
<1>4. Parse(string, norm, comma).rest = middle
  <2>1. CASE string = middle
    BY <1>3, <2>1, ParseOff
  <2>2. CASE Comes(string, norm, nv, comma, middle)
    BY <1>2, <2>2, ReadsComing DEF Reads
  <2> QED
    BY <2>1, <2>2
<1> QED
  BY <1>1, <1>2, <1>4 DEF TailRead, Reads

(***************************************************************************)
(* The fields up to the seconds.                                           *)
(***************************************************************************)
\* What is made of the fields up to the seconds: at most one of process id, exit
\* code and signal is there.
HeadRead(buffer, pid, exit, sig, paren, sec, code, v, tail) ==
  /\ Parse(Parse(buffer, pid, paren).rest, exit, paren).result = code
  /\ Reads(UpTo(Parse(Parse(Parse(buffer, pid, paren).rest, exit, paren).rest, sig, paren).rest,
                sec), <<v>>, tail)
Headed(buffer, pid, exit, sig, n, paren, body, code) ==
  \/ buffer = body /\ code = None
  \/ Puts3(buffer, pid, n, paren, body) /\ code = None
  \/ Puts3(buffer, exit, n, paren, body) /\ code = <<n>>
  \/ Puts3(buffer, sig, n, paren, body) /\ code = None

\* It is read, and the others are passed over.
LEMMA ReadsHead ==
  ASSUME NEW pid \in Atoms, NEW exit \in Atoms, NEW sig \in Atoms, NEW paren \in Atoms,
         NEW sec \in Atoms, NEW n \in Atoms, NEW v \in Atoms,
         pid # exit, pid # sig, exit # sig, v # pid, v # exit, v # sig, v # sec, n # paren,
         NEW tail \in Text, NEW body, Puts2(body, v, sec, tail), NEW buffer, NEW code,
         Headed(buffer, pid, exit, sig, n, paren, body, code)
  PROVE  HeadRead(buffer, pid, exit, sig, paren, sec, code, v, tail)
<1>1. body \in Text
  BY PutsText
<1>2. Reads(UpTo(body, sec), <<v>>, tail)
  BY ReadsValue
<1>3. /\ Reads(Parse(body, pid, paren), None, body)
      /\ Reads(Parse(body, exit, paren), None, body)
      /\ Reads(Parse(body, sig, paren), None, body)
  BY ReadsNone
<1>4. CASE buffer = body /\ code = None
  BY <1>2, <1>3, <1>4 DEF HeadRead, Reads
<1>5. CASE Puts3(buffer, pid, n, paren, body) /\ code = None
  <2>1. Reads(Parse(buffer, pid, paren), <<n>>, body)
    BY <1>1, <1>5, ReadsField
  <2> QED
    BY <1>2, <1>3, <1>5, <2>1 DEF HeadRead, Reads
<1>6. CASE Puts3(buffer, exit, n, paren, body) /\ code = <<n>>
  <2>1. Reads(Parse(buffer, pid, paren), None, buffer)
    BY <1>1, <1>6, ReadsNone
  <2>2. Reads(Parse(buffer, exit, paren), <<n>>, body)
    BY <1>1, <1>6, ReadsField
  <2> QED
    BY <1>2, <1>3, <1>6, <2>1, <2>2 DEF HeadRead, Reads
<1>7. CASE Puts3(buffer, sig, n, paren, body) /\ code = None
  <2>1. Reads(Parse(buffer, pid, paren), None, buffer)
    BY <1>1, <1>7, ReadsNone
  <2>2. Reads(Parse(buffer, exit, paren), None, buffer)
    BY <1>1, <1>7, ReadsNone
  <2>3. Reads(Parse(buffer, sig, paren), <<n>>, body)
    BY <1>1, <1>7, ReadsField
  <2> QED
    BY <1>2, <1>7, <2>1, <2>2, <2>3 DEF HeadRead, Reads
<1> QED
  BY <1>4, <1>5, <1>6, <1>7 DEF Headed

(***************************************************************************)
(* The line.                                                               *)
(***************************************************************************)
\* The words of the parser.
Named(space, pid, exit, sig, paren, sec, comma, norm, wanted, ready) ==
  /\ space = " " /\ pid = "(pid " /\ exit = "(exitcode " /\ sig = "(signal " /\ paren = ") "
  /\ sec = " seconds" /\ comma = ", " /\ norm = "normally " /\ wanted = "want "
  /\ ready = "ready "

\* What becomes of a line whose fields are read.
LEMMA StatusRead ==
  ASSUME NEW space, NEW pid, NEW exit, NEW sig, NEW paren, NEW sec, NEW comma, NEW norm, NEW wanted,
         NEW ready, Named(space, pid, exit, sig, paren, sec, comma, norm, wanted, ready),
         NEW buffer, NEW code, NEW v, NEW tail, NEW string, NEW w, NEW r, NEW state,
         HeadRead(buffer, pid, exit, sig, paren, sec, code, v, tail),
         LStrip(tail) = string,
         TailRead(string, norm, wanted, ready, comma, sec, w, r)
  PROVE  /\ Status(state, buffer).parsed
         /\ Status(state, buffer).process = Process(w)
         /\ Status(state, buffer).exitcode = code
         /\ r # None /\ state = "up" => Status(state, buffer).state = "ready"
         /\ ~(r # None /\ state = "up") =>
              Status(state, buffer).state = state /\ Status(state, buffer).seconds = <<v>>
<1>1. Pid(buffer) = Parse(buffer, pid, paren)
  BY DEF Pid, Named
<1>2. ExitCode(buffer) = Parse(Pid(buffer).rest, exit, paren)
  BY DEF ExitCode, Named
<1>3. Signal(buffer) = Parse(ExitCode(buffer).rest, sig, paren)
  BY DEF Signal, Named
<1>4. Seconds(buffer) = UpTo(Signal(buffer).rest, sec)
  BY DEF Seconds, Named
<1>5. ExitCode(buffer).result = code /\ Seconds(buffer).result = <<v>> /\ Seconds(buffer).rest = tail
  BY <1>1, <1>2, <1>3, <1>4 DEF HeadRead, Reads
<1>6. Normally(buffer) = Parse(LStrip(Seconds(buffer).rest), norm, comma)
  BY DEF Normally, Named
<1>7. Wanted(buffer) = Parse(Normally(buffer).rest, wanted, comma)
  BY DEF Wanted, Named
<1>8. ReadyFor(buffer) = Parse(Wanted(buffer).rest, ready, sec)
  BY DEF ReadyFor, Named
<1>9. Wanted(buffer).result = w /\ ReadyFor(buffer).result = r /\ ReadyFor(buffer).rest = <<>>
  BY <1>5, <1>6, <1>7, <1>8 DEF TailRead, Reads
<1> QED
  BY <1>5, <1>9 DEF Status

\* The fields behind the seconds, each with its comma in front.
Shown(field, comma, start, v) == field = <<>> \/ field = <<comma, start, v>>

\* One of them in front of others.
LEMMA ShownInFront ==
  ASSUME NEW comma \in Atoms, NEW start \in Atoms, NEW v \in Atoms, NEW field,
         Shown(field, comma, start, v), NEW rest \in Text, NEW led \in Text,
         Led(led, comma, rest)
  PROVE  /\ field \o led \in Text
         /\ \E string \in Text :
              /\ Led(field \o led, comma, string)
              /\ IF field = <<>> THEN string = rest ELSE Comes(string, start, v, comma, rest)
<1>0. <<comma, start, v>> \in Seq(Atoms) /\ <<comma, start, v>> # <<>>
  OBVIOUS
<1>1. CASE field = <<>>
  <2>1. <<>> \o led = led
    BY DEF Text
  <2> QED
    BY <1>1, <2>1
<1>2. CASE field = <<comma, start, v>>
  <2>1. PICK string : string = <<comma, start, v>> \o led
    OBVIOUS
  <2>2. string \in Text
    BY <1>0, <2>1, ConcatProperties DEF Text
  <2>3. \E more \in Text : Comes(more, start, v, comma, rest) /\ Led(string, comma, more)
    BY <2>1, OneMore
  <2> QED
    BY <1>0, <1>2, <2>1, <2>2, <2>3
<1> QED
  BY <1>1, <1>2 DEF Shown

\* All of them, as they stand in the line.
LEMMA ReadsShown ==
  ASSUME NEW norm \in Atoms, NEW nv \in Atoms, NEW wanted \in Atoms, NEW wv \in Atoms,
         NEW ready \in Atoms, NEW one \in Atoms, NEW sec \in Atoms, NEW comma \in Atoms,
         one # sec, nv # comma, wv # comma, norm # wanted, norm # ready, wanted # ready,
         NEW nf, Shown(nf, comma, norm, nv), NEW wf, Shown(wf, comma, wanted, wv),
         NEW rf, rf = <<>> \/ rf = <<comma, ready, one, sec>>
  PROVE  /\ nf \o (wf \o rf) \in Text
         /\ \E string \in Text :
              /\ Led(nf \o (wf \o rf), comma, string)
              /\ TailRead(string, norm, wanted, ready, comma, sec,
                          IF wf = <<>> THEN None ELSE <<wv>>,
                          IF rf = <<>> THEN None ELSE <<one>>)
<1>1. PICK r : r = IF rf = <<>> THEN None ELSE <<one>>
  OBVIOUS
<1>2. PICK w : w = IF wf = <<>> THEN None ELSE <<wv>>
  OBVIOUS
<1>3. /\ <<ready, one, sec>> \in Seq(Atoms) /\ <<ready, one, sec>> # <<>>
      /\ <<comma, ready, one, sec>> \in Seq(Atoms) /\ <<comma, ready, one, sec>> # <<>>
      /\ <<>> \in Seq(Atoms)
      /\ <<comma, ready, one, sec>> = <<comma>> \o <<ready, one, sec>>
  OBVIOUS
<1>4. rf \in Text
  BY <1>3 DEF Text
<1>5. PICK last \in Text : /\ Led(rf, comma, last)
                           /\ \/ last = <<>> /\ r = None
                              \/ last = <<ready, one, sec>> /\ r = <<one>>
  <2>1. CASE rf = <<>>
    BY <1>1, <1>3, <2>1 DEF Led, Text
  <2>2. CASE rf = <<comma, ready, one, sec>>
    BY <1>1, <1>3, <2>2 DEF Led, Text
  <2> QED
    BY <2>1, <2>2
<1>6. PICK led : led = wf \o rf
  OBVIOUS
<1>7. led \in Text
  BY <1>4, <1>5, <1>6, ShownInFront
<1>8. PICK middle \in Text : /\ Led(led, comma, middle)
                             /\ IF wf = <<>> THEN middle = last
                                ELSE Comes(middle, wanted, wv, comma, last)
  BY <1>4, <1>5, <1>6, ShownInFront
<1>9. Optional(middle, wanted, wv, comma, last, w)
  BY <1>2, <1>8 DEF Optional
<1>10. nf \o led \in Text
  BY <1>7, <1>8, ShownInFront
<1>11. PICK string \in Text : /\ Led(nf \o led, comma, string)
                              /\ IF nf = <<>> THEN string = middle
                                 ELSE Comes(string, norm, nv, comma, middle)
  BY <1>7, <1>8, ShownInFront
<1>12. string = middle \/ Comes(string, norm, nv, comma, middle)
  BY <1>11
<1>13. TailRead(string, norm, wanted, ready, comma, sec, w, r)
  BY <1>5, <1>9, <1>12, ReadsTail
<1> QED
  BY <1>1, <1>2, <1>6, <1>10, <1>11, <1>13

\* What stands in the fields, and the words are told apart.
Values == {"up", "down", "up\\0", "0", "1", "SIGTERM"}
Apart(value, space, pid, exit, sig, paren, sec, comma) ==
  /\ value \in Atoms /\ value # space /\ value # pid /\ value # exit /\ value # sig
  /\ value # paren /\ value # sec /\ value # comma

\* No two words of the parser are the same.
LEMMA NamesDiffer ==
  ASSUME NEW space, NEW pid, NEW exit, NEW sig, NEW paren, NEW sec, NEW comma, NEW norm,
         NEW wanted, NEW ready,
         Named(space, pid, exit, sig, paren, sec, comma, norm, wanted, ready)
  PROVE  /\ space \in Atoms /\ pid \in Atoms /\ exit \in Atoms /\ sig \in Atoms
         /\ paren \in Atoms /\ sec \in Atoms /\ comma \in Atoms /\ norm \in Atoms
         /\ wanted \in Atoms /\ ready \in Atoms
         /\ pid # exit /\ pid # sig /\ exit # sig
         /\ norm # wanted /\ norm # ready /\ wanted # ready
BY DEF Named, Atoms

\* No value is one of them.
LEMMA ValuesDiffer ==
  ASSUME NEW space, NEW pid, NEW exit, NEW sig, NEW paren, NEW sec, NEW comma, NEW norm,
         NEW wanted, NEW ready,
         Named(space, pid, exit, sig, paren, sec, comma, norm, wanted, ready),
         NEW value \in Values
  PROVE  Apart(value, space, pid, exit, sig, paren, sec, comma)
BY DEF Named, Atoms, Values, Apart

\* A whole line.
IsState(state) == state \in {"up", "down"}
StatusIs(status, state, code, v, w, r) ==
  /\ status.parsed /\ status.process = Process(w) /\ status.exitcode = code
  /\ r # None /\ state = "up" => status.state = "ready"
  /\ ~(r # None /\ state = "up") => status.state = state /\ status.seconds = <<v>>

LineIs(line, space, pid, exit, sig, paren, sec, comma, norm, wanted, ready,
       state, n, v, nv, wv, one, nf, wf, rf, code) ==
  /\ Named(space, pid, exit, sig, paren, sec, comma, norm, wanted, ready)
  /\ state \in Values /\ IsState(state) /\ n \in Values /\ v \in Values
  /\ nv \in Values /\ wv \in Values /\ one \in Values
  /\ Shown(nf, comma, norm, nv) /\ Shown(wf, comma, wanted, wv)
  /\ rf = <<>> \/ rf = <<comma, ready, one, sec>>
  /\ \E body, buffer :
       /\ Puts2(body, v, sec, nf \o (wf \o rf))
       /\ Headed(buffer, pid, exit, sig, n, paren, body, code)
       /\ Puts2(line, state, space, buffer)

\* svstat_parse() finds in a line what was put into it.
LEMMA LineRead ==
  ASSUME NEW space, NEW pid, NEW exit, NEW sig, NEW paren, NEW sec, NEW comma, NEW norm,
         NEW wanted, NEW ready, NEW state, NEW n, NEW v, NEW nv, NEW wv, NEW one,
         NEW nf, NEW wf, NEW rf, NEW code, NEW line,
         LineIs(line, space, pid, exit, sig, paren, sec, comma, norm, wanted, ready,
                state, n, v, nv, wv, one, nf, wf, rf, code)
  PROVE  StatusIs(SvStatParse(line), state, code, v,
                  IF wf = <<>> THEN None ELSE <<wv>>, IF rf = <<>> THEN None ELSE <<one>>)
<1>1. /\ Named(space, pid, exit, sig, paren, sec, comma, norm, wanted, ready)
      /\ state \in Values /\ IsState(state) /\ n \in Values /\ v \in Values
      /\ nv \in Values /\ wv \in Values /\ one \in Values
      /\ Shown(nf, comma, norm, nv) /\ Shown(wf, comma, wanted, wv)
      /\ rf = <<>> \/ rf = <<comma, ready, one, sec>>
  BY DEF LineIs
<1>2. PICK body, buffer : /\ Puts2(body, v, sec, nf \o (wf \o rf))
                          /\ Headed(buffer, pid, exit, sig, n, paren, body, code)
                          /\ Puts2(line, state, space, buffer)
  BY DEF LineIs
<1>3. /\ space \in Atoms /\ pid \in Atoms /\ exit \in Atoms /\ sig \in Atoms
      /\ paren \in Atoms /\ sec \in Atoms /\ comma \in Atoms /\ norm \in Atoms
      /\ wanted \in Atoms /\ ready \in Atoms
      /\ pid # exit /\ pid # sig /\ exit # sig
      /\ norm # wanted /\ norm # ready /\ wanted # ready
  BY <1>1, NamesDiffer
<1>4. /\ state \in Atoms /\ state # space /\ n \in Atoms /\ n # paren
      /\ v \in Atoms /\ v # pid /\ v # exit /\ v # sig /\ v # sec
      /\ nv \in Atoms /\ nv # comma /\ wv \in Atoms /\ wv # comma /\ one \in Atoms /\ one # sec
  <2>1. \A value \in Values : Apart(value, space, pid, exit, sig, paren, sec, comma)
    BY <1>1, ValuesDiffer
  <2> QED
    BY <1>1, <2>1 DEF Apart
<1>5. PICK tail : tail = nf \o (wf \o rf)
  OBVIOUS
<1>6. PICK r : r = IF rf = <<>> THEN None ELSE <<one>>
  OBVIOUS
<1>7. PICK w : w = IF wf = <<>> THEN None ELSE <<wv>>
  OBVIOUS
<1>8. /\ nf \o (wf \o rf) \in Text
      /\ \E string \in Text :
           /\ Led(nf \o (wf \o rf), comma, string)
           /\ TailRead(string, norm, wanted, ready, comma, sec,
                       IF wf = <<>> THEN None ELSE <<wv>>,
                       IF rf = <<>> THEN None ELSE <<one>>)
  BY <1>1, <1>3, <1>4, ReadsShown
<1>9. PICK string \in Text : /\ Led(tail, comma, string)
                             /\ TailRead(string, norm, wanted, ready, comma, sec, w, r)
  BY <1>5, <1>6, <1>7, <1>8
<1>10. LStrip(tail) = string
  <2>1. comma = ", "
    BY <1>1 DEF Named
  <2> QED
    BY <1>9, <2>1, Stripped
<1>11. tail \in Text /\ Puts2(body, v, sec, tail)
  BY <1>5, <1>8, <1>2
<1>12. HeadRead(buffer, pid, exit, sig, paren, sec, code, v, tail)
  BY <1>3, <1>4, <1>11, <1>2, ReadsHead
<1>13. body \in Text
  BY <1>3, <1>4, <1>11, PutsText
<1>14. buffer \in Text
  BY <1>2, <1>3, <1>4, <1>13, PutsText DEF Headed
<1>15. Reads(UpTo(line, space), <<state>>, buffer)
  BY <1>3, <1>4, <1>14, <1>2, ReadsValue
<1>16. line[1] = state
  <2>1. <<state, space>> \in Seq(Atoms) /\ Len(<<state, space>>) = 2 /\ Len(buffer) \in Nat
    BY <1>3, <1>4, <1>14 DEF Text
  <2> QED
    BY <1>14, <1>2, <2>1, ConcatProperties DEF Text, Puts2
<1>17. SvStatParse(line) = Status(state, buffer)
  <2>1. UpTo(line, " ").rest = buffer
    BY <1>1, <1>15 DEF Reads, Named
  <2> QED
    BY <1>1, <1>16, <2>1 DEF SvStatParse, IsState
<1>18. /\ Status(state, buffer).parsed
       /\ Status(state, buffer).process = Process(w)
       /\ Status(state, buffer).exitcode = code
       /\ r # None /\ state = "up" => Status(state, buffer).state = "ready"
       /\ ~(r # None /\ state = "up") =>
            Status(state, buffer).state = state /\ Status(state, buffer).seconds = <<v>>
  BY <1>1, <1>9, <1>10, <1>12, StatusRead
<1> QED
  BY <1>6, <1>7, <1>17, <1>18 DEF StatusIs

\* The line of a service that is up.
LEMMA UpRead ==
  ASSUME NEW s \in Services, NEW line \in LinesUp(s)
  PROVE  \E wf, rf, v :
           /\ StatusIs(SvStatParse(line), "up", None, v,
                       IF wf = <<>> THEN None ELSE <<"down">>, IF rf = <<>> THEN None ELSE <<"1">>)
           /\ (wf # <<>>) = (want[s] = "down") /\ (rf # <<>>) = notified[s]
<1>1. PICK space, pid, exit, sig, paren, sec, comma, norm, wanted, ready :
        Named(space, pid, exit, sig, paren, sec, comma, norm, wanted, ready)
  BY DEF Named
<1>2. PICK state, down, one : state = "up" /\ down = "down" /\ one = "1"
  OBVIOUS
<1>3. PICK v \in {"0", "1"}, nf \in NotNormally,
           rf \in {r \in Ready : (r # <<>>) = notified[s]} : line = LineUp(s, v, nf, rf)
  BY DEF LinesUp
<1>4. PICK wf : wf = IF want[s] = "down" THEN Field("want ", "down") ELSE <<>>
  OBVIOUS
<1>5. state \in Values /\ IsState(state) /\ down \in Values /\ one \in Values /\ v \in Values
  BY <1>2 DEF Values, IsState
<1>6. Shown(nf, comma, norm, down)
  BY <1>1, <1>2, <1>3 DEF Shown, Field, Named, NotNormally
<1>7. Shown(wf, comma, wanted, down) /\ (wf # <<>>) = (want[s] = "down")
  BY <1>1, <1>2, <1>4 DEF Shown, Field, Named
<1>8. (rf = <<>> \/ rf = <<comma, ready, one, sec>>) /\ (rf # <<>>) = notified[s]
  BY <1>1, <1>2, <1>3 DEF Ready, Named
<1>9. PICK body : Puts2(body, v, sec, nf \o (wf \o rf))
  BY DEF Puts2
<1>10. PICK buffer : Puts3(buffer, pid, one, paren, body)
  BY DEF Puts3
<1>11. Headed(buffer, pid, exit, sig, one, paren, body, None)
  BY <1>10 DEF Headed
<1>12. line = <<state, space>> \o (<<pid, one, paren>> \o (<<v, sec>> \o (nf \o (wf \o rf))))
  BY <1>1, <1>2, <1>3, <1>4 DEF Named, LineUp
<1>13. Puts2(line, state, space, buffer)
  BY <1>9, <1>10, <1>12 DEF Puts2, Puts3
<1>14. PICK none : none = None
  OBVIOUS
<1>15. LineIs(line, space, pid, exit, sig, paren, sec, comma, norm, wanted, ready,
              state, one, v, down, down, one, nf, wf, rf, none)
  BY <1>1, <1>5, <1>6, <1>7, <1>8, <1>9, <1>11, <1>13, <1>14 DEF LineIs
<1>16. StatusIs(SvStatParse(line), state, none, v,
                IF wf = <<>> THEN None ELSE <<down>>, IF rf = <<>> THEN None ELSE <<one>>)
  BY <1>15, LineRead
<1> QED
  BY <1>2, <1>7, <1>8, <1>14, <1>16

\* How the last run ended.
HowIs(how, exit, sig, paren, n, code) ==
  \/ how = <<>> /\ code = None
  \/ how = <<exit, n, paren>> /\ code = <<n>>
  \/ how = <<sig, n, paren>> /\ code = None

\* Only a clean end reads as exit code 0 and 0 seconds ago.
LEMMA EndingRead ==
  ASSUME NEW s, clean[s] \in BOOLEAN, NEW end \in Endings(s),
         NEW exit, NEW sig, NEW paren,
         \A n : Exited(n) = <<exit, n, paren>>, Terminated = <<sig, "SIGTERM", paren>>
  PROVE  \E n, code :
           /\ n \in Values /\ HowIs(end.how, exit, sig, paren, n, code) /\ end.ago \in Values
           /\ (code = <<"0">> /\ end.ago = "0") <=> clean[s]
<1>1. "0" \in Values /\ "1" \in Values /\ "SIGTERM" \in Values
  BY DEF Values
<1>2. None # <<"0">> /\ <<"1">> # <<"0">> /\ "1" # "0"
  BY DEF None
<1>3. CASE clean[s]
  <2>1. end.how = Exited("0") /\ end.ago = "0"
    BY <1>3 DEF Endings
  <2> QED
    BY <1>1, <1>3, <2>1 DEF HowIs
<1>4. CASE ~clean[s]
  <2>1. \/ end.how = <<>> /\ end.ago \in {"0", "1"}
        \/ end.how = Exited("0") /\ end.ago = "1"
        \/ end.how = Exited("1") /\ end.ago = "0"
        \/ end.how = Terminated /\ end.ago = "0"
    BY <1>4 DEF Endings
  <2>2. CASE end.how = <<>> /\ end.ago \in {"0", "1"}
    BY <1>1, <1>2, <1>4, <2>2 DEF HowIs
  <2>3. CASE end.how = Exited("0") /\ end.ago = "1"
    BY <1>1, <1>2, <1>4, <2>3 DEF HowIs
  <2>4. CASE end.how = Exited("1") /\ end.ago = "0"
    BY <1>1, <1>2, <1>4, <2>4 DEF HowIs
  <2>5. CASE end.how = Terminated /\ end.ago = "0"
    BY <1>1, <1>2, <1>4, <2>5 DEF HowIs
  <2> QED
    BY <2>1, <2>2, <2>3, <2>4, <2>5
<1> QED
  BY <1>3, <1>4

\* What stands from the seconds on is text.
LEMMA BodyText ==
  ASSUME NEW space, NEW pid, NEW exit, NEW sig, NEW paren, NEW sec, NEW comma, NEW norm,
         NEW wanted, NEW ready,
         Named(space, pid, exit, sig, paren, sec, comma, norm, wanted, ready),
         NEW v \in Values, NEW nv \in Values, NEW wv \in Values, NEW one \in Values,
         NEW nf, Shown(nf, comma, norm, nv), NEW wf, Shown(wf, comma, wanted, wv),
         NEW rf, rf = <<>> \/ rf = <<comma, ready, one, sec>>,
         NEW body, Puts2(body, v, sec, nf \o (wf \o rf))
  PROVE  body \in Text
<1>1. /\ sec \in Atoms /\ comma \in Atoms /\ norm \in Atoms /\ wanted \in Atoms /\ ready \in Atoms
      /\ norm # wanted /\ norm # ready /\ wanted # ready
  BY NamesDiffer
<1>2. /\ v \in Atoms /\ nv \in Atoms /\ wv \in Atoms /\ one \in Atoms
      /\ one # sec /\ nv # comma /\ wv # comma
  BY ValuesDiffer DEF Apart
<1>3. /\ <<comma, norm, nv>> \in Text /\ <<comma, wanted, wv>> \in Text
      /\ <<comma, ready, one, sec>> \in Text /\ <<>> \in Text
  BY <1>1, <1>2 DEF Text
<1>4. nf \in Text /\ wf \in Text /\ rf \in Text
  BY <1>3 DEF Shown
<1>5. nf \o (wf \o rf) \in Text
  BY <1>4, ConcatProperties DEF Text
<1> QED
  BY <1>1, <1>2, <1>5, PutsText

\* What the line of a service that is down says.
DownIs(s, line, wf, rf, v, code, wv) ==
  /\ wv \in {"up", "up\\0"}
  /\ StatusIs(SvStatParse(line), "down", code, v,
              IF wf = <<>> THEN None ELSE <<wv>>, IF rf = <<>> THEN None ELSE <<"1">>)
  /\ (wf # <<>>) = (want[s] = "up")
  /\ (code = <<"0">> /\ v = "0") <=> clean[s]

\* It is read as such, with all that its fields say.
LEMMA DownRead ==
  ASSUME NEW s \in Services, clean[s] \in BOOLEAN, NEW line \in LinesDown(s)
  PROVE  \E wf, rf, v, code, wv : DownIs(s, line, wf, rf, v, code, wv)
<1>1. PICK space, pid, exit, sig, paren, sec, comma, norm, wanted, ready :
        Named(space, pid, exit, sig, paren, sec, comma, norm, wanted, ready)
  BY DEF Named
<1>2. PICK state, up, one : state = "down" /\ up = "up" /\ one = "1"
  OBVIOUS
<1>3. PICK end \in Endings(s), wv \in {"up", "up\\0"}, rf \in Ready :
        line = LineDown(s, end, wv, rf)
  BY DEF LinesDown
<1>4. PICK wf : wf = IF want[s] = "up" THEN Field("want ", wv) ELSE <<>>
  OBVIOUS
<1>5. state \in Values /\ IsState(state) /\ up \in Values /\ one \in Values /\ wv \in Values
  BY <1>2, <1>3 DEF Values, IsState
<1>6. PICK nf : nf = Field("normally ", "up")
  OBVIOUS
<1>7. Shown(nf, comma, norm, up)
  BY <1>1, <1>2, <1>6 DEF Shown, Field, Named
<1>8. Shown(wf, comma, wanted, wv) /\ (wf # <<>>) = (want[s] = "up")
  BY <1>1, <1>2, <1>4 DEF Shown, Field, Named
<1>9. rf = <<>> \/ rf = <<comma, ready, one, sec>>
  BY <1>1, <1>2, <1>3 DEF Ready, Named
<1>10. (\A n : Exited(n) = <<exit, n, paren>>) /\ Terminated = <<sig, "SIGTERM", paren>>
  BY <1>1 DEF Named, Exited, Terminated
<1>11. PICK n, code :
         /\ n \in Values /\ HowIs(end.how, exit, sig, paren, n, code) /\ end.ago \in Values
         /\ (code = <<"0">> /\ end.ago = "0") <=> clean[s]
  BY <1>3, <1>10, EndingRead
<1>12. PICK v : v = end.ago
  OBVIOUS
<1>13. PICK body : Puts2(body, v, sec, nf \o (wf \o rf))
  BY DEF Puts2
<1>14. PICK buffer : buffer = end.how \o body
  OBVIOUS
<1>15. Headed(buffer, pid, exit, sig, n, paren, body, code)
  <2>1. body \in Text
    <3>1. v \in Values
      BY <1>11, <1>12
    <3> QED
      BY <1>1, <1>5, <1>7, <1>8, <1>9, <1>13, <3>1, BodyText
  <2>2. CASE end.how = <<>> /\ code = None
    <3>1. <<>> \o body = body
      BY <2>1 DEF Text
    <3> QED
      BY <1>14, <2>2, <3>1 DEF Headed
  <2>3. CASE end.how = <<exit, n, paren>> /\ code = <<n>>
    BY <1>14, <2>3 DEF Headed, Puts3
  <2>4. CASE end.how = <<sig, n, paren>> /\ code = None
    BY <1>14, <2>4 DEF Headed, Puts3
  <2> QED
    BY <1>11, <2>2, <2>3, <2>4 DEF HowIs
<1>16. line = <<state, space>> \o (end.how \o (<<v, sec>> \o (nf \o (wf \o rf))))
  BY <1>1, <1>2, <1>3, <1>4, <1>6, <1>12 DEF Named, LineDown
<1>17. Puts2(line, state, space, buffer)
  BY <1>13, <1>14, <1>16 DEF Puts2
<1>18. LineIs(line, space, pid, exit, sig, paren, sec, comma, norm, wanted, ready,
              state, n, v, up, wv, one, nf, wf, rf, code)
  BY <1>1, <1>5, <1>7, <1>8, <1>9, <1>11, <1>12, <1>13, <1>15, <1>17 DEF LineIs
<1>19. StatusIs(SvStatParse(line), state, code, v,
                IF wf = <<>> THEN None ELSE <<wv>>, IF rf = <<>> THEN None ELSE <<one>>)
  BY <1>18, LineRead
<1>20. StatusIs(SvStatParse(line), "down", code, v,
                IF wf = <<>> THEN None ELSE <<wv>>, IF rf = <<>> THEN None ELSE <<"1">>)
  BY <1>2, <1>19
<1>21. (code = <<"0">> /\ v = "0") <=> clean[s]
  BY <1>11, <1>12
<1> QED
  <2>1. DownIs(s, line, wf, rf, v, code, wv)
    BY <1>3, <1>8, <1>20, <1>21 DEF DownIs
  <2> QED
    BY <2>1

(***************************************************************************)
(* Service.svstat()                                                        *)
(***************************************************************************)
\* pgctl makes of a line what SvState says.
Agrees(s, line) ==
  /\ SvStatOf(s, line).parsed
  /\ SvStatOf(s, line).state = IF SvState(s) = "unsupervised" THEN UNSUPERVISED ELSE SvState(s)

\* The line of a service that is not supervised.
LEMMA NoneAgrees ==
  ASSUME NEW s, ~SvOk(s), NEW line \in Lines(s)
  PROVE  Agrees(s, line)
<1>1. /\ UNSUPERVISED \notin {"up", "down", CHDIR, FATAL}
      /\ FATAL \notin {"up", "down", CHDIR}
  BY DEF UNSUPERVISED, FATAL, CHDIR
<1>2. \/ line[1] = UNSUPERVISED
      \/ line[1] = FATAL /\ line[Len(line)] \in NeverStarted
  <2>1. CASE line = <<UNSUPERVISED>>
    BY <2>1
  <2>2. ASSUME NEW why \in NeverStarted, line = <<FATAL, "name", why>>
        PROVE  line[1] = FATAL /\ line[Len(line)] \in NeverStarted
    BY <2>2
  <2> QED
    BY <2>1, <2>2 DEF Lines
<1>3. SvStatParse(line) = [state |-> UNSUPERVISED, exitcode |-> None, seconds |-> None,
                           process |-> "None", parsed |-> TRUE]
  <2>1. Otherwise(line) = UNSUPERVISED
    BY <1>1, <1>2 DEF Otherwise
  <2> QED
    BY <1>1, <1>2, <2>1 DEF SvStatParse
<1>4. SvStatOf(s, line) = SvStatParse(line)
  BY <1>1, <1>3 DEF SvStatOf
<1>5. SvState(s) = "unsupervised"
  BY DEF SvState, SvStat
<1> QED
  BY <1>3, <1>4, <1>5 DEF Agrees

\* The line of a service that is up.
LEMMA UpAgrees ==
  ASSUME NEW s \in Services, PgTypeOK, SvOk(s), "run" \in procs[s], NEW line \in Lines(s)
  PROVE  Agrees(s, line)
<1>1. line \in LinesUp(s)
  BY DEF Lines
<1>2. PICK wf, rf, v :
        /\ StatusIs(SvStatParse(line), "up", None, v,
                    IF wf = <<>> THEN None ELSE <<"down">>, IF rf = <<>> THEN None ELSE <<"1">>)
        /\ (wf # <<>>) = (want[s] = "down") /\ (rf # <<>>) = notified[s]
  BY <1>1, UpRead
<1>3. want[s] \in {"up", "down"} /\ notified[s] \in BOOLEAN
  BY DEF PgTypeOK
<1>4. Process(None) = "None" /\ Process(<<"down">>) = "stopping" /\ <<"1">> # None
  BY DEF Process, None
<1>5. PICK status : status = SvStatParse(line)
  OBVIOUS
<1>6. /\ status.parsed
      /\ want[s] = "up" => status.process = "None"
      /\ want[s] = "down" => status.process = "stopping"
      /\ notified[s] => status.state = "ready"
      /\ ~notified[s] => status.state = "up"
  BY <1>2, <1>3, <1>4, <1>5 DEF StatusIs
<1>7. SvStatOf(s, line).parsed /\ SvStatOf(s, line).state = SvState(s) /\ SvState(s) # "unsupervised"
  BY <1>3, <1>5, <1>6 DEF SvStatOf, SvState, SvStat
<1> QED
  BY <1>7 DEF Agrees

\* The line of a service that is down.
LEMMA DownAgrees ==
  ASSUME NEW s \in Services, PgTypeOK, SvOk(s), "run" \notin procs[s], NEW line \in Lines(s)
  PROVE  Agrees(s, line)
<1>1. line \in LinesDown(s)
  BY DEF Lines
<1>2. want[s] \in {"up", "down"} /\ clean[s] \in BOOLEAN
  BY DEF PgTypeOK
<1>3. PICK wf, rf, v, code, wv : DownIs(s, line, wf, rf, v, code, wv)
  BY <1>1, <1>2, DownRead
<1>4. Process(None) = "None" /\ \A word \in {"up", "up\\0"} : Process(<<word>>) = "starting"
  BY DEF Process, None
<1>5. PICK status : status = SvStatParse(line)
  OBVIOUS
<1>6. /\ status.parsed /\ status.state = "down" /\ status.exitcode = code /\ status.seconds = <<v>>
      /\ (code = <<"0">> /\ v = "0") <=> clean[s]
      /\ want[s] = "up" => status.process = "starting"
      /\ want[s] = "down" => status.process = "None"
  BY <1>2, <1>3, <1>4, <1>5 DEF StatusIs, DownIs
<1>7. (<<v>> = <<"0">>) <=> (v = "0")
  OBVIOUS
<1>8. SvStatOf(s, line).parsed /\ SvStatOf(s, line).state = SvState(s) /\ SvState(s) # "unsupervised"
  BY <1>2, <1>5, <1>6, <1>7 DEF SvStatOf, SvState, SvStat
<1> QED
  BY <1>8 DEF Agrees

\* Any line that s6-svstat may print.
LEMMA Readable == PgTypeOK => StatusIsRead
<1> SUFFICES ASSUME PgTypeOK, NEW s \in Services, NEW line \in Lines(s)
             PROVE  Agrees(s, line)
  BY DEF StatusIsRead, Agrees
<1> QED
  BY NoneAgrees, UpAgrees, DownAgrees

\* In every state of pgctl and its services, whichever fields s6-svstat prints,
\* svstat_parse() consumes the line and Service.svstat() is the state that the
\* commands are modelled to see.
THEOREM StatusRight == Spec => []StatusIsRead
<1>1. TypeOK => StatusIsRead
  BY Readable DEF TypeOK
<1> QED
  BY <1>1, Typing, PTL
=============================================================================
