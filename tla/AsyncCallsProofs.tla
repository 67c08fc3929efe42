--------------------------- MODULE AsyncCallsProofs ---------------------------
(***************************************************************************)
(* For every timeout, url, answer of the peer and number of calls: every   *)
(* asynchronous call is accounted for, its callback tells a result of its  *)
(* own kind, and no socket is open without a call or a handle that can     *)
(* close it.  For every answer and every way of cutting it into pieces:    *)
(* the parser of a call stands where a parser that is fed all of it at     *)
(* once would stand.  The first holds whatever the parser makes of an      *)
(* answer; the second is a theorem about the parser, from its scanner up.  *)
(***************************************************************************)
EXTENDS AsyncCalls, SequenceTheorems, WellFoundedInduction, TLAPS

-------------------------------------------------------------------------------
(* The scanner.  What is proved of the parser is proved for every buffer:   *)
(* that it stays in the buffer, and that what it makes of a buffer it makes *)
(* of a longer one, too, unless it waits for more.  Induction over a buffer *)
(* takes the least offset at which a claim fails.                           *)

\* Every set of naturals that is not empty has a least one.
LEMMA LeastOfNats ==
    ASSUME NEW S, S \subseteq Nat, S # {}
    PROVE  \E x \in S : \A y \in S : x <= y
<1>. DEFINE Below == OpToRel(<, Nat)
<1>1. IsWellFoundedOn(Below, Nat)
  BY NatLessThanWellFounded, Zenon
<1>2. PICK x \in S : \A y \in S : <<y, x>> \notin Below
  <2>. HIDE DEF Below
  <2>. QED BY <1>1, WFMin
<1>3. \A y \in S : ~(y < x)
  BY <1>2 DEF OpToRel
<1>. QED BY <1>3

LEMMA LeastIsMin ==
    ASSUME NEW S, S \subseteq Nat, NEW x \in S, \A y \in S : x <= y
    PROVE  Min(S) = x
<1>1. \E z \in S : \A y \in S : z <= y
  OBVIOUS
<1>2. Min(S) \in S /\ \A y \in S : Min(S) <= y
  BY <1>1 DEF Min
<1>3. Min(S) <= x /\ x <= Min(S) /\ x \in Nat /\ Min(S) \in Nat
  BY <1>2
<1>. QED BY <1>3

LEMMA MinOfNats ==
    ASSUME NEW S, S \subseteq Nat, S # {}
    PROVE  Min(S) \in S /\ \A x \in S : Min(S) <= x
<1>1. PICK x \in S : \A y \in S : x <= y
  BY LeastOfNats
<1>2. Min(S) = x
  BY <1>1, LeastIsMin
<1>. QED BY <1>1, <1>2

\* What a buffer holds at an offset does not change when more is appended.
LEMMA Longer ==
    ASSUME NEW b \in Seq(STRING), NEW u \in Seq(STRING)
    PROVE  /\ b \o u \in Seq(STRING)
           /\ Len(b) \in Nat /\ Len(u) \in Nat
           /\ Len(b \o u) = Len(b) + Len(u)
           /\ \A i \in 1..Len(b) : (b \o u)[i] = b[i]
BY ConcatProperties, LenProperties

LEMMA LongerSubSeq ==
    ASSUME NEW b \in Seq(STRING), NEW u \in Seq(STRING),
           NEW i \in 1..Len(b) + 1, NEW j \in 0..Len(b)
    PROVE  SubSeq(b \o u, i, j) = SubSeq(b, i, j)
<1>. DEFINE long == b \o u
<1>1. /\ long \in Seq(STRING) /\ Len(b) \in Nat /\ Len(u) \in Nat
      /\ Len(long) = Len(b) + Len(u)
      /\ \A k \in 1..Len(b) : long[k] = b[k]
  BY Longer
<1>. HIDE DEF long
<1>2. \A k \in i..j : long[k] = b[k] /\ b[k] \in STRING /\ long[k] \in STRING
  BY <1>1
<1>3. /\ SubSeq(long, i, j) \in Seq(STRING) /\ SubSeq(b, i, j) \in Seq(STRING)
      /\ Len(SubSeq(long, i, j)) = Len(SubSeq(b, i, j))
      /\ Len(SubSeq(b, i, j)) = IF i <= j THEN j - i + 1 ELSE 0
      /\ \A k \in 1..j - i + 1 : /\ SubSeq(long, i, j)[k] = long[i + k - 1]
                                 /\ SubSeq(b, i, j)[k] = b[i + k - 1]
  BY <1>1, <1>2, SubSeqProperties
<1>4. \A k \in 1..Len(SubSeq(b, i, j)) : SubSeq(long, i, j)[k] = SubSeq(b, i, j)[k]
  BY <1>1, <1>2, <1>3
<1>. QED BY <1>3, <1>4, SeqEqual DEF long

LEMMA RunEndBound ==
    ASSUME NEW b \in Seq(STRING), NEW c \in 1..Len(b)
    PROVE  /\ RunEnd(b, c) \in c..Len(b)
           /\ RunEnd(b, c) = Len(b) \/ Class(b[RunEnd(b, c) + 1]) # Class(b[c])
           /\ \A j \in c..Len(b) : (j = Len(b) \/ Class(b[j + 1]) # Class(b[c])) => RunEnd(b, c) <= j
<1>. DEFINE Ends == {j \in c..Len(b) : j = Len(b) \/ Class(b[j + 1]) # Class(b[c])}
<1>1. Len(b) \in Nat
  BY LenProperties
<1>2. Ends \subseteq Nat /\ Len(b) \in Ends
  BY <1>1
<1>3. Min(Ends) \in Ends /\ \A x \in Ends : Min(Ends) <= x
  BY <1>2, MinOfNats
<1>4. RunEnd(b, c) = Min(Ends)
  BY DEF RunEnd
<1>. QED BY <1>1, <1>3, <1>4

LEMMA RunEndsEarly ==
    ASSUME NEW b \in Seq(STRING), NEW u \in Seq(STRING), NEW c \in 1..Len(b),
           RunEnd(b, c) < Len(b)
    PROVE  RunEnd(b \o u, c) = RunEnd(b, c)
<1>. DEFINE long == b \o u
<1>1. /\ long \in Seq(STRING)
      /\ Len(long) = Len(b) + Len(u)
      /\ Len(b) \in Nat /\ Len(u) \in Nat
      /\ \A i \in 1..Len(b) : long[i] = b[i]
  BY Longer
<1>. HIDE DEF long
<1>2. c \in 1..Len(long)
  BY <1>1
<1>. DEFINE e == RunEnd(b, c)
            f == RunEnd(long, c)
<1>3. /\ e \in c..Len(b) /\ e < Len(b) /\ Class(b[e + 1]) # Class(b[c])
      /\ \A j \in c..Len(b) : (j = Len(b) \/ Class(b[j + 1]) # Class(b[c])) => e <= j
  BY RunEndBound, <1>1
<1>4. /\ f \in c..Len(long)
      /\ f = Len(long) \/ Class(long[f + 1]) # Class(long[c])
      /\ \A j \in c..Len(long) : (j = Len(long) \/ Class(long[j + 1]) # Class(long[c])) => f <= j
  BY RunEndBound, <1>1, <1>2
<1>. HIDE DEF e, f
<1>5. f <= e
  <2>1. e \in c..Len(long) /\ e + 1 \in 1..Len(b) /\ c \in 1..Len(b)
    BY <1>1, <1>3
  <2>2. long[e + 1] = b[e + 1] /\ long[c] = b[c]
    BY <1>1, <2>1
  <2>. QED BY <1>3, <1>4, <2>1, <2>2
<1>6. e <= f
  <2>1. f \in c..Len(b) /\ f + 1 \in 1..Len(b) /\ c \in 1..Len(b) /\ f # Len(long)
    BY <1>1, <1>3, <1>4, <1>5
  <2>2. long[f + 1] = b[f + 1] /\ long[c] = b[c]
    BY <1>1, <2>1
  <2>. QED BY <1>3, <1>4, <2>1, <2>2
<1>7. e = f
  BY <1>1, <1>3, <1>4, <1>5, <1>6
<1>. QED BY <1>7 DEF e, f, long

\* Where a quoted string that begins at c may end.
QuotesIn(b, c) == {q \in 2..(Len(b) - c) : Class(b[c + q]) = "QUOTE"}

\* The scanner, class by class.
LEMMA ScannerCases ==
    ASSUME NEW b \in Seq(STRING), NEW c \in 0..Len(b)
    PROVE  LET t == scanner_get_token(b, c)
               k == Class(b[c + 1])
               none(status) == Tok(status, "NONE", b, c, 0)
           IN /\ c = Len(b) => t = none("INCOMPLETE")
              /\ c < Len(b) =>
                   /\ k \in {"IDENTIFIER", "WHITESPACE"} =>
                        t = IF RunEnd(b, c + 1) = Len(b) THEN none("INCOMPLETE")
                            ELSE Tok("OK", k, b, c, RunEnd(b, c + 1) - c)
                   /\ k = "CR" =>
                        t = IF c + 1 = Len(b) THEN none("INCOMPLETE")
                            ELSE IF b[c + 2] = LF THEN Tok("OK", "CRLF", b, c, 2)
                            ELSE Tok("OK", "CTRL", b, c, 1)
                   /\ k = "LF" => t = Tok("OK", "CRLF", b, c, 1)
                   /\ k = "QUOTE" =>
                        t = IF QuotesIn(b, c) = {} THEN none("INCOMPLETE")
                            ELSE Tok("OK", "QUOTEDSTRING", b, c, Min(QuotesIn(b, c)))
                   /\ k \in {"SEPARATOR", "CTRL"} => t = Tok("OK", k, b, c, 1)
                   /\ k \notin {"IDENTIFIER", "WHITESPACE", "CR", "LF", "QUOTE", "SEPARATOR", "CTRL"} =>
                        t = none("FAILURE")
<1>. DEFINE k == Class(b[c + 1])
<1>0. Len(b) \in Nat /\ (c < Len(b) => RunEnd(b, c + 1) \in (c + 1)..Len(b))
  BY LenProperties, RunEndBound
<1>1. CASE c = Len(b)
  BY <1>0, <1>1 DEF scanner_get_token
<1>2. CASE c < Len(b) /\ k \in {"IDENTIFIER", "WHITESPACE"}
  BY <1>0, <1>2 DEF scanner_get_token
<1>3. CASE c < Len(b) /\ k = "CR"
  BY <1>0, <1>3 DEF scanner_get_token
<1>4. CASE c < Len(b) /\ k = "LF"
  BY <1>0, <1>4 DEF scanner_get_token
<1>5. CASE c < Len(b) /\ k = "QUOTE"
  BY <1>0, <1>5 DEF scanner_get_token, QuotesIn
<1>6. CASE c < Len(b) /\ k \in {"SEPARATOR", "CTRL"}
  BY <1>0, <1>6 DEF scanner_get_token
<1>7. CASE /\ c < Len(b)
           /\ k \notin {"IDENTIFIER", "WHITESPACE", "CR", "LF", "QUOTE", "SEPARATOR", "CTRL"}
  BY <1>0, <1>7 DEF scanner_get_token
<1>. QED BY <1>0, <1>1, <1>2, <1>3, <1>4, <1>5, <1>6, <1>7

LEMMA QuotesBound ==
    ASSUME NEW b \in Seq(STRING), NEW c \in 0..Len(b), QuotesIn(b, c) # {}
    PROVE  /\ Min(QuotesIn(b, c)) \in QuotesIn(b, c)
           /\ Min(QuotesIn(b, c)) \in 2..(Len(b) - c)
           /\ \A q \in QuotesIn(b, c) : Min(QuotesIn(b, c)) <= q
<1>1. QuotesIn(b, c) \subseteq 2..(Len(b) - c) /\ Len(b) \in Nat
  BY LenProperties DEF QuotesIn
<1>2. QuotesIn(b, c) \subseteq Nat
  BY <1>1
<1>. QED BY <1>1, <1>2, MinOfNats

\* A token lies in the buffer, and one that is found is not empty.
LEMMA TokenSound ==
    ASSUME NEW b \in Seq(STRING), NEW c \in 0..Len(b)
    PROVE  LET t == scanner_get_token(b, c)
           IN /\ t.status \in {"OK", "INCOMPLETE", "FAILURE"}
              /\ t.next \in c..Len(b)
              /\ t.status = "OK" => t.next > c
<1>. DEFINE k == Class(b[c + 1])
<1>1. /\ Len(b) \in Nat
      /\ c < Len(b) => RunEnd(b, c + 1) \in (c + 1)..Len(b)
      /\ QuotesIn(b, c) # {} => Min(QuotesIn(b, c)) \in 2..(Len(b) - c)
  BY LenProperties, RunEndBound, QuotesBound
<1>2. CASE c = Len(b)
  BY <1>1, <1>2, ScannerCases DEF Tok
<1>3. CASE c < Len(b) /\ k \in {"IDENTIFIER", "WHITESPACE"}
  BY <1>1, <1>3, ScannerCases DEF Tok
<1>4. CASE c < Len(b) /\ k = "CR"
  BY <1>1, <1>4, ScannerCases DEF Tok
<1>5. CASE c < Len(b) /\ k \in {"LF", "SEPARATOR", "CTRL"}
  BY <1>1, <1>5, ScannerCases DEF Tok
<1>6. CASE c < Len(b) /\ k = "QUOTE"
  BY <1>1, <1>6, ScannerCases DEF Tok
<1>7. CASE /\ c < Len(b)
           /\ k \notin {"IDENTIFIER", "WHITESPACE", "CR", "LF", "QUOTE", "SEPARATOR", "CTRL"}
  BY <1>1, <1>7, ScannerCases DEF Tok
<1>. QED BY <1>1, <1>2, <1>3, <1>4, <1>5, <1>6, <1>7

\* The scanner does not revise what it made of a buffer when more bytes arrive.
LEMMA TokenStable ==
    ASSUME NEW b \in Seq(STRING), NEW u \in Seq(STRING), NEW c \in 0..Len(b),
           scanner_get_token(b, c).status # "INCOMPLETE"
    PROVE  scanner_get_token(b \o u, c) = scanner_get_token(b, c)
<1>. DEFINE long == b \o u
            k == Class(b[c + 1])
<1>1. /\ long \in Seq(STRING)
      /\ Len(long) = Len(b) + Len(u)
      /\ Len(b) \in Nat /\ Len(u) \in Nat
      /\ \A i \in 1..Len(b) : long[i] = b[i]
  BY Longer
<1>2. ASSUME NEW status, NEW type, NEW n \in 0..(Len(b) - c)
      PROVE  Tok(status, type, long, c, n) = Tok(status, type, b, c, n)
  <2>1. c + 1 \in 1..Len(b) + 1 /\ c + n \in 0..Len(b)
    BY <1>1
  <2>2. SubSeq(long, c + 1, c + n) = SubSeq(b, c + 1, c + n)
    BY <2>1, LongerSubSeq
  <2>. QED BY <2>2 DEF Tok
<1>3. c < Len(b)
  <2>1. c = Len(b) => scanner_get_token(b, c).status = "INCOMPLETE"
    BY ScannerCases DEF Tok
  <2>. QED BY <1>1, <2>1
<1>4. c \in 0..Len(long) /\ c < Len(long) /\ c + 1 \in 1..Len(b) /\ long[c + 1] = b[c + 1]
  BY <1>1, <1>3
<1>. HIDE DEF long
<1>5. CASE k \in {"IDENTIFIER", "WHITESPACE"}
  <2>1. RunEnd(b, c + 1) \in (c + 1)..Len(b)
    BY <1>4, RunEndBound
  <2>2. RunEnd(b, c + 1) # Len(b)
    BY <1>3, <1>5, ScannerCases DEF Tok
  <2>3. RunEnd(long, c + 1) = RunEnd(b, c + 1)
    BY <1>1, <1>4, <2>1, <2>2, RunEndsEarly DEF long
  <2>4. RunEnd(b, c + 1) - c \in 0..(Len(b) - c) /\ RunEnd(b, c + 1) # Len(long)
    BY <1>1, <1>3, <2>1, <2>2
  <2>5. scanner_get_token(b, c) = Tok("OK", k, b, c, RunEnd(b, c + 1) - c)
    BY <1>3, <1>5, <2>2, ScannerCases
  <2>6. scanner_get_token(long, c) = Tok("OK", k, long, c, RunEnd(b, c + 1) - c)
    BY <1>1, <1>4, <1>5, <2>3, <2>4, ScannerCases
  <2>. QED BY <1>2, <2>4, <2>5, <2>6 DEF long
<1>6. CASE k = "CR"
  <2>1. c + 1 # Len(b)
    BY <1>3, <1>6, ScannerCases DEF Tok
  <2>2. long[c + 2] = b[c + 2] /\ c + 1 # Len(long) /\ 1 \in 0..(Len(b) - c) /\ 2 \in 0..(Len(b) - c)
    BY <1>1, <1>3, <2>1
  <2>3. CASE b[c + 2] = LF
    <3>1. /\ scanner_get_token(b, c) = Tok("OK", "CRLF", b, c, 2)
          /\ scanner_get_token(long, c) = Tok("OK", "CRLF", long, c, 2)
      BY <1>1, <1>3, <1>4, <1>6, <2>1, <2>2, <2>3, ScannerCases
    <3>. QED BY <1>2, <2>2, <3>1 DEF long
  <2>4. CASE b[c + 2] # LF
    <3>1. /\ scanner_get_token(b, c) = Tok("OK", "CTRL", b, c, 1)
          /\ scanner_get_token(long, c) = Tok("OK", "CTRL", long, c, 1)
      BY <1>1, <1>3, <1>4, <1>6, <2>1, <2>2, <2>4, ScannerCases
    <3>. QED BY <1>2, <2>2, <3>1 DEF long
  <2>. QED BY <2>3, <2>4
<1>7. CASE k \in {"LF", "SEPARATOR", "CTRL"}
  <2>1. 1 \in 0..(Len(b) - c)
    BY <1>1, <1>3
  <2>2. CASE k = "LF"
    <3>1. /\ scanner_get_token(b, c) = Tok("OK", "CRLF", b, c, 1)
          /\ scanner_get_token(long, c) = Tok("OK", "CRLF", long, c, 1)
      BY <1>1, <1>3, <1>4, <2>2, ScannerCases
    <3>. QED BY <1>2, <2>1, <3>1 DEF long
  <2>3. CASE k \in {"SEPARATOR", "CTRL"}
    <3>1. /\ scanner_get_token(b, c) = Tok("OK", k, b, c, 1)
          /\ scanner_get_token(long, c) = Tok("OK", k, long, c, 1)
      BY <1>1, <1>3, <1>4, <2>3, ScannerCases
    <3>. QED BY <1>2, <2>1, <3>1 DEF long
  <2>. QED BY <1>7, <2>2, <2>3
<1>8. CASE k = "QUOTE"
  <2>1. QuotesIn(b, c) # {}
    BY <1>3, <1>8, ScannerCases DEF Tok
  <2>. DEFINE q == Min(QuotesIn(b, c))
  <2>2. q \in QuotesIn(b, c) /\ q \in 2..(Len(b) - c) /\ \A x \in QuotesIn(b, c) : q <= x
    BY <2>1, QuotesBound
  <2>. HIDE DEF q
  <2>3. q \in QuotesIn(long, c)
    <3>1. long[c + q] = b[c + q] /\ q \in 2..(Len(long) - c)
      BY <1>1, <2>2
    <3>. QED BY <2>2, <3>1 DEF QuotesIn
  <2>4. ASSUME NEW x \in QuotesIn(long, c)  PROVE  q <= x
    <3>0. x \in 2..(Len(long) - c) /\ Class(long[c + x]) = "QUOTE"
      BY <2>4 DEF QuotesIn
    <3>1. CASE x <= Len(b) - c
      <4>1. long[c + x] = b[c + x] /\ x \in 2..(Len(b) - c)
        BY <1>1, <3>0, <3>1
      <4>2. x \in QuotesIn(b, c)
        BY <3>0, <4>1 DEF QuotesIn
      <4>. QED BY <2>2, <4>2
    <3>2. CASE x > Len(b) - c
      BY <1>1, <2>2, <3>0, <3>2
    <3>. QED BY <1>1, <3>0, <3>1, <3>2
  <2>5. Min(QuotesIn(long, c)) = q
    <3>1. QuotesIn(long, c) \subseteq Nat
      BY <1>1 DEF QuotesIn
    <3>. QED BY <2>3, <2>4, <3>1, LeastIsMin
  <2>6. scanner_get_token(b, c) = Tok("OK", "QUOTEDSTRING", b, c, q)
    BY <1>3, <1>8, <2>1, ScannerCases DEF q
  <2>7. scanner_get_token(long, c) = Tok("OK", "QUOTEDSTRING", long, c, q)
    BY <1>1, <1>4, <1>8, <2>3, <2>5, ScannerCases
  <2>8. q \in 0..(Len(b) - c)
    BY <1>1, <2>2
  <2>. QED BY <1>2, <2>6, <2>7, <2>8 DEF long
<1>9. CASE k \notin {"IDENTIFIER", "WHITESPACE", "CR", "LF", "QUOTE", "SEPARATOR", "CTRL"}
  <2>1. /\ scanner_get_token(b, c) = Tok("FAILURE", "NONE", b, c, 0)
        /\ scanner_get_token(long, c) = Tok("FAILURE", "NONE", long, c, 0)
    BY <1>1, <1>3, <1>4, <1>9, ScannerCases
  <2>2. 0 \in 0..(Len(b) - c)
    BY <1>1, <1>3
  <2>. QED BY <1>2, <2>1, <2>2 DEF long
<1>. QED BY <1>5, <1>6, <1>7, <1>8, <1>9
-------------------------------------------------------------------------------
(* Recursive functions on the offsets of a buffer: each exists, and what it *)
(* finds from an offset on lies behind that offset.                         *)

\* What holds for n when it holds for all that is smaller holds for every n.
LEMMA Upwards ==
    ASSUME NEW S, \A n \in Nat : (\A m \in 0..(n - 1) : m \in S) => n \in S
    PROVE  \A n \in Nat : n \in S
<1>. SUFFICES ASSUME Nat \ S # {}  PROVE FALSE
  OBVIOUS
<1>1. PICK n \in Nat \ S : \A m \in Nat \ S : n <= m
  <2>1. Nat \ S \subseteq Nat
    OBVIOUS
  <2>. QED BY <2>1, LeastOfNats
<1>2. \A m \in 0..(n - 1) : m \in S
  BY <1>1
<1>. QED BY <1>1, <1>2

LEMMA Downwards ==
    ASSUME NEW N \in Nat, NEW S,
           \A c \in 0..N : (\A d \in (c + 1)..N : d \in S) => c \in S
    PROVE  \A c \in 0..N : c \in S
<1>. DEFINE T == {k \in Nat : k <= N => N - k \in S}
<1>1. ASSUME NEW n \in Nat, \A m \in 0..(n - 1) : m \in T
      PROVE  n \in T
  <2>1. SUFFICES ASSUME n <= N  PROVE N - n \in S
    OBVIOUS
  <2>2. ASSUME NEW d \in (N - n + 1)..N  PROVE d \in S
    <3>1. N - d \in 0..(n - 1) /\ N - d <= N /\ N - (N - d) = d
      BY <2>1
    <3>2. N - d \in T
      BY <1>1, <3>1
    <3>. QED BY <3>1, <3>2
  <2>3. N - n \in 0..N
    BY <2>1
  <2>. QED BY <2>2, <2>3
<1>2. \A n \in Nat : n \in T
  <2>. HIDE DEF T
  <2>. QED BY <1>1, Upwards
<1>3. TAKE c \in 0..N
<1>4. N - c \in T /\ N - c <= N /\ N - (N - c) = c
  BY <1>2
<1>. QED BY <1>4

\* A function on the offsets of a buffer that looks only at what is behind exists.
FunctionOn(f, N) == f = [i \in 0..N |-> f[i]]
\* A search that ends at an offset (-1) or goes on further behind.
Looks(next, N) == \A i \in 0..N : next[i] = -1 \/ next[i] \in (i + 1)..N
Found(f, N, next, val) ==
  /\ FunctionOn(f, N)
  /\ \A i \in 0..N : f[i] = IF next[i] = -1 THEN val[i] ELSE f[next[i]]
\* A search that only goes forward ends: what it finds from each offset exists.
LEMMA Descent ==
    ASSUME NEW N \in Nat, NEW next, NEW val,
           Looks(next, N)
    PROVE  \E f : Found(f, N, next, val)
<1>. USE DEF Looks
<1>. DEFINE Good(k) == \E f : f = [i \in k..N |-> IF next[i] = -1 THEN val[i] ELSE f[next[i]]]
            S == {k \in 0..N : Good(k)}
<1>1. ASSUME NEW c \in 0..N, \A d \in (c + 1)..N : d \in S
      PROVE  c \in S
  <2>1. PICK f : f = [i \in (c + 1)..N |-> IF next[i] = -1 THEN val[i] ELSE f[next[i]]]
    <3>1. CASE c = N
      <4>1. (c + 1)..N = {}
        BY <3>1
      <4>2. \E f : f = [i \in {} |-> IF next[i] = -1 THEN val[i] ELSE f[next[i]]]
        <5>. DEFINE f == [i \in {} |-> 0]
        <5>1. f = [i \in {} |-> IF next[i] = -1 THEN val[i] ELSE f[next[i]]]
          OBVIOUS
        <5>. QED BY <5>1
      <4>. QED BY <4>1, <4>2
    <3>2. CASE c # N
      <4>1. c + 1 \in (c + 1)..N
        BY <3>2
      <4>. QED BY <1>1, <4>1
    <3>. QED BY <3>1, <3>2
  <2>. DEFINE g == [i \in c..N |-> IF i = c THEN (IF next[c] = -1 THEN val[c] ELSE f[next[c]])
                                   ELSE f[i]]
  <2>2. \A i \in (c + 1)..N : g[i] = f[i]
    OBVIOUS
  <2>3. ASSUME NEW i \in c..N
        PROVE  g[i] = IF next[i] = -1 THEN val[i] ELSE g[next[i]]
    <3>1. next[i] = -1 \/ next[i] \in (c + 1)..N
      OBVIOUS
    <3>2. CASE i = c
      BY <2>2, <3>1, <3>2
    <3>3. CASE i # c
      <4>1. i \in (c + 1)..N
        BY <3>3
      <4>2. f[i] = IF next[i] = -1 THEN val[i] ELSE f[next[i]]
        BY <2>1, <4>1
      <4>3. g[i] = f[i]
        BY <2>2, <4>1
      <4>. HIDE DEF g
      <4>. QED BY <2>2, <3>1, <4>2, <4>3
    <3>. QED BY <3>2, <3>3
  <2>4. g = [i \in c..N |-> IF next[i] = -1 THEN val[i] ELSE g[next[i]]]
    <3>1. g = [i \in c..N |-> g[i]]
      OBVIOUS
    <3>. HIDE DEF g
    <3>. QED BY <2>3, <3>1
  <2>. HIDE DEF g
  <2>5. Good(c)
    BY <2>4
  <2>. QED BY <2>5
<1>2. \A c \in 0..N : c \in S
  <2>. HIDE DEF S
  <2>. QED BY <1>1, Downwards
<1>3. PICK f : f = [i \in 0..N |-> IF next[i] = -1 THEN val[i] ELSE f[next[i]]]
  <2>1. 0 \in 0..N
    OBVIOUS
  <2>. QED BY <1>2, <2>1
<1>4. \A i \in 0..N : f[i] = IF next[i] = -1 THEN val[i] ELSE f[next[i]]
  BY <1>3
<1>5. FunctionOn(f, N)
  BY <1>3, <1>4 DEF FunctionOn
<1>. QED BY <1>4, <1>5 DEF Found

\* TokensUntil from every offset: where the search ends.
Skip(b, stops) == CHOOSE f : f = [i \in 0..Len(b) |-> StopAt(f, i, scanner_get_token(b, i), stops)]

LEMMA TokensUntilStep ==
    ASSUME NEW b \in Seq(STRING), NEW c \in 0..Len(b), NEW stops
    PROVE  LET t == scanner_get_token(b, c)
           IN TokensUntil(b, c, stops) =
                IF t.status # "OK" \/ t.type \in stops
                THEN [status |-> t.status, at |-> c, token |-> t]
                ELSE TokensUntil(b, t.next, stops)
<1>. DEFINE N == Len(b)
            t(i) == scanner_get_token(b, i)
            ends(i) == t(i).status # "OK" \/ t(i).type \in stops
            next == [i \in 0..N |-> IF ends(i) THEN -1 ELSE t(i).next]
            val == [i \in 0..N |-> [status |-> t(i).status, at |-> i, token |-> t(i)]]
            F(f) == f = [i \in 0..N |-> StopAt(f, i, t(i), stops)]
            skip == Skip(b, stops)
<1>1. N \in Nat
  BY LenProperties
<1>2. Looks(next, N)
  <2>1. SUFFICES ASSUME NEW i \in 0..N  PROVE next[i] = -1 \/ next[i] \in (i + 1)..N
    BY DEF Looks
  <2>2. t(i).next \in i..N /\ (t(i).status = "OK" => t(i).next > i)
    BY TokenSound
  <2>. QED BY <1>1, <2>2
<1>3. PICK f : Found(f, N, next, val)
  <2>. HIDE DEF next, val, N
  <2>. QED BY <1>1, <1>2, Descent
<1>4. F(f)
  <2>1. ASSUME NEW i \in 0..N
        PROVE  StopAt(f, i, t(i), stops) = IF next[i] = -1 THEN val[i] ELSE f[next[i]]
    <3>1. t(i).next \in i..N
      BY TokenSound
    <3>2. t(i).next # -1
      BY <1>1, <3>1
    <3>. QED BY <3>2 DEF StopAt
  <2>. HIDE DEF next, val, N, t
  <2>. QED BY <1>3, <2>1 DEF FunctionOn, Found
<1>5. skip = [i \in 0..N |-> StopAt(skip, i, t(i), stops)]
  <2>1. skip = CHOOSE g : F(g)
    BY DEF Skip
  <2>. HIDE DEF F, skip
  <2>2. F(skip)
    BY <1>4, <2>1
  <2>. QED BY <2>2 DEF F
<1>6. \A i : TokensUntil(b, i, stops) = skip[i]
  BY DEF TokensUntil, Skip
<1>7. skip[c] = StopAt(skip, c, t(c), stops)
  <2>. HIDE DEF skip, t
  <2>. QED BY <1>5
<1>. HIDE DEF skip
<1>. QED BY <1>6, <1>7 DEF StopAt
-------------------------------------------------------------------------------
(* The tokens that a search passes: to a stop, over blanks.                 *)

Statuses == {"OK", "INCOMPLETE", "FAILURE"}

LEMMA TokensUntilSound ==
    ASSUME NEW b \in Seq(STRING), NEW stops
    PROVE  \A c \in 0..Len(b) :
             LET r == TokensUntil(b, c, stops)
             IN /\ r.status \in Statuses
                /\ r.at \in c..Len(b)
                /\ r.status = "OK" => r.token.next \in (r.at + 1)..Len(b)
                /\ r.status = scanner_get_token(b, r.at).status
                /\ TokensUntil(b, r.at, stops) = r
<1>. DEFINE r(c) == TokensUntil(b, c, stops)
            t(c) == scanner_get_token(b, c)
            Good(c) == /\ r(c).status \in Statuses
                       /\ r(c).at \in c..Len(b)
                       /\ r(c).status = "OK" => r(c).token.next \in (r(c).at + 1)..Len(b)
                       /\ r(c).status = t(r(c).at).status
                       /\ r(r(c).at) = r(c)
            S == {c \in 0..Len(b) : Good(c)}
<1>1. Len(b) \in Nat
  BY LenProperties
<1>2. ASSUME NEW c \in 0..Len(b), \A d \in (c + 1)..Len(b) : d \in S
      PROVE  Good(c)
  <2>1. /\ t(c).status \in Statuses
        /\ t(c).next \in c..Len(b)
        /\ t(c).status = "OK" => t(c).next > c
    BY TokenSound DEF Statuses
  <2>2. r(c) = IF t(c).status # "OK" \/ t(c).type \in stops
               THEN [status |-> t(c).status, at |-> c, token |-> t(c)]
               ELSE r(t(c).next)
    BY TokensUntilStep
  <2>. HIDE DEF t, r
  <2>3. CASE t(c).status # "OK" \/ t(c).type \in stops
    BY <1>1, <2>1, <2>2, <2>3
  <2>4. CASE ~(t(c).status # "OK" \/ t(c).type \in stops)
    <3>1. t(c).next \in (c + 1)..Len(b)
      BY <1>1, <2>1, <2>4
    <3>2. Good(t(c).next) /\ r(c) = r(t(c).next)
      BY <1>2, <2>2, <2>4, <3>1
    <3>. QED BY <1>1, <3>1, <3>2
  <2>. QED BY <2>3, <2>4
<1>3. \A c \in 0..Len(b) : c \in S
  <2>. HIDE DEF Good
  <2>1. \A c \in 0..Len(b) : (\A d \in (c + 1)..Len(b) : d \in S) => c \in S
    BY <1>2
  <2>. HIDE DEF S
  <2>. QED BY <1>1, <2>1, Downwards
<1>. QED BY <1>3

\* A search in the longer buffer goes on where it had come to.
LEMMA TokensUntilResumed ==
    ASSUME NEW b \in Seq(STRING), NEW u \in Seq(STRING), NEW stops
    PROVE  \A c \in 0..Len(b) :
             TokensUntil(b \o u, c, stops) = TokensUntil(b \o u, TokensUntil(b, c, stops).at, stops)
<1>. DEFINE long == b \o u
            r(c) == TokensUntil(b, c, stops)
            q(c) == TokensUntil(long, c, stops)
            t(c) == scanner_get_token(b, c)
            S == {c \in 0..Len(b) : q(c) = q(r(c).at)}
<1>1. long \in Seq(STRING) /\ Len(b) \in Nat /\ Len(u) \in Nat /\ Len(long) = Len(b) + Len(u)
  BY Longer
<1>2. ASSUME NEW c \in 0..Len(b), \A d \in (c + 1)..Len(b) : d \in S
      PROVE  q(c) = q(r(c).at)
  <2>1. /\ t(c).next \in c..Len(b)
        /\ t(c).status = "OK" => t(c).next > c
    BY TokenSound
  <2>2. r(c) = IF t(c).status # "OK" \/ t(c).type \in stops
               THEN [status |-> t(c).status, at |-> c, token |-> t(c)]
               ELSE r(t(c).next)
    BY TokensUntilStep
  <2>3. c \in 0..Len(long)
    BY <1>1
  <2>4. CASE t(c).status # "OK" \/ t(c).type \in stops
    <3>. HIDE DEF t, r, q
    <3>. QED BY <2>2, <2>4
  <2>5. CASE ~(t(c).status # "OK" \/ t(c).type \in stops)
    <3>1. t(c).next \in (c + 1)..Len(b)
      BY <1>1, <2>1, <2>5
    <3>2. scanner_get_token(long, c) = t(c)
      BY <2>5, TokenStable
    <3>. HIDE DEF long
    <3>3. q(c) = q(t(c).next)
      BY <1>1, <2>3, <2>5, <3>2, TokensUntilStep
    <3>. HIDE DEF t, r, q
    <3>. QED BY <1>2, <2>2, <2>5, <3>1, <3>3
  <2>. QED BY <2>4, <2>5
<1>3. \A c \in 0..Len(b) : c \in S
  <2>1. \A c \in 0..Len(b) : (\A d \in (c + 1)..Len(b) : d \in S) => c \in S
    <3>. HIDE DEF r, q
    <3>. QED BY <1>2
  <2>. HIDE DEF S
  <2>. QED BY <1>1, <2>1, Downwards
<1>. QED BY <1>3

LEMMA TokensUntilStable ==
    ASSUME NEW b \in Seq(STRING), NEW u \in Seq(STRING), NEW stops, NEW c \in 0..Len(b),
           TokensUntil(b, c, stops).status # "INCOMPLETE"
    PROVE  TokensUntil(b \o u, c, stops) = TokensUntil(b, c, stops)
<1>. DEFINE long == b \o u
            r == TokensUntil(b, c, stops)
            t == scanner_get_token(b, r.at)
<1>1. long \in Seq(STRING) /\ Len(b) \in Nat /\ Len(u) \in Nat /\ Len(long) = Len(b) + Len(u)
  BY Longer
<1>2. /\ r.at \in c..Len(b) /\ r.status = t.status
      /\ TokensUntil(b, r.at, stops) = r
  BY TokensUntilSound
<1>3. r.at \in 0..Len(b) /\ r.at \in 0..Len(long)
  BY <1>1, <1>2
<1>4. scanner_get_token(long, r.at) = t
  <2>. HIDE DEF r
  <2>. QED BY <1>2, <1>3, TokenStable DEF r
<1>5. TokensUntil(long, c, stops) = TokensUntil(long, r.at, stops)
  BY TokensUntilResumed
<1>. HIDE DEF long, r
<1>6. TokensUntil(b, r.at, stops) = IF t.status # "OK" \/ t.type \in stops
                                    THEN [status |-> t.status, at |-> r.at, token |-> t]
                                    ELSE TokensUntil(b, t.next, stops)
  BY <1>3, TokensUntilStep
<1>7. TokensUntil(long, r.at, stops) = IF t.status # "OK" \/ t.type \in stops
                                       THEN [status |-> t.status, at |-> r.at, token |-> t]
                                       ELSE TokensUntil(long, t.next, stops)
  <2>. DEFINE v == scanner_get_token(long, r.at)
  <2>1. TokensUntil(long, r.at, stops) = IF v.status # "OK" \/ v.type \in stops
                                         THEN [status |-> v.status, at |-> r.at, token |-> v]
                                         ELSE TokensUntil(long, v.next, stops)
    BY <1>1, <1>3, TokensUntilStep
  <2>2. v = t
    BY <1>4
  <2>. HIDE DEF v, t
  <2>. QED BY <2>1, <2>2
<1>8. CASE t.status # "OK" \/ t.type \in stops
  BY <1>2, <1>5, <1>6, <1>7, <1>8 DEF long, r
<1>9. CASE ~(t.status # "OK" \/ t.type \in stops)
  <2>1. /\ t.next \in (r.at + 1)..Len(b) /\ t.next \in 0..Len(b)
    BY <1>1, <1>2, <1>3, <1>9, TokenSound
  <2>2. TokensUntil(b, t.next, stops).at \in t.next..Len(b)
    BY <2>1, TokensUntilSound
  <2>3. TokensUntil(b, t.next, stops) = r
    BY <1>2, <1>6, <1>9
  <2>. QED BY <1>1, <2>1, <2>2, <2>3
<1>. QED BY <1>8, <1>9

LEMMA BehindSound ==
    ASSUME NEW b \in Seq(STRING), NEW c \in 0..Len(b)
    PROVE  LET t == Behind(b, scanner_get_token(b, c))
           IN /\ t.status \in Statuses
              /\ t.next \in c..Len(b)
              /\ t.status = "OK" => t.next \in (c + 1)..Len(b)
<1>. DEFINE t == scanner_get_token(b, c)
            v == scanner_get_token(b, t.next)
<1>1. Len(b) \in Nat
  BY LenProperties
<1>2. /\ t.status \in Statuses
      /\ t.next \in c..Len(b)
      /\ t.status = "OK" => t.next > c
  BY TokenSound DEF Statuses
<1>3. t.next \in 0..Len(b)
  BY <1>1, <1>2
<1>. HIDE DEF t
<1>4. /\ v.status \in Statuses
      /\ v.next \in t.next..Len(b)
      /\ v.status = "OK" => v.next > t.next
  BY <1>3, TokenSound DEF Statuses
<1>. HIDE DEF v
<1>5. Behind(b, t) = t \/ (Behind(b, t) = v /\ t.status = "OK")
  BY DEF Behind, v
<1>6. Behind(b, t).status \in Statuses /\ Behind(b, t).next \in c..Len(b)
  BY <1>1, <1>2, <1>3, <1>4, <1>5
<1>7. Behind(b, t).status = "OK" => Behind(b, t).next \in (c + 1)..Len(b)
  BY <1>1, <1>2, <1>3, <1>4, <1>5
<1>. QED BY <1>6, <1>7 DEF t

LEMMA BehindStable ==
    ASSUME NEW b \in Seq(STRING), NEW u \in Seq(STRING), NEW c \in 0..Len(b),
           Behind(b, scanner_get_token(b, c)).status # "INCOMPLETE"
    PROVE  Behind(b \o u, scanner_get_token(b \o u, c)) = Behind(b, scanner_get_token(b, c))
<1>. DEFINE t == scanner_get_token(b, c)
<1>1. t.next \in 0..Len(b)
  <2>1. t.next \in c..Len(b) /\ Len(b) \in Nat
    BY TokenSound, LenProperties
  <2>. QED BY <2>1
<1>2. t.status # "INCOMPLETE"
  BY DEF Behind
<1>3. scanner_get_token(b \o u, c) = t
  BY <1>2, TokenStable
<1>4. CASE t.status = "OK" /\ t.type = "CRLF"
  <2>. HIDE DEF t
  <2>1. scanner_get_token(b, t.next).status # "INCOMPLETE"
    BY <1>4 DEF Behind, t
  <2>2. scanner_get_token(b \o u, t.next) = scanner_get_token(b, t.next)
    BY <1>1, <2>1, TokenStable
  <2>. QED BY <1>3, <1>4, <2>2 DEF Behind, t
<1>5. CASE ~(t.status = "OK" /\ t.type = "CRLF")
  BY <1>3, <1>5 DEF Behind
<1>. QED BY <1>4, <1>5

\* skip_lws from every offset.
Over(b) == CHOOSE f : f = [i \in 0..Len(b) |-> PassBlank(f, i, Behind(b, scanner_get_token(b, i)))]

LEMMA SkipLwsStep ==
    ASSUME NEW b \in Seq(STRING), NEW c \in 0..Len(b)
    PROVE  LET t == Behind(b, scanner_get_token(b, c))
           IN skip_lws(b, c) = IF t.status = "OK" /\ t.type = "WHITESPACE" THEN skip_lws(b, t.next)
                               ELSE [status |-> t.status, at |-> c]
<1>. DEFINE N == Len(b)
            t(i) == Behind(b, scanner_get_token(b, i))
            goes(i) == t(i).status = "OK" /\ t(i).type = "WHITESPACE"
            next == [i \in 0..N |-> IF goes(i) THEN t(i).next ELSE -1]
            val == [i \in 0..N |-> [status |-> t(i).status, at |-> i]]
            F(f) == f = [i \in 0..N |-> PassBlank(f, i, t(i))]
            over == Over(b)
<1>1. N \in Nat
  BY LenProperties
<1>2. Looks(next, N)
  <2>1. SUFFICES ASSUME NEW i \in 0..N  PROVE next[i] = -1 \/ next[i] \in (i + 1)..N
    BY DEF Looks
  <2>2. t(i).status = "OK" => t(i).next \in (i + 1)..N
    BY BehindSound
  <2>. QED BY <1>1, <2>2
<1>3. PICK f : Found(f, N, next, val)
  <2>. HIDE DEF next, val, N
  <2>. QED BY <1>1, <1>2, Descent
<1>4. F(f)
  <2>1. ASSUME NEW i \in 0..N
        PROVE  PassBlank(f, i, t(i)) = IF next[i] = -1 THEN val[i] ELSE f[next[i]]
    <3>1. t(i).next \in i..N
      BY BehindSound
    <3>2. t(i).next # -1
      BY <1>1, <3>1
    <3>. QED BY <3>2 DEF PassBlank
  <2>. HIDE DEF next, val, N, t
  <2>. QED BY <1>3, <2>1 DEF FunctionOn, Found
<1>5. over = [i \in 0..N |-> PassBlank(over, i, t(i))]
  <2>1. over = CHOOSE g : F(g)
    BY DEF Over
  <2>. HIDE DEF F, over
  <2>2. F(over)
    BY <1>4, <2>1
  <2>. QED BY <2>2 DEF F
<1>6. \A i : skip_lws(b, i) = over[i]
  BY DEF skip_lws, Over
<1>7. over[c] = PassBlank(over, c, t(c))
  <2>. HIDE DEF over, t
  <2>. QED BY <1>5
<1>. HIDE DEF over
<1>. QED BY <1>6, <1>7 DEF PassBlank

LEMMA SkipLwsSound ==
    ASSUME NEW b \in Seq(STRING)
    PROVE  \A c \in 0..Len(b) : /\ skip_lws(b, c).status \in Statuses
                                /\ skip_lws(b, c).at \in c..Len(b)
<1>. DEFINE r(c) == skip_lws(b, c)
            t(c) == Behind(b, scanner_get_token(b, c))
            S == {c \in 0..Len(b) : r(c).status \in Statuses /\ r(c).at \in c..Len(b)}
<1>1. Len(b) \in Nat
  BY LenProperties
<1>2. ASSUME NEW c \in 0..Len(b), \A d \in (c + 1)..Len(b) : d \in S
      PROVE  c \in S
  <2>1. t(c).status \in Statuses /\ (t(c).status = "OK" => t(c).next \in (c + 1)..Len(b))
    BY BehindSound
  <2>2. r(c) = IF t(c).status = "OK" /\ t(c).type = "WHITESPACE" THEN r(t(c).next)
               ELSE [status |-> t(c).status, at |-> c]
    BY SkipLwsStep
  <2>. HIDE DEF t, r
  <2>3. CASE t(c).status = "OK" /\ t(c).type = "WHITESPACE"
    <3>1. t(c).next \in S /\ t(c).next \in (c + 1)..Len(b) /\ r(c) = r(t(c).next)
      BY <1>2, <2>1, <2>2, <2>3
    <3>. QED BY <1>1, <3>1
  <2>4. CASE ~(t(c).status = "OK" /\ t(c).type = "WHITESPACE")
    BY <1>1, <2>1, <2>2, <2>4
  <2>. QED BY <2>3, <2>4
<1>3. \A c \in 0..Len(b) : c \in S
  <2>. HIDE DEF S
  <2>. QED BY <1>1, <1>2, Downwards
<1>. QED BY <1>3

LEMMA SkipLwsStable ==
    ASSUME NEW b \in Seq(STRING), NEW u \in Seq(STRING)
    PROVE  \A c \in 0..Len(b) :
             skip_lws(b, c).status # "INCOMPLETE" => skip_lws(b \o u, c) = skip_lws(b, c)
<1>. DEFINE long == b \o u
            r(c) == skip_lws(b, c)
            q(c) == skip_lws(long, c)
            t(c) == Behind(b, scanner_get_token(b, c))
            S == {c \in 0..Len(b) : r(c).status # "INCOMPLETE" => q(c) = r(c)}
<1>1. long \in Seq(STRING) /\ Len(b) \in Nat /\ Len(u) \in Nat /\ Len(long) = Len(b) + Len(u)
  BY Longer
<1>2. ASSUME NEW c \in 0..Len(b), \A d \in (c + 1)..Len(b) : d \in S
      PROVE  c \in S
  <2>. SUFFICES ASSUME r(c).status # "INCOMPLETE"  PROVE q(c) = r(c)
    OBVIOUS
  <2>1. t(c).status = "OK" => t(c).next \in (c + 1)..Len(b)
    BY BehindSound
  <2>2. r(c) = IF t(c).status = "OK" /\ t(c).type = "WHITESPACE" THEN r(t(c).next)
               ELSE [status |-> t(c).status, at |-> c]
    BY SkipLwsStep
  <2>3. t(c).status # "INCOMPLETE"
    <3>. HIDE DEF t, r
    <3>. QED BY <2>2
  <2>4. Behind(long, scanner_get_token(long, c)) = t(c)
    BY <2>3, BehindStable
  <2>5. c \in 0..Len(long)
    BY <1>1
  <2>. HIDE DEF long
  <2>6. q(c) = IF t(c).status = "OK" /\ t(c).type = "WHITESPACE" THEN q(t(c).next)
               ELSE [status |-> t(c).status, at |-> c]
    BY <1>1, <2>4, <2>5, SkipLwsStep
  <2>. HIDE DEF t, r, q
  <2>7. CASE t(c).status = "OK" /\ t(c).type = "WHITESPACE"
    BY <1>2, <2>1, <2>2, <2>6, <2>7
  <2>8. CASE ~(t(c).status = "OK" /\ t(c).type = "WHITESPACE")
    BY <2>2, <2>6, <2>8
  <2>. QED BY <2>7, <2>8
<1>3. \A c \in 0..Len(b) : c \in S
  <2>. HIDE DEF S
  <2>. QED BY <1>1, <1>2, Downwards
<1>. QED BY <1>3
-------------------------------------------------------------------------------
(* Lines, and the directives of vfmatch.                                    *)

\* RawEnd from every offset.
Ends(b) ==
  CHOOSE f : f = [i \in 0..Len(b) |-> LineEnd(f, b, TokensUntil(b, i, {"CRLF"}))]

LEMMA LineSound ==
    ASSUME NEW b \in Seq(STRING), NEW c \in 0..Len(b)
    PROVE  LET v == TokensUntil(b, c, {"CRLF"})
               t == scanner_get_token(b, v.token.next)
           IN /\ v.status \in Statuses
              /\ v.at \in c..Len(b)
              /\ v.status = "OK" => /\ v.token.next \in 0..Len(b)
                                    /\ t.status \in Statuses
                                    /\ t.next \in (c + 1)..Len(b)
<1>. DEFINE v == TokensUntil(b, c, {"CRLF"})
            t == scanner_get_token(b, v.token.next)
<1>1. Len(b) \in Nat
  BY LenProperties
<1>2. /\ v.status \in Statuses /\ v.at \in c..Len(b)
      /\ v.status = "OK" => v.token.next \in (v.at + 1)..Len(b)
  BY TokensUntilSound
<1>. HIDE DEF v
<1>3. ASSUME v.status = "OK"
      PROVE  /\ v.token.next \in 0..Len(b)
             /\ t.status \in Statuses
             /\ t.next \in (c + 1)..Len(b)
  <2>1. v.token.next \in 0..Len(b) /\ v.token.next \in (c + 1)..Len(b)
    BY <1>1, <1>2, <1>3
  <2>2. t.status \in Statuses /\ t.next \in v.token.next..Len(b)
    BY <2>1, TokenSound DEF Statuses
  <2>. QED BY <1>1, <2>1, <2>2
<1>. QED BY <1>2, <1>3 DEF v

LEMMA RawEndStep ==
    ASSUME NEW b \in Seq(STRING), NEW c \in 0..Len(b)
    PROVE  LET v == TokensUntil(b, c, {"CRLF"})
               t == scanner_get_token(b, v.token.next)
           IN RawEnd(b, c) =
                IF v.status # "OK" THEN [status |-> v.status, at |-> 0]
                ELSE IF t.status # "OK" THEN [status |-> t.status, at |-> 0]
                ELSE IF t.type = "WHITESPACE" THEN RawEnd(b, t.next)
                ELSE [status |-> "OK", at |-> v.at]
<1>. DEFINE N == Len(b)
            v(i) == TokensUntil(b, i, {"CRLF"})
            t(i) == scanner_get_token(b, v(i).token.next)
            goes(i) == v(i).status = "OK" /\ t(i).status = "OK" /\ t(i).type = "WHITESPACE"
            next == [i \in 0..N |-> IF goes(i) THEN t(i).next ELSE -1]
            val == [i \in 0..N |-> IF v(i).status # "OK" THEN [status |-> v(i).status, at |-> 0]
                                   ELSE IF t(i).status # "OK" THEN [status |-> t(i).status, at |-> 0]
                                   ELSE [status |-> "OK", at |-> v(i).at]]
            F(f) == f = [i \in 0..N |-> LineEnd(f, b, v(i))]
            end == Ends(b)
<1>1. N \in Nat
  BY LenProperties
<1>2. Looks(next, N)
  <2>1. SUFFICES ASSUME NEW i \in 0..N  PROVE next[i] = -1 \/ next[i] \in (i + 1)..N
    BY DEF Looks
  <2>2. v(i).status = "OK" => t(i).next \in (i + 1)..N
    BY LineSound
  <2>. QED BY <1>1, <2>2
<1>3. PICK f : Found(f, N, next, val)
  <2>. HIDE DEF next, val, N
  <2>. QED BY <1>1, <1>2, Descent
<1>4. F(f)
  <2>1. ASSUME NEW i \in 0..N
        PROVE  LineEnd(f, b, v(i)) = IF next[i] = -1 THEN val[i] ELSE f[next[i]]
    <3>1. v(i).status = "OK" => t(i).next \in (i + 1)..N
      BY LineSound
    <3>2. v(i).status = "OK" => t(i).next # -1
      BY <1>1, <3>1
    <3>3. LineEnd(f, b, v(i)) = EndAt(f, v(i), t(i))
      BY DEF LineEnd
    <3>. HIDE DEF v, t
    <3>. QED BY <3>2, <3>3 DEF EndAt
  <2>. HIDE DEF next, val, N, v
  <2>. QED BY <1>3, <2>1 DEF FunctionOn, Found
<1>5. end = [i \in 0..N |-> LineEnd(end, b, v(i))]
  <2>1. end = CHOOSE g : F(g)
    BY DEF Ends
  <2>. HIDE DEF F, end
  <2>2. F(end)
    BY <1>4, <2>1
  <2>. QED BY <2>2 DEF F
<1>6. \A i : RawEnd(b, i) = end[i]
  BY DEF RawEnd, Ends
<1>7. end[c] = LineEnd(end, b, v(c))
  <2>. HIDE DEF end, v
  <2>. QED BY <1>5
<1>8. end[c] = EndAt(end, v(c), t(c))
  BY <1>7 DEF LineEnd
<1>. HIDE DEF end, v, t
<1>9. RawEnd(b, c) =
        IF v(c).status # "OK" THEN [status |-> v(c).status, at |-> 0]
        ELSE IF t(c).status # "OK" THEN [status |-> t(c).status, at |-> 0]
        ELSE IF t(c).type = "WHITESPACE" THEN RawEnd(b, t(c).next)
        ELSE [status |-> "OK", at |-> v(c).at]
  BY <1>6, <1>8 DEF EndAt
<1>. QED BY <1>9 DEF v, t

LEMMA RawEndSound ==
    ASSUME NEW b \in Seq(STRING)
    PROVE  \A c \in 0..Len(b) : /\ RawEnd(b, c).status \in Statuses
                                /\ RawEnd(b, c).status = "OK" => RawEnd(b, c).at \in c..Len(b)
<1>. DEFINE r(c) == RawEnd(b, c)
            v(c) == TokensUntil(b, c, {"CRLF"})
            t(c) == scanner_get_token(b, v(c).token.next)
            S == {c \in 0..Len(b) : /\ r(c).status \in Statuses
                                    /\ r(c).status = "OK" => r(c).at \in c..Len(b)}
<1>1. Len(b) \in Nat
  BY LenProperties
<1>2. ASSUME NEW c \in 0..Len(b), \A d \in (c + 1)..Len(b) : d \in S
      PROVE  c \in S
  <2>1. /\ v(c).status \in Statuses /\ v(c).at \in c..Len(b)
        /\ v(c).status = "OK" => t(c).status \in Statuses /\ t(c).next \in (c + 1)..Len(b)
    BY LineSound
  <2>2. r(c) = IF v(c).status # "OK" THEN [status |-> v(c).status, at |-> 0]
               ELSE IF t(c).status # "OK" THEN [status |-> t(c).status, at |-> 0]
               ELSE IF t(c).type = "WHITESPACE" THEN r(t(c).next)
               ELSE [status |-> "OK", at |-> v(c).at]
    BY RawEndStep
  <2>. HIDE DEF t, r, v
  <2>3. CASE v(c).status = "OK" /\ t(c).status = "OK" /\ t(c).type = "WHITESPACE"
    <3>1. t(c).next \in S /\ t(c).next \in (c + 1)..Len(b) /\ r(c) = r(t(c).next)
      BY <1>2, <2>1, <2>2, <2>3
    <3>. QED BY <1>1, <3>1
  <2>4. CASE ~(v(c).status = "OK" /\ t(c).status = "OK" /\ t(c).type = "WHITESPACE")
    BY <1>1, <2>1, <2>2, <2>4 DEF Statuses
  <2>. QED BY <2>3, <2>4
<1>3. \A c \in 0..Len(b) : c \in S
  <2>. HIDE DEF S
  <2>. QED BY <1>1, <1>2, Downwards
<1>. QED BY <1>3

LEMMA RawEndStable ==
    ASSUME NEW b \in Seq(STRING), NEW u \in Seq(STRING)
    PROVE  \A c \in 0..Len(b) :
             RawEnd(b, c).status # "INCOMPLETE" => RawEnd(b \o u, c) = RawEnd(b, c)
<1>. DEFINE long == b \o u
            r(c) == RawEnd(b, c)
            q(c) == RawEnd(long, c)
            v(c) == TokensUntil(b, c, {"CRLF"})
            t(c) == scanner_get_token(b, v(c).token.next)
            S == {c \in 0..Len(b) : r(c).status # "INCOMPLETE" => q(c) = r(c)}
<1>1. long \in Seq(STRING) /\ Len(b) \in Nat /\ Len(u) \in Nat /\ Len(long) = Len(b) + Len(u)
  BY Longer
<1>2. ASSUME NEW c \in 0..Len(b), \A d \in (c + 1)..Len(b) : d \in S
      PROVE  c \in S
  <2>. SUFFICES ASSUME r(c).status # "INCOMPLETE"  PROVE q(c) = r(c)
    OBVIOUS
  <2>1. v(c).status = "OK" => /\ v(c).token.next \in 0..Len(b)
                              /\ t(c).next \in (c + 1)..Len(b)
    BY LineSound
  <2>2. r(c) = IF v(c).status # "OK" THEN [status |-> v(c).status, at |-> 0]
               ELSE IF t(c).status # "OK" THEN [status |-> t(c).status, at |-> 0]
               ELSE IF t(c).type = "WHITESPACE" THEN r(t(c).next)
               ELSE [status |-> "OK", at |-> v(c).at]
    BY RawEndStep
  <2>3. v(c).status # "INCOMPLETE" /\ (v(c).status = "OK" => t(c).status # "INCOMPLETE")
    <3>. HIDE DEF t, r, v
    <3>. QED BY <2>2
  <2>4. TokensUntil(long, c, {"CRLF"}) = v(c)
    BY <2>3, TokensUntilStable
  <2>5. v(c).status = "OK" => scanner_get_token(long, v(c).token.next) = t(c)
    <3>. HIDE DEF v
    <3>. QED BY <2>1, <2>3, TokenStable
  <2>6. c \in 0..Len(long)
    BY <1>1
  <2>. HIDE DEF long
  <2>7. q(c) = IF v(c).status # "OK" THEN [status |-> v(c).status, at |-> 0]
               ELSE IF t(c).status # "OK" THEN [status |-> t(c).status, at |-> 0]
               ELSE IF t(c).type = "WHITESPACE" THEN q(t(c).next)
               ELSE [status |-> "OK", at |-> v(c).at]
    <3>. DEFINE x == TokensUntil(long, c, {"CRLF"})
                y == scanner_get_token(long, x.token.next)
    <3>1. q(c) = IF x.status # "OK" THEN [status |-> x.status, at |-> 0]
                 ELSE IF y.status # "OK" THEN [status |-> y.status, at |-> 0]
                 ELSE IF y.type = "WHITESPACE" THEN q(y.next)
                 ELSE [status |-> "OK", at |-> x.at]
      BY <1>1, <2>6, RawEndStep
    <3>2. x = v(c)
      BY <2>4
    <3>3. v(c).status = "OK" => y = t(c)
      <4>. HIDE DEF x, v
      <4>. QED BY <2>5, <3>2
    <3>. HIDE DEF x, y, v, t, q
    <3>. QED BY <3>1, <3>2, <3>3
  <2>. HIDE DEF t, r, q, v
  <2>8. CASE v(c).status = "OK" /\ t(c).status = "OK" /\ t(c).type = "WHITESPACE"
    BY <1>2, <2>1, <2>2, <2>7, <2>8
  <2>9. CASE ~(v(c).status = "OK" /\ t(c).status = "OK" /\ t(c).type = "WHITESPACE")
    BY <2>2, <2>7, <2>9
  <2>. QED BY <2>8, <2>9
<1>3. \A c \in 0..Len(b) : c \in S
  <2>. HIDE DEF S
  <2>. QED BY <1>1, <1>2, Downwards
<1>. QED BY <1>3

(* Matching                                                                 *)

Found3 == Statuses \cup {"NO_MATCH"}

\* A match under way in the buffer b.
MatchIn(m, b) ==
    /\ m = [status |-> m.status, at |-> m.at, out |-> m.out]
    /\ m.status \in Found3
    /\ m.at \in 0..Len(b)

\* What a directive makes of a match that has not failed.
Follows(r, m, b) == MatchIn(r, b) /\ r.at \in m.at..Len(b)

LEMMA StopFollows ==
    ASSUME NEW b \in Seq(STRING), NEW m, MatchIn(m, b), NEW status \in Found3
    PROVE  Follows(Stop(m, status), m, b) /\ Stop(m, status).status = status
           /\ Stop(m, status).at = m.at
<1>1. Len(b) \in Nat
  BY LenProperties
<1>2. Stop(m, status) = [status |-> status, at |-> m.at, out |-> m.out]
  BY DEF Stop, MatchIn
<1>. QED BY <1>1, <1>2 DEF Follows, MatchIn

LEMMA AdvanceFollows ==
    ASSUME NEW b \in Seq(STRING), NEW m, MatchIn(m, b), NEW at \in m.at..Len(b), NEW taken
    PROVE  Follows(Advance(at, taken), m, b) /\ Advance(at, taken).status = "OK"
           /\ Advance(at, taken).at = at /\ Advance(at, taken).out = taken
<1>1. Len(b) \in Nat
  BY LenProperties
<1>. QED BY <1>1 DEF Follows, MatchIn, Advance, Found3, Statuses

LEMMA TakeFollows ==
    ASSUME NEW b \in Seq(STRING), NEW m, MatchIn(m, b), NEW type, NEW taken
    PROVE  Follows(Take(m, scanner_get_token(b, m.at), type, taken), m, b)
<1>. DEFINE t == scanner_get_token(b, m.at)
<1>1. t.status \in Statuses /\ t.next \in m.at..Len(b)
  BY TokenSound DEF MatchIn, Statuses
<1>2. Follows(Stop(m, t.status), m, b) /\ Follows(Stop(m, "NO_MATCH"), m, b)
  <2>. HIDE DEF t
  <2>. QED BY <1>1, StopFollows DEF Found3
<1>3. Follows(Advance(t.next, taken), m, b)
  <2>. HIDE DEF t
  <2>. QED BY <1>1, AdvanceFollows
<1>. HIDE DEF t
<1>4. Take(m, t, type, taken) \in {Stop(m, t.status), Stop(m, "NO_MATCH"), Advance(t.next, taken)}
  BY DEF Take
<1>. QED BY <1>2, <1>3, <1>4 DEF t

LEMMA DirectedFollows ==
    ASSUME NEW b \in Seq(STRING), NEW m, MatchIn(m, b), m.status = "OK", NEW d
    PROVE  Follows(Directed(b, m, d, scanner_get_token(b, m.at)), m, b)
<1>. DEFINE t == scanner_get_token(b, m.at)
            r == Directed(b, m, d, t)
<1>1. /\ Len(b) \in Nat /\ m.at \in 0..Len(b)
      /\ Follows(m, m, b)
      /\ \A status \in Found3 : Follows(Stop(m, status), m, b)
      /\ \A at \in m.at..Len(b) : \A taken : Follows(Advance(at, taken), m, b)
      /\ \A type, taken : Follows(Take(m, t, type, taken), m, b)
  <2>1. Len(b) \in Nat /\ m.at \in 0..Len(b) /\ Follows(m, m, b)
    BY LenProperties DEF Follows, MatchIn
  <2>2. \A status \in Found3 : Follows(Stop(m, status), m, b)
    BY StopFollows
  <2>3. \A at \in m.at..Len(b) : \A taken : Follows(Advance(at, taken), m, b)
    BY AdvanceFollows
  <2>4. \A type, taken : Follows(Take(m, t, type, taken), m, b)
    BY TakeFollows
  <2>. QED BY <2>1, <2>2, <2>3, <2>4
<1>. SUFFICES Follows(r, m, b)
  OBVIOUS
<1>. HIDE DEF t
<1>2. CASE d \in {"%s", "%c", "\t", "%w", "%x"}
  <2>1. \/ r = m
        \/ r = Stop(m, "NO_MATCH")
        \/ \E type, taken : r = Take(m, t, type, taken)
    BY <1>2 DEF Directed
  <2>. HIDE DEF r
  <2>. QED BY <1>1, <2>1 DEF Found3
<1>3. ASSUME NEW stops, NEW least
      PROVE  Follows(TakeUpTo(b, m, TokensUntil(b, m.at, stops), least), m, b)
  <2>. DEFINE v == TokensUntil(b, m.at, stops)
  <2>1. v.status \in Statuses /\ v.at \in m.at..Len(b)
    BY <1>1, TokensUntilSound
  <2>. HIDE DEF v
  <2>2. TakeUpTo(b, m, v, least) \in {Stop(m, v.status), Stop(m, "NO_MATCH"),
                                      Advance(v.at, Append(m.out, SubSeq(b, m.at + 1, v.at)))}
    BY DEF TakeUpTo
  <2>. QED BY <1>1, <2>1, <2>2 DEF Found3, v
<1>4. CASE d = "%S"
  BY <1>3, <1>4 DEF Directed
<1>5. CASE d = "%L"
  BY <1>3, <1>5 DEF Directed
<1>6. CASE d = "%R"
  <2>. DEFINE v == RawEnd(b, m.at)
  <2>1. v.status \in Statuses /\ (v.status = "OK" => v.at \in m.at..Len(b))
    BY <1>1, RawEndSound
  <2>2. r = TakeRaw(b, m, v)
    BY <1>6 DEF Directed
  <2>. HIDE DEF v, r
  <2>. QED BY <1>1, <2>1, <2>2 DEF Found3, TakeRaw
<1>7. CASE d = " "
  <2>. DEFINE v == skip_lws(b, m.at)
  <2>1. v.status \in Statuses /\ v.at \in m.at..Len(b)
    BY <1>1, SkipLwsSound
  <2>2. r = TakeBlanks(m, v)
    BY <1>7 DEF Directed
  <2>. HIDE DEF v, r
  <2>. QED BY <1>1, <2>1, <2>2 DEF Found3, TakeBlanks
<1>8. CASE d \notin {"%s", "%c", "\t", "%w", "%x", "%S", "%L", "%R", " "}
  <2>1. r = TakeLiteral(b, m, d)
    BY <1>8 DEF Directed
  <2>2. m.at < Len(b) => m.at + 1 \in m.at..Len(b)
    BY <1>1
  <2>3. r \in {Stop(m, "INCOMPLETE"), Stop(m, "NO_MATCH")}
        \/ (m.at < Len(b) /\ r = Advance(m.at + 1, m.out))
    BY <1>1, <2>1 DEF TakeLiteral
  <2>. HIDE DEF r
  <2>. QED BY <1>1, <2>2, <2>3 DEF Found3, Statuses
<1>. QED BY <1>2, <1>4, <1>5, <1>6, <1>7, <1>8 DEF t
-------------------------------------------------------------------------------
(* vfmatch: a match that has succeeded or failed stays so when more bytes   *)
(* arrive, and a match that waits leaves no trace but its status.           *)

LEMMA DirectedStable ==
    ASSUME NEW b \in Seq(STRING), NEW u \in Seq(STRING), NEW m, MatchIn(m, b), m.status = "OK", NEW d,
           Directed(b, m, d, scanner_get_token(b, m.at)).status # "INCOMPLETE"
    PROVE  Directed(b \o u, m, d, scanner_get_token(b \o u, m.at)) =
             Directed(b, m, d, scanner_get_token(b, m.at))
<1>. DEFINE long == b \o u
            c == m.at
            t == scanner_get_token(b, c)
            s == scanner_get_token(long, c)
            r == Directed(b, m, d, t)
            q == Directed(long, m, d, s)
<1>1. /\ long \in Seq(STRING) /\ Len(b) \in Nat /\ Len(u) \in Nat /\ Len(long) = Len(b) + Len(u)
      /\ \A i \in 1..Len(b) : long[i] = b[i]
      /\ c \in 0..Len(b)
  BY Longer DEF MatchIn
<1>2. \A status \in Found3 : Stop(m, status).status = status
  BY StopFollows
<1>3. t.status \in Statuses
  BY <1>1, TokenSound DEF Statuses
<1>4. t.status # "INCOMPLETE" => s = t
  BY <1>1, TokenStable
<1>5. \A at \in c..Len(b) : SubSeq(long, c + 1, at) = SubSeq(b, c + 1, at)
  <2>1. TAKE at \in c..Len(b)
  <2>2. c + 1 \in 1..Len(b) + 1 /\ at \in 0..Len(b)
    BY <1>1
  <2>. QED BY <2>2, LongerSubSeq
<1>. SUFFICES ASSUME r.status # "INCOMPLETE"  PROVE q = r
  OBVIOUS
<1>6. CASE d \in {"%s", "%c", "\t", "%w", "%x"}
  <2>1. t.status # "INCOMPLETE"
    <3>1. SUFFICES ASSUME t.status = "INCOMPLETE"  PROVE FALSE
      OBVIOUS
    <3>. HIDE DEF t
    <3>2. \E type, taken : r = Take(m, t, type, taken)
      BY <1>6, <3>1 DEF Directed
    <3>. HIDE DEF r
    <3>3. r = Stop(m, "INCOMPLETE")
      BY <3>1, <3>2 DEF Take
    <3>. QED BY <1>2, <3>3 DEF Found3, Statuses
  <2>. HIDE DEF s, t, long
  <2>. QED BY <1>4, <1>6, <2>1 DEF Directed
<1>7. ASSUME NEW stops, NEW least, TakeUpTo(b, m, TokensUntil(b, c, stops), least).status # "INCOMPLETE"
      PROVE  TakeUpTo(long, m, TokensUntil(long, c, stops), least) =
               TakeUpTo(b, m, TokensUntil(b, c, stops), least)
  <2>. DEFINE v == TokensUntil(b, c, stops)
              w == TokensUntil(long, c, stops)
  <2>1. v.status \in Statuses /\ v.at \in c..Len(b)
    BY <1>1, TokensUntilSound
  <2>2. v.status # "INCOMPLETE"
    <3>. HIDE DEF v
    <3>1. v.status = "INCOMPLETE" => TakeUpTo(b, m, v, least) = Stop(m, "INCOMPLETE")
      BY DEF TakeUpTo
    <3>. QED BY <1>2, <1>7, <3>1 DEF Found3, Statuses, v
  <2>3. w = v
    BY <1>1, <2>2, TokensUntilStable
  <2>4. SubSeq(long, c + 1, v.at) = SubSeq(b, c + 1, v.at)
    BY <1>5, <2>1
  <2>. HIDE DEF v, w, long
  <2>5. TakeUpTo(long, m, v, least) = TakeUpTo(b, m, v, least)
    BY <2>4 DEF TakeUpTo
  <2>. QED BY <2>3, <2>5 DEF v, w
<1>8. CASE d = "%S"
  <2>1. \A x \in {b, long} : \A y : Directed(x, m, d, y) = TakeUpTo(x, m, TokensUntil(x, c, {"WHITESPACE", "CRLF"}), 1)
    BY <1>8 DEF Directed
  <2>. QED BY <1>7, <2>1
<1>9. CASE d = "%L"
  <2>1. \A x \in {b, long} : \A y : Directed(x, m, d, y) = TakeUpTo(x, m, TokensUntil(x, c, {"CRLF"}), 0)
    BY <1>9 DEF Directed
  <2>. QED BY <1>7, <2>1
<1>10. CASE d = "%R"
  <2>. DEFINE v == RawEnd(b, c)
              w == RawEnd(long, c)
  <2>1. v.status \in Statuses /\ (v.status = "OK" => v.at \in c..Len(b))
    BY <1>1, RawEndSound
  <2>2. r = TakeRaw(b, m, v) /\ q = TakeRaw(long, m, w)
    BY <1>10 DEF Directed
  <2>3. v.status # "INCOMPLETE"
    <3>. HIDE DEF v
    <3>1. v.status = "INCOMPLETE" => TakeRaw(b, m, v) = Stop(m, "INCOMPLETE")
      BY DEF TakeRaw
    <3>. HIDE DEF r
    <3>. QED BY <1>2, <2>2, <3>1 DEF Found3, Statuses
  <2>4. w = v
    BY <1>1, <2>3, RawEndStable
  <2>5. v.status = "OK" => SubSeq(long, c + 1, v.at) = SubSeq(b, c + 1, v.at)
    BY <1>5, <2>1
  <2>. HIDE DEF v, w, long, r, q
  <2>6. TakeRaw(long, m, v) = TakeRaw(b, m, v)
    BY <2>5 DEF TakeRaw
  <2>. QED BY <2>2, <2>4, <2>6
<1>11. CASE d = " "
  <2>. DEFINE v == skip_lws(b, c)
              w == skip_lws(long, c)
  <2>1. v.status \in Statuses
    BY <1>1, SkipLwsSound
  <2>2. r = TakeBlanks(m, v) /\ q = TakeBlanks(m, w)
    BY <1>11 DEF Directed
  <2>3. v.status # "INCOMPLETE"
    <3>. HIDE DEF v
    <3>1. v.status = "INCOMPLETE" => TakeBlanks(m, v) = Stop(m, "INCOMPLETE")
      BY DEF TakeBlanks
    <3>. HIDE DEF r
    <3>. QED BY <1>2, <2>2, <3>1 DEF Found3, Statuses
  <2>4. w = v
    BY <1>1, <2>3, SkipLwsStable
  <2>. HIDE DEF v, w, r, q
  <2>. QED BY <2>2, <2>4
<1>12. CASE d \notin {"%s", "%c", "\t", "%w", "%x", "%S", "%L", "%R", " "}
  <2>1. r = TakeLiteral(b, m, d) /\ q = TakeLiteral(long, m, d)
    BY <1>12 DEF Directed
  <2>2. c # Len(b)
    <3>1. c = Len(b) => TakeLiteral(b, m, d) = Stop(m, "INCOMPLETE")
      BY DEF TakeLiteral
    <3>. HIDE DEF r
    <3>. QED BY <1>2, <2>1, <3>1 DEF Found3, Statuses
  <2>3. c < Len(b) /\ c < Len(long) /\ c # Len(long) /\ long[c + 1] = b[c + 1]
    BY <1>1, <2>2
  <2>. HIDE DEF r, q, long
  <2>. QED BY <2>1, <2>2, <2>3 DEF TakeLiteral
<1>. QED BY <1>6, <1>8, <1>9, <1>10, <1>11, <1>12

LEMMA DirectiveFollows ==
    ASSUME NEW b \in Seq(STRING), NEW m, MatchIn(m, b), NEW d
    PROVE  Follows(Directive(b, m, d), m, b)
<1>1. CASE m.status = "OK"
  BY <1>1, DirectedFollows DEF Directive
<1>2. CASE m.status # "OK"
  <2>1. Len(b) \in Nat
    BY LenProperties
  <2>. QED BY <1>2, <2>1 DEF Directive, Follows, MatchIn
<1>. QED BY <1>1, <1>2

LEMMA DirectiveStable ==
    ASSUME NEW b \in Seq(STRING), NEW u \in Seq(STRING), NEW m, MatchIn(m, b), NEW d,
           Directive(b, m, d).status # "INCOMPLETE"
    PROVE  Directive(b \o u, m, d) = Directive(b, m, d)
BY DirectedStable DEF Directive

\* Matched: the match after each directive of a format.
Matches(b, c, format) ==
  CHOOSE m : m = [i \in 0..Len(format) |->
                    IF i = 0 THEN Advance(c, <<>>) ELSE Directive(b, m[i - 1], format[i])]

LEMMA MatchesExist ==
    ASSUME NEW b, NEW c, NEW format, Len(format) \in Nat
    PROVE  LET m == Matches(b, c, format)
           IN m = [i \in 0..Len(format) |->
                     IF i = 0 THEN Advance(c, <<>>) ELSE Directive(b, m[i - 1], format[i])]
<1>. DEFINE F(m, n) == m = [i \in 0..n |-> IF i = 0 THEN Advance(c, <<>>)
                                           ELSE Directive(b, m[i - 1], format[i])]
            S == {n \in Nat : \E m : F(m, n)}
<1>1. ASSUME NEW n \in Nat, \A k \in 0..(n - 1) : k \in S
      PROVE  n \in S
  <2>1. CASE n = 0
    <3>. DEFINE m == [i \in 0..0 |-> Advance(c, <<>>)]
    <3>1. \A i \in 0..0 : i = 0
      OBVIOUS
    <3>2. F(m, 0)
      BY <3>1
    <3>. HIDE DEF m, F
    <3>. QED BY <2>1, <3>2
  <2>2. CASE n # 0
    <3>1. n - 1 \in 0..(n - 1) /\ n - 1 \in Nat
      BY <2>2
    <3>2. PICK m : F(m, n - 1)
      BY <1>1, <3>1
    <3>. DEFINE g == [i \in 0..n |-> IF i = n THEN Directive(b, m[n - 1], format[n]) ELSE m[i]]
    <3>3. \A i \in 0..(n - 1) : g[i] = m[i]
      OBVIOUS
    <3>4. ASSUME NEW i \in 0..n
          PROVE  g[i] = IF i = 0 THEN Advance(c, <<>>) ELSE Directive(b, g[i - 1], format[i])
      <4>1. CASE i = n
        <5>1. g[i - 1] = m[n - 1]
          BY <3>1, <3>3, <4>1
        <5>2. g[i] = Directive(b, m[n - 1], format[n])
          BY <4>1
        <5>. HIDE DEF g
        <5>. QED BY <2>2, <4>1, <5>1, <5>2
      <4>2. CASE i # n
        <5>1. i \in 0..(n - 1)
          BY <4>2
        <5>2. m[i] = IF i = 0 THEN Advance(c, <<>>) ELSE Directive(b, m[i - 1], format[i])
          BY <3>2, <5>1
        <5>3. g[i] = m[i] /\ (i # 0 => g[i - 1] = m[i - 1])
          BY <3>3, <5>1
        <5>. HIDE DEF g
        <5>. QED BY <5>2, <5>3
      <4>. QED BY <4>1, <4>2
    <3>5. g = [i \in 0..n |-> g[i]]
      OBVIOUS
    <3>. HIDE DEF g
    <3>6. F(g, n)
      BY <3>4, <3>5
    <3>. HIDE DEF F
    <3>. QED BY <3>6
  <2>. QED BY <2>1, <2>2
<1>2. \A n \in Nat : n \in S
  <2>. HIDE DEF S
  <2>. QED BY <1>1, Upwards
<1>3. PICK m : F(m, Len(format))
  BY <1>2
<1>. DEFINE M == Matches(b, c, format)
<1>4. M = CHOOSE x : F(x, Len(format))
  BY DEF Matches
<1>5. F(M, Len(format))
  <2>. HIDE DEF F, M
  <2>. QED BY <1>3, <1>4
<1>. HIDE DEF M
<1>6. M = [i \in 0..Len(format) |-> IF i = 0 THEN Advance(c, <<>>)
                                     ELSE Directive(b, M[i - 1], format[i])]
  BY <1>5
<1>. QED BY <1>6 DEF M

LEMMA MatchesSteps ==
    ASSUME NEW b, NEW c, NEW format, Len(format) \in Nat
    PROVE  LET m == Matches(b, c, format)
           IN /\ Matched(b, c, format) = m[Len(format)]
              /\ m[0] = Advance(c, <<>>)
              /\ \A i \in 1..Len(format) : m[i] = Directive(b, m[i - 1], format[i])
<1>. DEFINE m == Matches(b, c, format)
<1>1. m = [i \in 0..Len(format) |-> IF i = 0 THEN Advance(c, <<>>)
                                    ELSE Directive(b, m[i - 1], format[i])]
  BY MatchesExist
<1>2. Matched(b, c, format) = m[Len(format)]
  BY DEF Matched, Matches
<1>. HIDE DEF m
<1>3. m[0] = Advance(c, <<>>)
  BY <1>1
<1>4. \A i \in 1..Len(format) : m[i] = Directive(b, m[i - 1], format[i])
  BY <1>1
<1>. QED BY <1>2, <1>3, <1>4 DEF m

LEMMA MatchedSound ==
    ASSUME NEW b \in Seq(STRING), NEW c \in 0..Len(b), NEW format, Len(format) \in Nat
    PROVE  LET m == Matches(b, c, format)
           IN \A i \in 0..Len(format) : MatchIn(m[i], b) /\ m[i].at \in c..Len(b)
<1>. DEFINE m == Matches(b, c, format)
            S == {i \in Nat : i <= Len(format) => MatchIn(m[i], b) /\ m[i].at \in c..Len(b)}
<1>1. Len(b) \in Nat
  BY LenProperties
<1>2. /\ m[0] = Advance(c, <<>>)
      /\ \A i \in 1..Len(format) : m[i] = Directive(b, m[i - 1], format[i])
  BY MatchesSteps
<1>. HIDE DEF m
<1>3. ASSUME NEW n \in Nat, \A k \in 0..(n - 1) : k \in S
      PROVE  n \in S
  <2>. SUFFICES ASSUME n <= Len(format)  PROVE MatchIn(m[n], b) /\ m[n].at \in c..Len(b)
    OBVIOUS
  <2>1. CASE n = 0
    BY <1>1, <1>2, <2>1 DEF MatchIn, Advance, Found3, Statuses
  <2>2. CASE n # 0
    <3>1. n - 1 \in 0..(n - 1) /\ n - 1 <= Len(format) /\ n \in 1..Len(format)
      BY <2>2
    <3>2. MatchIn(m[n - 1], b) /\ m[n - 1].at \in c..Len(b)
      BY <1>3, <3>1
    <3>3. Follows(m[n], m[n - 1], b)
      BY <1>2, <3>1, <3>2, DirectiveFollows
    <3>. QED BY <1>1, <3>2, <3>3 DEF Follows
  <2>. QED BY <2>1, <2>2
<1>4. \A n \in Nat : n \in S
  <2>. HIDE DEF S
  <2>. QED BY <1>3, Upwards
<1>. QED BY <1>4 DEF m

LEMMA MatchedStable ==
    ASSUME NEW b \in Seq(STRING), NEW u \in Seq(STRING), NEW c \in 0..Len(b),
           NEW format, Len(format) \in Nat
    PROVE  LET m == Matches(b, c, format)
               q == Matches(b \o u, c, format)
           IN \A i \in 0..Len(format) : m[i].status # "INCOMPLETE" => q[i] = m[i]
<1>. DEFINE m == Matches(b, c, format)
            q == Matches(b \o u, c, format)
            S == {i \in Nat : i <= Len(format) /\ m[i].status # "INCOMPLETE" => q[i] = m[i]}
<1>2. /\ m[0] = Advance(c, <<>>)
      /\ \A i \in 1..Len(format) : m[i] = Directive(b, m[i - 1], format[i])
  BY MatchesSteps
<1>3. /\ q[0] = Advance(c, <<>>)
      /\ \A i \in 1..Len(format) : q[i] = Directive(b \o u, q[i - 1], format[i])
  BY MatchesSteps
<1>4. \A i \in 0..Len(format) : MatchIn(m[i], b)
  BY MatchedSound
<1>. HIDE DEF m, q
<1>5. ASSUME NEW n \in Nat, \A k \in 0..(n - 1) : k \in S
      PROVE  n \in S
  <2>. SUFFICES ASSUME n <= Len(format), m[n].status # "INCOMPLETE"  PROVE q[n] = m[n]
    OBVIOUS
  <2>1. CASE n = 0
    BY <1>2, <1>3, <2>1
  <2>2. CASE n # 0
    <3>1. n - 1 \in 0..(n - 1) /\ n - 1 <= Len(format) /\ n \in 1..Len(format) /\ n - 1 \in 0..Len(format)
      BY <2>2
    <3>2. m[n] = Directive(b, m[n - 1], format[n]) /\ q[n] = Directive(b \o u, q[n - 1], format[n])
      BY <1>2, <1>3, <3>1
    <3>3. m[n - 1].status # "INCOMPLETE"
      BY <3>2 DEF Directive
    <3>4. q[n - 1] = m[n - 1] /\ MatchIn(m[n - 1], b)
      BY <1>4, <1>5, <3>1, <3>3
    <3>5. Directive(b \o u, m[n - 1], format[n]) = Directive(b, m[n - 1], format[n])
      BY <3>2, <3>4, DirectiveStable
    <3>. QED BY <3>2, <3>4, <3>5
  <2>. QED BY <2>1, <2>2
<1>6. \A n \in Nat : n \in S
  <2>. HIDE DEF S
  <2>. QED BY <1>5, Upwards
<1>7. \A i \in 0..Len(format) : m[i].status # "INCOMPLETE" => q[i] = m[i]
  BY <1>6
<1>. QED BY <1>7 DEF m, q

LEMMA VfmatchSound ==
    ASSUME NEW b \in Seq(STRING), NEW c \in 0..Len(b), NEW format, Len(format) \in Nat
    PROVE  LET m == vfmatch(b, c, format)
           IN /\ m.status \in Found3
              /\ m.at \in c..Len(b)
              /\ m.status # "OK" => m.at = c
<1>. DEFINE m == Matches(b, c, format)[Len(format)]
<1>1. Matched(b, c, format) = m /\ Len(b) \in Nat
  BY MatchesSteps, LenProperties
<1>2. MatchIn(m, b) /\ m.at \in c..Len(b)
  BY MatchedSound
<1>. HIDE DEF m
<1>3. vfmatch(b, c, format) = Restored(m, c)
  BY <1>1 DEF vfmatch
<1>4. Restored(m, c) = IF m.status = "OK" THEN m ELSE [status |-> m.status, at |-> c, out |-> m.out]
  BY <1>2 DEF Restored, MatchIn
<1>. QED BY <1>1, <1>2, <1>3, <1>4 DEF MatchIn

LEMMA VfmatchStable ==
    ASSUME NEW b \in Seq(STRING), NEW u \in Seq(STRING), NEW c \in 0..Len(b),
           NEW format, Len(format) \in Nat, vfmatch(b, c, format).status # "INCOMPLETE"
    PROVE  vfmatch(b \o u, c, format) = vfmatch(b, c, format)
<1>. DEFINE m == Matches(b, c, format)[Len(format)]
            q == Matches(b \o u, c, format)[Len(format)]
<1>1. Matched(b, c, format) = m /\ Matched(b \o u, c, format) = q
  BY MatchesSteps
<1>2. MatchIn(m, b)
  BY MatchedSound
<1>3. m.status # "INCOMPLETE" => q = m
  BY MatchedStable
<1>. HIDE DEF m, q
<1>4. m.status # "INCOMPLETE"
  BY <1>1, <1>2 DEF vfmatch, Restored, MatchIn
<1>. QED BY <1>1, <1>3, <1>4 DEF vfmatch
-------------------------------------------------------------------------------
(* The parser's record, and one step of parser_parse_headers.               *)

Fields == DOMAIN parser_init(FALSE, "NONE")
\* A record with the fields of a parser.
IsParser(p) == p = [f \in Fields |-> p[f]]

EntPositions == {"DETERMINE_READ_METHOD", "USING_CLEN", "USING_CHUNKED", "CHUNKY_BODY",
                 "CHUNKY_HEADERS", "UNTIL_CLOSE"}

\* A response parser that may be fed.
ParserIn(p) ==
    /\ IsParser(p)
    /\ p.msg \in Seq(STRING) /\ p.cursor \in 0..Len(p.msg) /\ p.chunk_size \in Nat
    /\ p.is_request = FALSE
    /\ p.ent_position \in EntPositions

\* The parser when more bytes have arrived.
More(p, u) == [p EXCEPT !.msg = @ \o u]
MoreOf(r, u) == R(r.status, More(r.p, u))

LEMMA FieldNames ==
    Fields = {"position", "ent_position", "msg", "cursor", "entity_start_position",
              "content_length", "chunk_size", "entity_length", "amount_discarded", "is_request",
              "request_method", "method", "version", "status_code", "url", "headers",
              "http_error_code", "valid_ssdp_notify_hack"}
BY DEF Fields, parser_init

LEMMA SameParser ==
    ASSUME NEW p, NEW q, IsParser(p), IsParser(q), \A f \in Fields : p[f] = q[f]
    PROVE  p = q
BY DEF IsParser

LEMMA MoreIn ==
    ASSUME NEW p, ParserIn(p), NEW u \in Seq(STRING)
    PROVE  /\ ParserIn(More(p, u))
           /\ More(p, u).msg = p.msg \o u
           /\ \A f \in Fields \ {"msg"} : More(p, u)[f] = p[f]
           /\ Len(More(p, u).msg) = Len(p.msg) + Len(u)
<1>1. /\ p.msg \o u \in Seq(STRING) /\ Len(p.msg) \in Nat /\ Len(u) \in Nat
      /\ Len(p.msg \o u) = Len(p.msg) + Len(u)
  BY Longer DEF ParserIn
<1>2. IsParser(More(p, u))
  BY DEF ParserIn, IsParser, More
<1>3. More(p, u).msg = p.msg \o u
  BY FieldNames DEF ParserIn, IsParser, More
<1>4. \A f \in Fields \ {"msg"} : More(p, u)[f] = p[f]
  BY DEF ParserIn, IsParser, More
<1>. QED BY <1>1, <1>2, <1>3, <1>4, FieldNames DEF ParserIn

\* The headers of the parser after a header: they depend on the headers alone.
LEMMA HeaderAdded ==
    ASSUME NEW p, IsParser(p), NEW q, IsParser(q), p.headers = q.headers, p.method = q.method,
           NEW name, NEW value
    PROVE  /\ IsParser(AddHeader(p, name, value))
           /\ \A f \in Fields \ {"headers", "method"} : AddHeader(p, name, value)[f] = p[f]
           /\ AddHeader(p, name, value).headers = AddHeader(q, name, value).headers
           /\ AddHeader(p, name, value).method = AddHeader(q, name, value).method
<1>. DEFINE same == httpmsg_find_hdr(p, name)
            P(x) == IF name = "SOAPACTION" THEN [x EXCEPT !.method = "SOAP_POST"] ELSE x
            H(x) == IF same = {}
                    THEN Append(x.headers, [name |-> name, value |-> IF value = <<>> THEN <<NUL>> ELSE value])
                    ELSE IF value = <<>> THEN x.headers
                    ELSE [x.headers EXCEPT ![Min(same)].value = @ \o <<", ">> \o value]
<1>1. httpmsg_find_hdr(q, name) = same
  BY DEF httpmsg_find_hdr
<1>2. ASSUME NEW x \in {p, q}
      PROVE  /\ IsParser(P(x)) /\ P(x).headers = x.headers
             /\ \A f \in Fields \ {"method"} : P(x)[f] = x[f]
             /\ P(x).method = IF name = "SOAPACTION" THEN "SOAP_POST" ELSE x.method
  BY <1>2, FieldNames DEF IsParser
<1>3. ASSUME NEW x \in {p, q}
      PROVE  AddHeader(x, name, value) =
               IF same = {}
               THEN [P(x) EXCEPT !.headers = Append(@, [name |-> name,
                                     value |-> IF value = <<>> THEN <<NUL>> ELSE value])]
               ELSE IF value = <<>> THEN P(x)
               ELSE [P(x) EXCEPT !.headers[Min(same)].value = @ \o <<", ">> \o value]
  <2>1. httpmsg_find_hdr(x, name) = same
    BY <1>1
  <2>. QED BY <2>1 DEF AddHeader
<1>4. ASSUME NEW x \in {p, q}
      PROVE  /\ IsParser(AddHeader(x, name, value))
             /\ \A f \in Fields \ {"headers"} : AddHeader(x, name, value)[f] = P(x)[f]
             /\ AddHeader(x, name, value).headers = H(x)
  <2>. HIDE DEF P, same
  <2>1. /\ IsParser(P(x)) /\ P(x).headers = x.headers
        /\ \A f \in Fields \ {"method"} : P(x)[f] = x[f]
    BY <1>2
  <2>2. CASE same = {}
    BY <1>3, <2>1, <2>2, FieldNames DEF IsParser
  <2>3. CASE same # {} /\ value = <<>>
    BY <1>3, <2>1, <2>3, FieldNames DEF IsParser
  <2>4. CASE same # {} /\ value # <<>>
    <3>. DEFINE a == [P(x).headers EXCEPT ![Min(same)].value = @ \o <<", ">> \o value]
    <3>1. AddHeader(x, name, value) = [P(x) EXCEPT !.headers = a]
      BY <1>3, <2>4
    <3>2. H(x) = a
      BY <2>1, <2>4
    <3>. HIDE DEF a, H
    <3>. QED BY <2>1, <3>1, <3>2, FieldNames DEF IsParser
  <2>. QED BY <2>2, <2>3, <2>4
<1>5. H(p) = H(q)
  OBVIOUS
<1>. HIDE DEF P, H
<1>. QED BY <1>2, <1>4, <1>5, FieldNames

\* One turn of parser_parse_headers.
HeaderStep(p) == HeadersFrom(p, scanner_get_token(p.msg, p.cursor))

\* The format of a header.
Blanked == <<" ", ":", " ", "%R", "%c">>

LEMMA HeaderStepCases ==
    ASSUME NEW p, ParserIn(p)
    PROVE  LET t == scanner_get_token(p.msg, p.cursor)
               m == vfmatch(p.msg, t.next, Blanked)
           IN HeaderStep(p) =
                IF t.status # "OK" THEN R(t.status, p)
                ELSE IF t.type = "CRLF"
                     THEN R("OK", [p EXCEPT !.cursor = t.next, !.position = "ENTITY"])
                ELSE IF t.type = "IDENTIFIER"
                     THEN IF m.status # "OK" THEN R(m.status, p)
                          ELSE R("CONTINUE", AddHeader(At(p, m), Text(t.text), m.out[1]))
                ELSE R("FAILURE", p)
<1>. DEFINE t == scanner_get_token(p.msg, p.cursor)
            m == vfmatch(p.msg, t.next, Blanked)
<1>. HIDE DEF t, m
<1>1. HeaderStep(p) = HeadersFrom(p, t)
  BY DEF HeaderStep, t
<1>2. ~(p.is_request /\ p.method = "POST")
  BY DEF ParserIn
<1>3. HeadersFrom(p, t) =
        IF t.status # "OK" THEN R(t.status, p)
        ELSE IF t.type = "CRLF"
             THEN R("OK", [p EXCEPT !.cursor = t.next, !.position = "ENTITY"])
        ELSE IF t.type = "IDENTIFIER" THEN TakesHeader(p, t, m)
        ELSE R("FAILURE", p)
  BY <1>2 DEF HeadersFrom, m, Blanked
<1>. QED BY <1>1, <1>3 DEF TakesHeader, t, m

LEMMA HeaderStepSound ==
    ASSUME NEW p, ParserIn(p)
    PROVE  LET r == HeaderStep(p)
           IN /\ r = R(r.status, r.p)
              /\ r.status \in {"OK", "CONTINUE", "INCOMPLETE", "NO_MATCH", "FAILURE"}
              /\ ParserIn(r.p) /\ r.p.msg = p.msg
              /\ r.p.ent_position = p.ent_position
              /\ r.p.cursor \in p.cursor..Len(p.msg)
              /\ r.status = "CONTINUE" => r.p.cursor > p.cursor /\ r.p.position = p.position
              /\ r.status = "OK" => r.p.position = "ENTITY"
              /\ r.status \in {"INCOMPLETE", "NO_MATCH"} => r.p = p
<1>. DEFINE t == scanner_get_token(p.msg, p.cursor)
            m == vfmatch(p.msg, t.next, Blanked)
            r == HeaderStep(p)
<1>1. /\ IsParser(p) /\ p.msg \in Seq(STRING) /\ p.cursor \in 0..Len(p.msg) /\ Len(p.msg) \in Nat
      /\ p.chunk_size \in Nat /\ p.is_request = FALSE /\ p.ent_position \in EntPositions
  BY LenProperties DEF ParserIn
<1>2. /\ t.status \in Statuses /\ t.next \in p.cursor..Len(p.msg)
      /\ t.status = "OK" => t.next > p.cursor
  BY <1>1, TokenSound DEF Statuses
<1>3. t.next \in 0..Len(p.msg)
  BY <1>1, <1>2
<1>. HIDE DEF t
<1>4. m.status \in Found3 /\ m.at \in t.next..Len(p.msg)
  <2>1. Len(Blanked) \in Nat
    BY DEF Blanked
  <2>. QED BY <1>1, <1>3, <2>1, VfmatchSound
<1>. HIDE DEF m
<1>5. r = IF t.status # "OK" THEN R(t.status, p)
          ELSE IF t.type = "CRLF"
               THEN R("OK", [p EXCEPT !.cursor = t.next, !.position = "ENTITY"])
          ELSE IF t.type = "IDENTIFIER"
               THEN IF m.status # "OK" THEN R(m.status, p)
                    ELSE R("CONTINUE", AddHeader(At(p, m), Text(t.text), m.out[1]))
          ELSE R("FAILURE", p)
  BY HeaderStepCases DEF t, m
<1>. HIDE DEF r
<1>. SUFFICES /\ r = R(r.status, r.p)
              /\ r.status \in {"OK", "CONTINUE", "INCOMPLETE", "NO_MATCH", "FAILURE"}
              /\ ParserIn(r.p) /\ r.p.msg = p.msg
              /\ r.p.ent_position = p.ent_position
              /\ r.p.cursor \in p.cursor..Len(p.msg)
              /\ r.status = "CONTINUE" => r.p.cursor > p.cursor /\ r.p.position = p.position
              /\ r.status = "OK" => r.p.position = "ENTITY"
              /\ r.status \in {"INCOMPLETE", "NO_MATCH"} => r.p = p
  BY DEF r
<1>6. CASE t.status = "OK" /\ t.type = "CRLF"
  <2>. DEFINE q == [p EXCEPT !.cursor = t.next, !.position = "ENTITY"]
  <2>1. r = R("OK", q)
    BY <1>5, <1>6
  <2>2. IsParser(q) /\ q.cursor = t.next /\ q.position = "ENTITY"
        /\ \A f \in Fields \ {"cursor", "position"} : q[f] = p[f]
    BY <1>1, FieldNames DEF IsParser
  <2>. HIDE DEF q
  <2>3. ParserIn(q) /\ q.msg = p.msg /\ q.ent_position = p.ent_position
    BY <1>1, <1>3, <2>2, FieldNames DEF ParserIn
  <2>. QED BY <1>2, <2>1, <2>2, <2>3 DEF R
<1>7. CASE t.status = "OK" /\ t.type = "IDENTIFIER" /\ m.status = "OK"
  <2>. DEFINE q == At(p, m)
              a == AddHeader(q, Text(t.text), m.out[1])
  <2>1. r = R("CONTINUE", a)
    BY <1>5, <1>7
  <2>2. IsParser(q) /\ q.cursor = m.at /\ \A f \in Fields \ {"cursor"} : q[f] = p[f]
    BY <1>1, FieldNames DEF IsParser, At
  <2>. HIDE DEF q
  <2>3. IsParser(a) /\ \A f \in Fields \ {"headers", "method"} : a[f] = q[f]
    BY <2>2, HeaderAdded
  <2>. HIDE DEF a
  <2>4. /\ a.cursor = m.at /\ a.msg = p.msg /\ a.ent_position = p.ent_position
        /\ a.position = p.position /\ a.chunk_size = p.chunk_size /\ a.is_request = p.is_request
    BY <2>2, <2>3, FieldNames
  <2>5. m.at \in p.cursor..Len(p.msg) /\ m.at > p.cursor /\ m.at \in 0..Len(p.msg)
    BY <1>1, <1>2, <1>4, <1>7
  <2>6. ParserIn(a)
    BY <1>1, <2>3, <2>4, <2>5 DEF ParserIn
  <2>. QED BY <2>1, <2>4, <2>5, <2>6 DEF R
<1>8. CASE ~(t.status = "OK" /\ t.type = "CRLF") /\ ~(t.status = "OK" /\ t.type = "IDENTIFIER" /\ m.status = "OK")
  <2>1. \E s \in {"INCOMPLETE", "NO_MATCH", "FAILURE"} : r = R(s, p)
    BY <1>2, <1>4, <1>5, <1>8 DEF Found3, Statuses
  <2>. QED BY <1>1, <2>1 DEF R, ParserIn
<1>. QED BY <1>6, <1>7, <1>8

LEMMA HeaderStepStable ==
    ASSUME NEW p, ParserIn(p), NEW u \in Seq(STRING), HeaderStep(p).status # "INCOMPLETE"
    PROVE  HeaderStep(More(p, u)) = MoreOf(HeaderStep(p), u)
<1>. DEFINE long == More(p, u)
            t == scanner_get_token(p.msg, p.cursor)
            m == vfmatch(p.msg, t.next, Blanked)
            r == HeaderStep(p)
<1>1. /\ IsParser(p) /\ p.msg \in Seq(STRING) /\ p.cursor \in 0..Len(p.msg) /\ Len(p.msg) \in Nat
  BY LenProperties DEF ParserIn
<1>2. /\ ParserIn(long) /\ IsParser(long) /\ long.msg = p.msg \o u
      /\ \A f \in Fields \ {"msg"} : long[f] = p[f]
      /\ long.cursor = p.cursor
  <2>1. /\ ParserIn(long) /\ long.msg = p.msg \o u
        /\ \A f \in Fields \ {"msg"} : long[f] = p[f]
    BY MoreIn
  <2>. HIDE DEF long
  <2>. QED BY <2>1, FieldNames DEF ParserIn
<1>3. t.next \in 0..Len(p.msg)
  <2>1. t.next \in p.cursor..Len(p.msg)
    BY <1>1, TokenSound
  <2>. QED BY <1>1, <2>1
<1>4. r = IF t.status # "OK" THEN R(t.status, p)
          ELSE IF t.type = "CRLF"
               THEN R("OK", [p EXCEPT !.cursor = t.next, !.position = "ENTITY"])
          ELSE IF t.type = "IDENTIFIER"
               THEN IF m.status # "OK" THEN R(m.status, p)
                    ELSE R("CONTINUE", AddHeader(At(p, m), Text(t.text), m.out[1]))
          ELSE R("FAILURE", p)
  BY HeaderStepCases
<1>5. t.status # "INCOMPLETE" /\ (t.status = "OK" /\ t.type = "IDENTIFIER" => m.status # "INCOMPLETE")
  <2>. HIDE DEF t, m, r
  <2>1. r.status # "INCOMPLETE"
    BY DEF r
  <2>2. t.status = "OK" /\ t.type = "IDENTIFIER" => t.type # "CRLF"
    OBVIOUS
  <2>. QED BY <1>4, <2>1, <2>2 DEF R
<1>6. scanner_get_token(long.msg, long.cursor) = t
  BY <1>1, <1>2, <1>5, TokenStable
<1>7. t.status = "OK" /\ t.type = "IDENTIFIER" => vfmatch(long.msg, t.next, Blanked) = m
  <2>1. Len(Blanked) \in Nat
    BY DEF Blanked
  <2>. HIDE DEF t
  <2>. QED BY <1>1, <1>2, <1>3, <1>5, <2>1, VfmatchStable
<1>. HIDE DEF long, t, m
<1>8. HeaderStep(long) =
          IF t.status # "OK" THEN R(t.status, long)
          ELSE IF t.type = "CRLF"
               THEN R("OK", [long EXCEPT !.cursor = t.next, !.position = "ENTITY"])
          ELSE IF t.type = "IDENTIFIER"
               THEN IF m.status # "OK" THEN R(m.status, long)
                    ELSE R("CONTINUE", AddHeader(At(long, m), Text(t.text), m.out[1]))
          ELSE R("FAILURE", long)
  <2>. DEFINE s == scanner_get_token(long.msg, long.cursor)
              w == vfmatch(long.msg, s.next, Blanked)
  <2>1. HeaderStep(long) =
          IF s.status # "OK" THEN R(s.status, long)
          ELSE IF s.type = "CRLF"
               THEN R("OK", [long EXCEPT !.cursor = s.next, !.position = "ENTITY"])
          ELSE IF s.type = "IDENTIFIER"
               THEN IF w.status # "OK" THEN R(w.status, long)
                    ELSE R("CONTINUE", AddHeader(At(long, w), Text(s.text), w.out[1]))
          ELSE R("FAILURE", long)
    BY <1>2, HeaderStepCases
  <2>2. s = t
    BY <1>6
  <2>3. t.status = "OK" /\ t.type = "IDENTIFIER" => w = m
    <3>. HIDE DEF s
    <3>. QED BY <1>7, <2>2
  <2>. HIDE DEF s, w
  <2>. QED BY <2>1, <2>2, <2>3
<1>. HIDE DEF r
<1>. SUFFICES HeaderStep(long) = MoreOf(r, u)
  BY DEF r, long
<1>9. CASE t.status = "OK" /\ t.type = "CRLF"
  <2>. DEFINE q == [p EXCEPT !.cursor = t.next, !.position = "ENTITY"]
              ql == [long EXCEPT !.cursor = t.next, !.position = "ENTITY"]
  <2>1. r = R("OK", q) /\ HeaderStep(long) = R("OK", ql)
    BY <1>4, <1>8, <1>9
  <2>2. ql = More(q, u)
    <3>1. IsParser(q) /\ IsParser(ql) /\ IsParser(More(q, u))
      BY <1>1, <1>2 DEF IsParser, More
    <3>2. \A f \in Fields : ql[f] = More(q, u)[f]
      BY <1>1, <1>2, FieldNames DEF IsParser, More
    <3>. HIDE DEF q, ql
    <3>. QED BY <3>1, <3>2, SameParser
  <2>. HIDE DEF q, ql
  <2>. QED BY <2>1, <2>2 DEF R, MoreOf
<1>10. CASE t.status = "OK" /\ t.type = "IDENTIFIER" /\ m.status = "OK"
  <2>. DEFINE q == At(p, m)
              ql == At(long, m)
              a == AddHeader(q, Text(t.text), m.out[1])
              al == AddHeader(ql, Text(t.text), m.out[1])
  <2>1. r = R("CONTINUE", a) /\ HeaderStep(long) = R("CONTINUE", al)
    BY <1>4, <1>8, <1>10
  <2>2. /\ IsParser(q) /\ \A f \in Fields \ {"cursor"} : q[f] = p[f]
        /\ IsParser(ql) /\ \A f \in Fields \ {"cursor"} : ql[f] = long[f]
        /\ ql.cursor = m.at /\ q.cursor = m.at
    BY <1>1, <1>2, FieldNames DEF IsParser, At
  <2>3. q.headers = ql.headers /\ q.method = ql.method /\ ql.msg = q.msg \o u
        /\ \A f \in Fields \ {"msg"} : q[f] = ql[f]
    BY <1>2, <2>2, FieldNames
  <2>. HIDE DEF q, ql
  <2>4. /\ IsParser(a) /\ \A f \in Fields \ {"headers", "method"} : a[f] = q[f]
        /\ IsParser(al) /\ \A f \in Fields \ {"headers", "method"} : al[f] = ql[f]
        /\ a.headers = al.headers /\ a.method = al.method
    BY <2>2, <2>3, HeaderAdded
  <2>. HIDE DEF a, al
  <2>5. al = More(a, u)
    <3>1. IsParser(More(a, u))
      BY <2>4 DEF IsParser, More
    <3>2. \A f \in Fields \ {"msg"} : More(a, u)[f] = a[f]
      BY <2>4 DEF IsParser, More
    <3>3. More(a, u).msg = a.msg \o u
      BY <2>4, FieldNames DEF IsParser, More
    <3>4. \A f \in Fields \ {"msg"} : al[f] = a[f]
      BY <2>3, <2>4, FieldNames
    <3>5. al.msg = a.msg \o u
      BY <2>3, <2>4, FieldNames
    <3>6. \A f \in Fields : al[f] = More(a, u)[f]
      BY <3>2, <3>3, <3>4, <3>5
    <3>. QED BY <2>4, <3>1, <3>6, SameParser
  <2>. QED BY <2>1, <2>5 DEF R, MoreOf
<1>11. CASE ~(t.status = "OK" /\ t.type = "CRLF") /\ ~(t.status = "OK" /\ t.type = "IDENTIFIER" /\ m.status = "OK")
  <2>1. \E s : r = R(s, p) /\ HeaderStep(long) = R(s, long)
    BY <1>4, <1>8, <1>11
  <2>. QED BY <2>1 DEF R, MoreOf, long
<1>. QED BY <1>9, <1>10, <1>11
-------------------------------------------------------------------------------
(* The loops of parser_parse_headers and parser_parse_entity: steps that    *)
(* are taken until one does not ask for the next.                           *)

Loops == {"lines", "parts"}
\* One turn of a loop.
Step(k, p) == IF k = "lines" THEN HeaderStep(p) ELSE EntityFrom(p)
NextStep(k, r) == IF r.status = "CONTINUE" THEN Step(k, r.p) ELSE r

IsIt(f, k, p, n) ==
  f = [i \in 0..n |-> IF i = 0 THEN R("CONTINUE", p) ELSE NextStep(k, f[i - 1])]
Its(k, p, n) == CHOOSE f : IsIt(f, k, p, n)
\* What the parser has come to after n steps.
It(k, p, n) == Its(k, p, n)[n]

LEMMA ItsExist ==
    ASSUME NEW k, NEW p
    PROVE  \A n \in Nat : IsIt(Its(k, p, n), k, p, n)
<1>. DEFINE S == {n \in Nat : \E f : IsIt(f, k, p, n)}
<1>1. ASSUME NEW n \in Nat, \A j \in 0..(n - 1) : j \in S
      PROVE  n \in S
  <2>1. CASE n = 0
    <3>. DEFINE m == [i \in 0..0 |-> R("CONTINUE", p)]
    <3>1. \A i \in 0..0 : i = 0
      OBVIOUS
    <3>2. IsIt(m, k, p, 0)
      BY <3>1 DEF IsIt
    <3>. HIDE DEF m
    <3>. QED BY <2>1, <3>2
  <2>2. CASE n # 0
    <3>1. n - 1 \in 0..(n - 1) /\ n - 1 \in Nat
      BY <2>2
    <3>2. PICK m : IsIt(m, k, p, n - 1)
      BY <1>1, <3>1
    <3>. DEFINE g == [i \in 0..n |-> IF i = n THEN NextStep(k, m[n - 1]) ELSE m[i]]
    <3>3. \A i \in 0..(n - 1) : g[i] = m[i]
      OBVIOUS
    <3>4. ASSUME NEW i \in 0..n
          PROVE  g[i] = IF i = 0 THEN R("CONTINUE", p) ELSE NextStep(k, g[i - 1])
      <4>1. CASE i = n
        <5>1. g[i - 1] = m[n - 1]
          BY <3>1, <3>3, <4>1
        <5>2. g[i] = NextStep(k, m[n - 1])
          BY <4>1
        <5>. HIDE DEF g
        <5>. QED BY <2>2, <4>1, <5>1, <5>2
      <4>2. CASE i # n
        <5>1. i \in 0..(n - 1)
          BY <4>2
        <5>2. m[i] = IF i = 0 THEN R("CONTINUE", p) ELSE NextStep(k, m[i - 1])
          BY <3>2, <5>1 DEF IsIt
        <5>3. g[i] = m[i] /\ (i # 0 => g[i - 1] = m[i - 1])
          BY <3>3, <5>1
        <5>. HIDE DEF g
        <5>. QED BY <5>2, <5>3
      <4>. QED BY <4>1, <4>2
    <3>5. g = [i \in 0..n |-> g[i]]
      OBVIOUS
    <3>. HIDE DEF g
    <3>6. IsIt(g, k, p, n)
      BY <3>4, <3>5 DEF IsIt
    <3>. QED BY <3>6
  <2>. QED BY <2>1, <2>2
<1>2. \A n \in Nat : n \in S
  <2>. HIDE DEF S
  <2>. QED BY <1>1, Upwards
<1>3. TAKE n \in Nat
<1>4. \E f : IsIt(f, k, p, n)
  BY <1>2
<1>. QED BY <1>4 DEF Its

LEMMA ItUnique ==
    ASSUME NEW k, NEW p, NEW n \in Nat, NEW f, IsIt(f, k, p, n), NEW m \in Nat, NEW g, IsIt(g, k, p, m)
    PROVE  \A i \in Nat : i <= n /\ i <= m => f[i] = g[i]
<1>. DEFINE S == {i \in Nat : i <= n /\ i <= m => f[i] = g[i]}
<1>1. \A i \in 0..n : f[i] = IF i = 0 THEN R("CONTINUE", p) ELSE NextStep(k, f[i - 1])
  BY DEF IsIt
<1>2. \A i \in 0..m : g[i] = IF i = 0 THEN R("CONTINUE", p) ELSE NextStep(k, g[i - 1])
  BY DEF IsIt
<1>3. ASSUME NEW i \in Nat, \A j \in 0..(i - 1) : j \in S
      PROVE  i \in S
  <2>. SUFFICES ASSUME i <= n, i <= m  PROVE f[i] = g[i]
    OBVIOUS
  <2>1. CASE i = 0
    BY <1>1, <1>2, <2>1
  <2>2. CASE i # 0
    <3>1. i - 1 \in 0..(i - 1) /\ i - 1 <= n /\ i - 1 <= m
      BY <2>2
    <3>2. f[i - 1] = g[i - 1]
      BY <1>3, <3>1
    <3>3. i \in 0..n /\ i \in 0..m
      OBVIOUS
    <3>. QED BY <1>1, <1>2, <2>2, <3>2, <3>3
  <2>. QED BY <2>1, <2>2
<1>4. \A i \in Nat : i \in S
  <2>. HIDE DEF S
  <2>. QED BY <1>3, Upwards
<1>. QED BY <1>4

LEMMA ItSteps ==
    ASSUME NEW k, NEW p
    PROVE  /\ It(k, p, 0) = R("CONTINUE", p)
           /\ \A n \in Nat : It(k, p, n + 1) = NextStep(k, It(k, p, n))
<1>1. It(k, p, 0) = R("CONTINUE", p)
  <2>1. IsIt(Its(k, p, 0), k, p, 0)
    BY ItsExist
  <2>. QED BY <2>1 DEF IsIt, It
<1>2. ASSUME NEW n \in Nat
      PROVE  It(k, p, n + 1) = NextStep(k, It(k, p, n))
  <2>. DEFINE f == Its(k, p, n)
              g == Its(k, p, n + 1)
  <2>1. IsIt(f, k, p, n) /\ IsIt(g, k, p, n + 1)
    BY ItsExist
  <2>2. It(k, p, n) = f[n] /\ It(k, p, n + 1) = g[n + 1]
    BY DEF It
  <2>. HIDE DEF f, g
  <2>3. f[n] = g[n]
    BY <2>1, ItUnique
  <2>4. g[n + 1] = NextStep(k, g[(n + 1) - 1]) /\ (n + 1) - 1 = n
    BY <2>1 DEF IsIt
  <2>. QED BY <2>2, <2>3, <2>4
<1>. QED BY <1>1, <1>2

LEMMA HeadersAreIt ==
    ASSUME NEW p, Len(p.msg) \in Nat
    PROVE  parser_parse_headers(p) = It("lines", p, Len(p.msg) + 1)
<1>. DEFINE N == Len(p.msg) + 1
            F(f) == f = [n \in 0..N |-> IF n = 0 THEN R("CONTINUE", p) ELSE NextHeader(f[n - 1])]
            f == CHOOSE x : F(x)
<1>1. \A r : NextHeader(r) = NextStep("lines", r)
  BY DEF NextHeader, NextStep, Step, HeaderStep
<1>2. \A x : F(x) <=> IsIt(x, "lines", p, N)
  BY <1>1 DEF IsIt
<1>3. N \in Nat
  OBVIOUS
<1>4. parser_parse_headers(p) = f[N]
  BY DEF parser_parse_headers
<1>5. F(f)
  <2>1. F(Its("lines", p, N))
    <3>. HIDE DEF F, N
    <3>. QED BY <1>2, <1>3, ItsExist
  <2>. HIDE DEF F
  <2>. QED BY <2>1
<1>. HIDE DEF F, f, N
<1>6. f[N] = Its("lines", p, N)[N]
  BY <1>2, <1>3, <1>5, ItsExist, ItUnique
<1>. QED BY <1>4, <1>6 DEF It, N

LEMMA EntityIsIt ==
    ASSUME NEW p, Len(p.msg) \in Nat
    PROVE  parser_parse_entity(p) = It("parts", p, Len(p.msg) + 2)
<1>. DEFINE N == Len(p.msg) + 2
            F(f) == f = [n \in 0..N |-> IF n = 0 THEN R("CONTINUE", p) ELSE NextPart(f[n - 1])]
            f == CHOOSE x : F(x)
<1>1. \A r : NextPart(r) = NextStep("parts", r)
  BY DEF NextPart, NextStep, Step
<1>2. \A x : F(x) <=> IsIt(x, "parts", p, N)
  BY <1>1 DEF IsIt
<1>3. N \in Nat
  OBVIOUS
<1>4. parser_parse_entity(p) = f[N]
  BY DEF parser_parse_entity
<1>5. F(f)
  <2>1. F(Its("parts", p, N))
    <3>. HIDE DEF F, N
    <3>. QED BY <1>2, <1>3, ItsExist
  <2>. HIDE DEF F
  <2>. QED BY <2>1
<1>. HIDE DEF F, f, N
<1>6. f[N] = Its("parts", p, N)[N]
  BY <1>2, <1>3, <1>5, ItsExist, ItUnique
<1>. QED BY <1>4, <1>6 DEF It, N

\* What has ended stays so.
LEMMA ItEnded ==
    ASSUME NEW k, NEW p, NEW n \in Nat, It(k, p, n).status # "CONTINUE"
    PROVE  \A j \in Nat : It(k, p, n + j) = It(k, p, n)
<1>. DEFINE S == {j \in Nat : It(k, p, n + j) = It(k, p, n)}
<1>1. ASSUME NEW j \in Nat, \A i \in 0..(j - 1) : i \in S
      PROVE  j \in S
  <2>1. CASE j = 0
    BY <2>1
  <2>2. CASE j # 0
    <3>1. j - 1 \in 0..(j - 1) /\ n + (j - 1) \in Nat /\ (n + (j - 1)) + 1 = n + j
      BY <2>2
    <3>2. It(k, p, n + (j - 1)) = It(k, p, n)
      BY <1>1, <3>1
    <3>3. It(k, p, (n + (j - 1)) + 1) = NextStep(k, It(k, p, n + (j - 1)))
      BY <3>1, ItSteps
    <3>. QED BY <3>1, <3>2, <3>3 DEF NextStep
  <2>. QED BY <2>1, <2>2
<1>2. \A j \in Nat : j \in S
  <2>. HIDE DEF S
  <2>. QED BY <1>1, Upwards
<1>. QED BY <1>2

\* The steps from where the parser has come to.
LEMMA ItGoesOn ==
    ASSUME NEW k, NEW p, NEW n \in Nat, NEW q, It(k, p, n) = R("CONTINUE", q)
    PROVE  \A j \in Nat : It(k, p, n + j) = It(k, q, j)
<1>. DEFINE S == {j \in Nat : It(k, p, n + j) = It(k, q, j)}
<1>1. ASSUME NEW j \in Nat, \A i \in 0..(j - 1) : i \in S
      PROVE  j \in S
  <2>1. CASE j = 0
    BY <2>1, ItSteps
  <2>2. CASE j # 0
    <3>1. j - 1 \in 0..(j - 1) /\ n + (j - 1) \in Nat /\ (n + (j - 1)) + 1 = n + j
          /\ j - 1 \in Nat /\ (j - 1) + 1 = j
      BY <2>2
    <3>2. It(k, p, n + (j - 1)) = It(k, q, j - 1)
      BY <1>1, <3>1
    <3>3. It(k, p, (n + (j - 1)) + 1) = NextStep(k, It(k, p, n + (j - 1)))
      BY <3>1, ItSteps
    <3>4. It(k, q, (j - 1) + 1) = NextStep(k, It(k, q, j - 1))
      BY <3>1, ItSteps
    <3>. QED BY <3>1, <3>2, <3>3, <3>4
  <2>. QED BY <2>1, <2>2
<1>2. \A j \in Nat : j \in S
  <2>. HIDE DEF S
  <2>. QED BY <1>1, Upwards
<1>. QED BY <1>2

\* Two parsers whose first steps agree agree for good.
LEMMA ItSameStep ==
    ASSUME NEW k, NEW p, NEW q, Step(k, p) = Step(k, q)
    PROVE  \A j \in Nat : It(k, p, j + 1) = It(k, q, j + 1)
<1>. DEFINE S == {j \in Nat : It(k, p, j + 1) = It(k, q, j + 1)}
<1>0. It(k, p, 0 + 1) = It(k, q, 0 + 1)
  <2>1. NextStep(k, R("CONTINUE", p)) = NextStep(k, R("CONTINUE", q))
    BY DEF NextStep, R
  <2>. QED BY <2>1, ItSteps
<1>1. ASSUME NEW j \in Nat, \A i \in 0..(j - 1) : i \in S
      PROVE  j \in S
  <2>1. CASE j = 0
    BY <1>0, <2>1
  <2>2. CASE j # 0
    <3>1. j - 1 \in 0..(j - 1) /\ (j - 1) + 1 = j
      BY <2>2
    <3>2. It(k, p, j) = It(k, q, j)
      BY <1>1, <3>1
    <3>. QED BY <3>2, ItSteps
  <2>. QED BY <2>1, <2>2
<1>2. \A j \in Nat : j \in S
  <2>. HIDE DEF S
  <2>. QED BY <1>1, Upwards
<1>. QED BY <1>2
-------------------------------------------------------------------------------
(* A loop resumes: fed with more, it comes to what it would have come to.   *)
(* Each step takes units off the buffer or moves on, so that the loop ends  *)
(* before the bound of the model does.                                      *)

\* The answers of a parser that waits for more.
Waits == {"INCOMPLETE", "NO_MATCH", "INCOMPLETE_ENTITY"}
\* The buffer may differ when the message is over: trailers are cut out as far as they had come.
Agree(a, b) == a = b \/ (a.status = "SUCCESS" /\ b.status = "SUCCESS")

\* The parser that waits may be fed, and comes to the same as if it had had all at once.
Resumes(k, p, r) ==
    /\ ParserIn(r.p) /\ r.p.position = p.position
    /\ \A u \in Seq(STRING) : Agree(Step(k, More(r.p, u)), Step(k, More(p, u)))
Repeats(k, p, r) == \A u \in Seq(STRING) : Step(k, More(p, u)) = MoreOf(r, u)

\* What is left to do.
Rank(k, p) ==
  Len(p.msg) - p.cursor
    + (IF k = "parts" /\ p.ent_position = "DETERMINE_READ_METHOD" THEN 1 ELSE 0)

\* A step is repeated or resumed when more has arrived.
StepGood(k, p) ==
    LET r == Step(k, p)
    IN /\ r = R(r.status, r.p)
       /\ r.status \in {"CONTINUE", "SUCCESS", "FAILURE"} \cup Waits
                         \cup (IF k = "lines" THEN {"OK"} ELSE {})
       /\ r.status = "CONTINUE" =>
            /\ ParserIn(r.p) /\ Rank(k, r.p) < Rank(k, p) /\ r.p.position = p.position
            /\ Repeats(k, p, r)
       /\ r.status \in Waits => Resumes(k, p, r)
       /\ k = "lines" =>
            /\ ParserIn(r.p) /\ r.p.msg = p.msg /\ r.p.ent_position = p.ent_position
            /\ r.p.cursor \in p.cursor..Len(p.msg)
            /\ r.status = "OK" => r.p.position = "ENTITY" /\ Repeats(k, p, r)
StepsGood(k) == \A p : ParserIn(p) => StepGood(k, p)

LEMMA RankIn ==
    ASSUME NEW k, NEW p, ParserIn(p)
    PROVE  Rank(k, p) \in Nat /\ Rank(k, p) \in 0..(Len(p.msg) + 1)
<1>1. Len(p.msg) \in Nat
  BY LenProperties DEF ParserIn
<1>. QED BY <1>1 DEF ParserIn, Rank

LEMMA LinesGood == StepsGood("lines")
<1>. SUFFICES ASSUME NEW p, ParserIn(p)  PROVE StepGood("lines", p)
  BY DEF StepsGood
<1>. DEFINE r == Step("lines", p)
<1>1. /\ r = R(r.status, r.p)
      /\ r.status \in {"OK", "CONTINUE", "INCOMPLETE", "NO_MATCH", "FAILURE"}
      /\ ParserIn(r.p) /\ r.p.msg = p.msg
      /\ r.p.ent_position = p.ent_position
      /\ r.p.cursor \in p.cursor..Len(p.msg)
      /\ r.status = "CONTINUE" => r.p.cursor > p.cursor /\ r.p.position = p.position
      /\ r.status = "OK" => r.p.position = "ENTITY"
      /\ r.status \in {"INCOMPLETE", "NO_MATCH"} => r.p = p
  BY HeaderStepSound DEF Step
<1>2. r.status # "INCOMPLETE" => Repeats("lines", p, r)
  BY HeaderStepStable DEF Step, Repeats
<1>. HIDE DEF r
<1>3. Len(p.msg) \in Nat /\ p.cursor \in 0..Len(p.msg)
  BY LenProperties DEF ParserIn
<1>4. r.status = "CONTINUE" => Rank("lines", r.p) < Rank("lines", p)
  BY <1>1, <1>3 DEF Rank
<1>5. r.status \in Waits => Resumes("lines", p, r)
  BY <1>1 DEF Waits, Resumes, Agree
<1>. QED BY <1>1, <1>2, <1>4, <1>5 DEF StepGood, Waits, r

\* The parser after as many steps as it takes.
Run(k, p) == It(k, p, Rank(k, p) + 1)

LEMMA FirstIs ==
    ASSUME NEW k, NEW p
    PROVE  It(k, p, 1) = Step(k, p)
<1>1. It(k, p, 0 + 1) = NextStep(k, R("CONTINUE", p))
  BY ItSteps
<1>. QED BY <1>1 DEF NextStep, R

LEMMA RunEnds ==
    ASSUME NEW k, StepsGood(k)
    PROVE  \A p : ParserIn(p) => Run(k, p).status # "CONTINUE"
<1>. DEFINE S == {n \in Nat : \A p : ParserIn(p) /\ Rank(k, p) = n => It(k, p, n + 1).status # "CONTINUE"}
<1>1. ASSUME NEW n \in Nat, \A j \in 0..(n - 1) : j \in S
      PROVE  n \in S
  <2>. SUFFICES ASSUME NEW p, ParserIn(p), Rank(k, p) = n
                PROVE  It(k, p, n + 1).status # "CONTINUE"
    OBVIOUS
  <2>. DEFINE r == Step(k, p)
  <2>1. r = R(r.status, r.p) /\ (r.status = "CONTINUE" => ParserIn(r.p) /\ Rank(k, r.p) < n)
    BY DEF StepsGood, StepGood
  <2>2. It(k, p, 1) = r
    BY FirstIs
  <2>. HIDE DEF r
  <2>3. CASE r.status # "CONTINUE"
    <3>1. It(k, p, 1 + n) = It(k, p, 1)
      BY <2>2, <2>3, ItEnded
    <3>2. 1 + n = n + 1
      OBVIOUS
    <3>. QED BY <2>2, <2>3, <3>1, <3>2
  <2>4. CASE r.status = "CONTINUE"
    <3>. DEFINE q == r.p
                j == Rank(k, q)
    <3>1. j \in Nat /\ j \in 0..(n - 1) /\ n - (j + 1) \in Nat /\ j + 1 \in Nat
          /\ 1 + n = n + 1 /\ (j + 1) + (n - (j + 1)) = n
      BY <2>1, <2>4, RankIn
    <3>2. It(k, q, j + 1).status # "CONTINUE"
      BY <1>1, <2>1, <2>4, <3>1
    <3>3. It(k, p, 1) = R("CONTINUE", q)
      BY <2>1, <2>2, <2>4
    <3>. HIDE DEF q, j
    <3>4. It(k, p, 1 + n) = It(k, q, n)
      BY <3>3, ItGoesOn
    <3>5. It(k, q, (j + 1) + (n - (j + 1))) = It(k, q, j + 1)
      BY <3>1, <3>2, ItEnded
    <3>. QED BY <3>1, <3>2, <3>4, <3>5
  <2>. QED BY <2>3, <2>4
<1>2. \A n \in Nat : n \in S
  <2>. HIDE DEF S
  <2>. QED BY <1>1, Upwards
<1>. QED BY <1>2, RankIn DEF Run

LEMMA RunEnough ==
    ASSUME NEW k, StepsGood(k), NEW p, ParserIn(p), NEW n \in Nat, n > Rank(k, p)
    PROVE  It(k, p, n) = Run(k, p)
<1>1. Run(k, p).status # "CONTINUE"
  BY RunEnds
<1>2. Rank(k, p) + 1 \in Nat /\ n - (Rank(k, p) + 1) \in Nat /\ (Rank(k, p) + 1) + (n - (Rank(k, p) + 1)) = n
  BY RankIn
<1>3. It(k, p, (Rank(k, p) + 1) + (n - (Rank(k, p) + 1))) = It(k, p, Rank(k, p) + 1)
  BY <1>1, <1>2, ItEnded DEF Run
<1>. QED BY <1>2, <1>3 DEF Run

LEMMA RunUnfolds ==
    ASSUME NEW k, StepsGood(k), NEW p, ParserIn(p)
    PROVE  Run(k, p) = IF Step(k, p).status = "CONTINUE" THEN Run(k, Step(k, p).p) ELSE Step(k, p)
<1>. DEFINE r == Step(k, p)
<1>1. r = R(r.status, r.p) /\ (r.status = "CONTINUE" => ParserIn(r.p) /\ Rank(k, r.p) < Rank(k, p))
  BY DEF StepsGood, StepGood
<1>2. It(k, p, 1) = r
  BY FirstIs
<1>. HIDE DEF r
<1>3. Rank(k, p) \in Nat /\ Rank(k, p) + 1 = 1 + Rank(k, p)
  BY RankIn
<1>4. CASE r.status # "CONTINUE"
  <2>1. It(k, p, 1 + Rank(k, p)) = It(k, p, 1)
    BY <1>2, <1>3, <1>4, ItEnded
  <2>. QED BY <1>2, <1>3, <1>4, <2>1 DEF Run, r
<1>5. CASE r.status = "CONTINUE"
  <2>1. It(k, p, 1) = R("CONTINUE", r.p)
    BY <1>1, <1>2, <1>5
  <2>2. It(k, p, 1 + Rank(k, p)) = It(k, r.p, Rank(k, p))
    BY <1>3, <2>1, ItGoesOn
  <2>3. It(k, r.p, Rank(k, p)) = Run(k, r.p)
    BY <1>1, <1>3, <1>5, RunEnough
  <2>. QED BY <1>3, <1>5, <2>2, <2>3 DEF Run, r
<1>. QED BY <1>4, <1>5

LEMMA RunSame ==
    ASSUME NEW k, StepsGood(k), NEW p, ParserIn(p), NEW q, ParserIn(q), Agree(Step(k, p), Step(k, q))
    PROVE  Agree(Run(k, p), Run(k, q))
<1>1. Run(k, p) = IF Step(k, p).status = "CONTINUE" THEN Run(k, Step(k, p).p) ELSE Step(k, p)
  BY RunUnfolds
<1>2. Run(k, q) = IF Step(k, q).status = "CONTINUE" THEN Run(k, Step(k, q).p) ELSE Step(k, q)
  BY RunUnfolds
<1>. QED BY <1>1, <1>2 DEF Agree

\* So is the loop.
RunGood(k, p) ==
    LET r == Run(k, p)
    IN /\ r = R(r.status, r.p)
       /\ r.status \in {"SUCCESS", "FAILURE"} \cup Waits \cup (IF k = "lines" THEN {"OK"} ELSE {})
       /\ r.status \in Waits =>
            /\ ParserIn(r.p) /\ r.p.position = p.position
            /\ \A u \in Seq(STRING) : Agree(Run(k, More(r.p, u)), Run(k, More(p, u)))
       /\ k = "lines" =>
            /\ ParserIn(r.p) /\ r.p.msg = p.msg /\ r.p.ent_position = p.ent_position
            /\ r.p.cursor \in p.cursor..Len(p.msg)
            /\ r.status = "OK" =>
                 r.p.position = "ENTITY" /\ \A u \in Seq(STRING) : Run(k, More(p, u)) = MoreOf(r, u)

LEMMA RunsGood ==
    ASSUME NEW k, StepsGood(k)
    PROVE  \A p : ParserIn(p) => RunGood(k, p)
<1>. DEFINE S == {n \in Nat : \A p : ParserIn(p) /\ Rank(k, p) = n => RunGood(k, p)}
<1>1. ASSUME NEW n \in Nat, \A j \in 0..(n - 1) : j \in S
      PROVE  n \in S
  <2>. SUFFICES ASSUME NEW p, ParserIn(p), Rank(k, p) = n  PROVE RunGood(k, p)
    OBVIOUS
  <2>. DEFINE r == Step(k, p)
  <2>1. StepGood(k, p)
    BY DEF StepsGood
  <2>2. Run(k, p) = IF r.status = "CONTINUE" THEN Run(k, r.p) ELSE r
    BY RunUnfolds
  <2>3. \A u \in Seq(STRING) : ParserIn(More(p, u))
    BY MoreIn
  <2>4. \A u \in Seq(STRING) : Run(k, More(p, u)) =
           IF Step(k, More(p, u)).status = "CONTINUE" THEN Run(k, Step(k, More(p, u)).p)
           ELSE Step(k, More(p, u))
    BY <2>3, RunUnfolds
  <2>5. CASE r.status = "CONTINUE"
    <3>. DEFINE q == r.p
    <3>1. /\ ParserIn(q) /\ Rank(k, q) < n /\ q.position = p.position
          /\ Repeats(k, p, r)
          /\ k = "lines" => /\ q.msg = p.msg /\ q.ent_position = p.ent_position
                            /\ q.cursor \in p.cursor..Len(p.msg)
      BY <2>1, <2>5 DEF StepGood
    <3>2. RunGood(k, q)
      <4>1. Rank(k, q) \in 0..(n - 1)
        BY <3>1, RankIn
      <4>2. Rank(k, q) \in S
        BY <1>1, <4>1
      <4>. QED BY <3>1, <4>2
    <3>3. Run(k, p) = Run(k, q)
      BY <2>2, <2>5
    <3>4. \A u \in Seq(STRING) : Run(k, More(p, u)) = Run(k, More(q, u))
      <4>. SUFFICES ASSUME NEW u \in Seq(STRING)  PROVE Run(k, More(p, u)) = Run(k, More(q, u))
        OBVIOUS
      <4>1. Step(k, More(p, u)) = MoreOf(r, u)
        BY <3>1 DEF Repeats
      <4>2. MoreOf(r, u).status = "CONTINUE" /\ MoreOf(r, u).p = More(q, u)
        BY <2>5 DEF MoreOf, R
      <4>. HIDE DEF r, q
      <4>. QED BY <2>4, <4>1, <4>2
    <3>5. Len(p.msg) \in Nat /\ p.cursor \in 0..Len(p.msg)
      BY LenProperties DEF ParserIn
    <3>. HIDE DEF r, q
    <3>. DEFINE w == Run(k, p)
    <3>6. /\ w = R(w.status, w.p)
          /\ w.status \in {"SUCCESS", "FAILURE"} \cup Waits \cup (IF k = "lines" THEN {"OK"} ELSE {})
      BY <3>2, <3>3 DEF RunGood
    <3>7. w.status \in Waits =>
            /\ ParserIn(w.p) /\ w.p.position = p.position
            /\ \A u \in Seq(STRING) : Agree(Run(k, More(w.p, u)), Run(k, More(p, u)))
      BY <3>1, <3>2, <3>3, <3>4 DEF RunGood
    <3>8. k = "lines" =>
            /\ ParserIn(w.p) /\ w.p.msg = p.msg /\ w.p.ent_position = p.ent_position
            /\ w.p.cursor \in q.cursor..Len(q.msg)
      BY <3>1, <3>2, <3>3 DEF RunGood
    <3>9. k = "lines" /\ w.status = "OK" =>
                 w.p.position = "ENTITY" /\ \A u \in Seq(STRING) : Run(k, More(p, u)) = MoreOf(w, u)
      BY <3>2, <3>3, <3>4 DEF RunGood
    <3>. HIDE DEF w
    <3>10. k = "lines" => w.p.cursor \in p.cursor..Len(p.msg)
      BY <3>1, <3>5, <3>8
    <3>. QED BY <3>6, <3>7, <3>8, <3>9, <3>10 DEF RunGood, w
  <2>6. CASE r.status # "CONTINUE"
    <3>1. Run(k, p) = r
      BY <2>2, <2>6
    <3>. HIDE DEF r
    <3>2. /\ r = R(r.status, r.p)
          /\ r.status \in {"SUCCESS", "FAILURE"} \cup Waits \cup (IF k = "lines" THEN {"OK"} ELSE {})
          /\ r.status \in Waits => Resumes(k, p, r)
          /\ k = "lines" =>
            /\ ParserIn(r.p) /\ r.p.msg = p.msg /\ r.p.ent_position = p.ent_position
            /\ r.p.cursor \in p.cursor..Len(p.msg)
            /\ r.status = "OK" => r.p.position = "ENTITY" /\ Repeats(k, p, r)
      BY <2>1, <2>6 DEF StepGood, r
    <3>3. r.status \in Waits =>
            /\ ParserIn(r.p) /\ r.p.position = p.position
            /\ \A u \in Seq(STRING) : Agree(Run(k, More(r.p, u)), Run(k, More(p, u)))
      <4>. SUFFICES ASSUME r.status \in Waits, NEW u \in Seq(STRING)
                    PROVE  Agree(Run(k, More(r.p, u)), Run(k, More(p, u)))
        BY <3>2 DEF Resumes
      <4>1. ParserIn(r.p) /\ Agree(Step(k, More(r.p, u)), Step(k, More(p, u)))
        BY <3>2 DEF Resumes
      <4>2. ParserIn(More(r.p, u)) /\ ParserIn(More(p, u))
        BY <4>1, MoreIn
      <4>. QED BY <4>1, <4>2, RunSame
    <3>4. k = "lines" /\ r.status = "OK" => \A u \in Seq(STRING) : Run(k, More(p, u)) = MoreOf(r, u)
      <4>. SUFFICES ASSUME k = "lines", r.status = "OK", NEW u \in Seq(STRING)
                    PROVE  Run(k, More(p, u)) = MoreOf(r, u)
        OBVIOUS
      <4>1. Step(k, More(p, u)) = MoreOf(r, u)
        BY <3>2 DEF Repeats
      <4>2. MoreOf(r, u).status # "CONTINUE"
        BY DEF MoreOf, R
      <4>. QED BY <2>4, <4>1, <4>2
    <3>. QED BY <3>1, <3>2, <3>3, <3>4 DEF RunGood
  <2>. QED BY <2>5, <2>6
<1>2. \A n \in Nat : n \in S
  <2>. HIDE DEF S
  <2>. QED BY <1>1, Upwards
<1>. QED BY <1>2, RankIn

\* What parser_parse_headers comes to.
LEMMA HeadersGood ==
    ASSUME NEW p, ParserIn(p)
    PROVE  RunGood("lines", p) /\ parser_parse_headers(p) = Run("lines", p)
<1>1. Len(p.msg) \in Nat /\ Len(p.msg) + 1 \in Nat /\ Len(p.msg) + 1 > Rank("lines", p)
  <2>1. Len(p.msg) \in Nat /\ p.cursor \in 0..Len(p.msg)
    BY LenProperties DEF ParserIn
  <2>. QED BY <2>1 DEF Rank
<1>2. parser_parse_headers(p) = It("lines", p, Len(p.msg) + 1)
  BY <1>1, HeadersAreIt
<1>. QED BY <1>1, <1>2, LinesGood, RunEnough, RunsGood
-------------------------------------------------------------------------------
(* Cutting units out of the message.                                        *)

\* What is appended stands behind what was there.
LEMMA LongerTail ==
    ASSUME NEW b \in Seq(STRING), NEW u \in Seq(STRING)
    PROVE  \A k \in 1..Len(u) : (b \o u)[Len(b) + k] = u[k]
<1>1. TAKE k \in 1..Len(u)
<1>2. Len(b) \in Nat /\ Len(u) \in Nat
  BY LenProperties
<1>3. Len(b) + k \in 1..Len(b) + Len(u) /\ ~(Len(b) + k <= Len(b)) /\ (Len(b) + k) - Len(b) = k
  BY <1>2
<1>4. (b \o u)[Len(b) + k] =
        IF Len(b) + k <= Len(b) THEN b[Len(b) + k] ELSE u[(Len(b) + k) - Len(b)]
  BY <1>3, ConcatProperties
<1>. QED BY <1>3, <1>4

LEMMA DeletedSound ==
    ASSUME NEW b \in Seq(STRING), NEW at \in Nat, NEW n \in Nat, at + n <= Len(b)
    PROVE  Deleted(b, at, n) \in Seq(STRING) /\ Len(Deleted(b, at, n)) = Len(b) - n
<1>1. Len(b) \in Nat
  BY LenProperties
<1>. DEFINE x == SubSeq(b, 1, at)
            y == SubSeq(b, at + n + 1, Len(b))
<1>2. x \in Seq(STRING) /\ Len(x) = at
  <2>1. \A i \in 1..at : b[i] \in STRING
    BY <1>1
  <2>. QED BY <1>1, <2>1, SubSeqProperties
<1>3. y \in Seq(STRING) /\ Len(y) = Len(b) - (at + n)
  <2>1. \A i \in (at + n + 1)..Len(b) : b[i] \in STRING
    BY <1>1
  <2>. QED BY <1>1, <2>1, SubSeqProperties
<1>4. Deleted(b, at, n) = x \o y
  BY DEF Deleted
<1>. HIDE DEF x, y
<1>5. x \o y \in Seq(STRING) /\ Len(x \o y) = Len(x) + Len(y)
  BY <1>2, <1>3, Longer
<1>6. Len(x) + Len(y) = Len(b) - n
  BY <1>1, <1>2, <1>3
<1>. HIDE DEF x, y
<1>. QED BY <1>4, <1>5, <1>6

LEMMA Regrouped ==
    ASSUME NEW x \in Seq(STRING), NEW y \in Seq(STRING), NEW z \in Seq(STRING)
    PROVE  x \o (y \o z) = (x \o y) \o z
BY ConcatAssociative

LEMMA TailIndex ==
    ASSUME NEW k \in Nat, NEW head \in Nat, NEW tail \in Nat, NEW all \in Nat, NEW cut \in Nat,
           ~(k <= head), k <= head + tail, head + cut = all
    PROVE  k - head \in 1..tail /\ all + (k - head) = cut + k /\ head + (k - head) = k
OBVIOUS

\* Units are cut out before or after the rest of the message has arrived.
LEMMA DeletedLonger ==
    ASSUME NEW b \in Seq(STRING), NEW u \in Seq(STRING), NEW at \in Nat, NEW n \in Nat, at + n <= Len(b)
    PROVE  Deleted(b \o u, at, n) = Deleted(b, at, n) \o u
<1>. DEFINE long == b \o u
            x == SubSeq(b, 1, at)
            y == SubSeq(b, at + n + 1, Len(b))
            z == SubSeq(long, at + n + 1, Len(long))
<1>1. /\ long \in Seq(STRING) /\ Len(b) \in Nat /\ Len(u) \in Nat
      /\ Len(long) = Len(b) + Len(u)
      /\ \A k \in 1..Len(b) : long[k] = b[k]
      /\ \A k \in 1..Len(u) : long[Len(b) + k] = u[k]
  BY Longer, LongerTail
<1>2. SubSeq(long, 1, at) = x
  <2>1. 1 \in 1..Len(b) + 1 /\ at \in 0..Len(b)
    BY <1>1
  <2>. QED BY <2>1, LongerSubSeq
<1>3. x \in Seq(STRING) /\ y \in Seq(STRING) /\ Len(y) = Len(b) - (at + n)
      /\ \A k \in 1..Len(y) : y[k] = b[at + n + k]
  <2>1. \A i \in 1..at : b[i] \in STRING
    BY <1>1
  <2>2. \A i \in (at + n + 1)..Len(b) : b[i] \in STRING
    BY <1>1
  <2>3. x \in Seq(STRING)
    BY <1>1, <2>1, SubSeqProperties
  <2>4. /\ y \in Seq(STRING)
        /\ Len(y) = IF at + n + 1 <= Len(b) THEN Len(b) - (at + n + 1) + 1 ELSE 0
        /\ \A k \in 1..(Len(b) - (at + n + 1) + 1) : y[k] = b[(at + n + 1) + k - 1]
    BY <1>1, <2>2, SubSeqProperties
  <2>. HIDE DEF y
  <2>5. Len(y) = Len(b) - (at + n)
    BY <1>1, <2>4
  <2>6. \A k \in 1..Len(y) : k \in 1..(Len(b) - (at + n + 1) + 1) /\ (at + n + 1) + k - 1 = at + n + k
    BY <1>1, <2>5
  <2>. QED BY <2>3, <2>4, <2>5, <2>6
<1>. HIDE DEF long
<1>4. z \in Seq(STRING) /\ Len(z) = Len(long) - (at + n)
      /\ \A k \in 1..Len(z) : z[k] = long[at + n + k]
  <2>1. \A i \in (at + n + 1)..Len(long) : long[i] \in STRING
    BY <1>1
  <2>2. /\ z \in Seq(STRING)
        /\ Len(z) = IF at + n + 1 <= Len(long) THEN Len(long) - (at + n + 1) + 1 ELSE 0
        /\ \A k \in 1..(Len(long) - (at + n + 1) + 1) : z[k] = long[(at + n + 1) + k - 1]
    BY <1>1, <2>1, SubSeqProperties
  <2>. HIDE DEF z
  <2>3. Len(z) = Len(long) - (at + n)
    BY <1>1, <2>2
  <2>4. \A k \in 1..Len(z) : k \in 1..(Len(long) - (at + n + 1) + 1) /\ (at + n + 1) + k - 1 = at + n + k
    BY <1>1, <2>3
  <2>. QED BY <2>2, <2>3, <2>4
<1>. HIDE DEF x, y, z
<1>5. /\ y \o u \in Seq(STRING) /\ Len(y \o u) = Len(y) + Len(u)
      /\ \A k \in 1..Len(y) : (y \o u)[k] = y[k]
      /\ \A k \in 1..Len(u) : (y \o u)[Len(y) + k] = u[k]
  BY <1>3, Longer, LongerTail
<1>6. z = y \o u
  <2>1. Len(z) = Len(y \o u)
    BY <1>1, <1>3, <1>4, <1>5
  <2>2. ASSUME NEW k \in 1..Len(z)
        PROVE  z[k] = (y \o u)[k]
    <3>0. k \in Nat /\ k >= 1 /\ k <= Len(z) /\ Len(y) \in Nat /\ Len(z) = Len(y) + Len(u)
          /\ at + n + k \in Nat /\ Len(y) + (at + n) = Len(b)
      BY <1>1, <1>3, <1>4
    <3>1. CASE k <= Len(y)
      <4>1. k \in 1..Len(y) /\ at + n + k \in 1..Len(b)
        BY <1>1, <3>0, <3>1
      <4>. QED BY <1>1, <1>3, <1>4, <1>5, <4>1
    <3>2. CASE ~(k <= Len(y))
      <4>1. Len(y) \in Nat /\ Len(u) \in Nat /\ Len(b) \in Nat /\ at + n \in Nat
            /\ k <= Len(y) + Len(u) /\ Len(y) + (at + n) = Len(b)
        BY <1>1, <3>0
      <4>. DEFINE j == k - Len(y)
      <4>4. j \in 1..Len(u)
        BY <3>0, <3>2, <4>1, TailIndex
      <4>5. Len(b) + j = (at + n) + k /\ Len(y) + j = k
        BY <3>0, <3>2, <4>1, TailIndex
      <4>. HIDE DEF j
      <4>2. long[Len(b) + j] = u[j] /\ (y \o u)[Len(y) + j] = u[j]
        BY <1>1, <1>5, <4>4
      <4>3. z[k] = long[at + n + k]
        BY <1>4
      <4>. QED BY <4>2, <4>3, <4>5
    <3>. QED BY <3>1, <3>2
  <2>. QED BY <1>4, <1>5, <2>1, <2>2, SeqEqual
<1>7. x \o (y \o u) = (x \o y) \o u
  BY <1>3, Regrouped
<1>8. Deleted(long, at, n) = x \o z
  BY <1>2 DEF Deleted, z
<1>9. Deleted(b, at, n) = x \o y
  BY DEF Deleted, x, y
<1>. QED BY <1>6, <1>7, <1>8, <1>9 DEF long

LEMMA HeadKept ==
    ASSUME NEW d, NEW x
    PROVE  Append(<<d>>, x)[1] = d
<1>. DEFINE S == {d, x}
<1>1. <<d>> \in Seq(S) /\ Len(<<d>>) = 1 /\ x \in S /\ <<d>>[1] = d
  OBVIOUS
<1>. HIDE DEF S
<1>. QED BY <1>1, AppendProperties

\* The size line of a chunk takes at least a unit and holds a number.
LEMMA SizeMatched ==
    ASSUME NEW b \in Seq(STRING), NEW c \in 0..Len(b),
           vfmatch(b, c, <<"%x", "%L", "%c">>).status = "OK"
    PROVE  LET m == vfmatch(b, c, <<"%x", "%L", "%c">>)
           IN m.at \in (c + 1)..Len(b) /\ m.out[1] \in Nat
<1>. DEFINE format == <<"%x", "%L", "%c">>
            m == Matches(b, c, format)
            v == vfmatch(b, c, format)
<1>1. Len(format) = 3 /\ format[1] = "%x" /\ format[2] = "%L" /\ format[3] = "%c" /\ Len(b) \in Nat
  BY LenProperties
<1>2. /\ Matched(b, c, format) = m[3]
      /\ m[0] = Advance(c, <<>>)
      /\ m[1] = Directive(b, m[0], "%x") /\ m[2] = Directive(b, m[1], "%L")
      /\ m[3] = Directive(b, m[2], "%c")
  <2>1. /\ Matched(b, c, format) = m[Len(format)]
        /\ m[0] = Advance(c, <<>>)
        /\ \A i \in 1..Len(format) : m[i] = Directive(b, m[i - 1], format[i])
    BY <1>1, MatchesSteps, SMTT(30)
  <2>. HIDE DEF m, format
  <2>. QED BY <1>1, <2>1
<1>3. v.status = "OK" => v = m[3] /\ m[3].status = "OK"
  <2>1. v = Restored(m[3], c)
    BY <1>2 DEF vfmatch
  <2>2. MatchIn(m[3], b)
    <3>1. 3 \in 0..Len(format) /\ Len(format) \in Nat
      BY <1>1
    <3>2. \A i \in 0..Len(format) : MatchIn(m[i], b)
      BY <3>1, MatchedSound
    <3>. HIDE DEF m, format
    <3>. QED BY <3>1, <3>2
  <2>. HIDE DEF m, v
  <2>. QED BY <2>1, <2>2 DEF Restored, MatchIn
<1>. HIDE DEF format, m
<1>4. v.status = "OK"
  BY DEF v, format
<1>. HIDE DEF v
<1>5. MatchIn(m[0], b) /\ m[0].at = c /\ m[0].status = "OK" /\ m[0].out = <<>>
  BY <1>2, <1>1 DEF Advance, MatchIn, Found3, Statuses
<1>6. Follows(m[1], m[0], b)
  BY <1>2, <1>5, DirectiveFollows
<1>7. Follows(m[2], m[1], b)
  BY <1>2, <1>6, DirectiveFollows DEF Follows
<1>8. Follows(m[3], m[2], b)
  BY <1>2, <1>7, DirectiveFollows DEF Follows
<1>9. m[1].status = "OK" /\ m[2].status = "OK"
  BY <1>2, <1>3, <1>4 DEF Directive
<1>10. m[1].at > c /\ \E d \in Nat : m[1].out = Append(<<>>, d)
  <2>. DEFINE t == scanner_get_token(b, c)
  <2>1. t.status = "OK" => t.next > c
    BY TokenSound
  <2>. HIDE DEF t
  <2>2. m[1] = IF t.status = "OK" /\ Text(t.text) \notin DOMAIN DigitValue
               THEN Stop(m[0], "NO_MATCH")
               ELSE Take(m[0], t, "IDENTIFIER", Append(m[0].out, DigitValue[Text(t.text)]))
    BY <1>2, <1>5 DEF Directive, Directed, t
  <2>3. \A status \in Found3 : Stop(m[0], status).status = status
    BY <1>5, StopFollows
  <2>4. t.status = "OK" /\ Text(t.text) \in DOMAIN DigitValue
    <3>1. t.status \in Statuses
      BY TokenSound DEF t, Statuses
    <3>2. CASE t.status # "OK"
      <4>1. m[1] = Stop(m[0], t.status)
        BY <2>2, <3>2 DEF Take
      <4>. QED BY <1>9, <2>3, <3>1, <3>2, <4>1 DEF Found3
    <3>3. CASE t.status = "OK" /\ Text(t.text) \notin DOMAIN DigitValue
      BY <1>9, <2>2, <2>3, <3>3 DEF Found3
    <3>. QED BY <3>2, <3>3
  <2>5. DigitValue[Text(t.text)] \in Nat
    BY <2>4 DEF DigitValue
  <2>. DEFINE d == DigitValue[Text(t.text)]
  <2>6. m[1] = Take(m[0], t, "IDENTIFIER", Append(<<>>, d))
    BY <1>5, <2>2, <2>4
  <2>. HIDE DEF d
  <2>7. m[1] = Advance(t.next, Append(<<>>, d))
    <3>1. m[1] = Stop(m[0], "NO_MATCH") \/ m[1] = Advance(t.next, Append(<<>>, d))
      BY <2>4, <2>6 DEF Take
    <3>. QED BY <1>9, <2>3, <3>1 DEF Found3
  <2>8. m[1].at = t.next /\ m[1].out = Append(<<>>, d)
    BY <2>7 DEF Advance
  <2>9. d \in Nat
    BY <2>5 DEF d
  <2>. QED BY <2>1, <2>4, <2>8, <2>9
<1>11. \E x : m[2].out = Append(m[1].out, x)
  <2>. DEFINE w == TokensUntil(b, m[1].at, {"CRLF"})
  <2>1. m[2] = TakeUpTo(b, m[1], w, 0)
    BY <1>2, <1>9 DEF Directive, Directed
  <2>2. \A status \in Found3 : Stop(m[1], status).status = status
    BY <1>6, StopFollows DEF Follows
  <2>3. w.status \in Statuses
    BY <1>1, <1>6, TokensUntilSound DEF Follows, MatchIn
  <2>. HIDE DEF w
  <2>4. m[2] = Advance(w.at, Append(m[1].out, SubSeq(b, m[1].at + 1, w.at)))
    <3>1. \/ m[2] = Stop(m[1], w.status) /\ w.status # "OK"
          \/ m[2] = Stop(m[1], "NO_MATCH")
          \/ m[2] = Advance(w.at, Append(m[1].out, SubSeq(b, m[1].at + 1, w.at)))
      BY <2>1 DEF TakeUpTo
    <3>2. "NO_MATCH" \in Found3 /\ w.status \in Found3
      BY <2>3 DEF Found3
    <3>3. Stop(m[1], "NO_MATCH").status = "NO_MATCH" /\ Stop(m[1], w.status).status = w.status
      BY <2>2, <3>2
    <3>. QED BY <1>9, <3>1, <3>3
  <2>5. m[2].out = Append(m[1].out, SubSeq(b, m[1].at + 1, w.at))
    <3>. DEFINE o == Append(m[1].out, SubSeq(b, m[1].at + 1, w.at))
    <3>1. m[2] = Advance(w.at, o)
      BY <2>4
    <3>. HIDE DEF o
    <3>2. m[2].out = o
      BY <3>1 DEF Advance
    <3>. QED BY <3>2 DEF o
  <2>. QED BY <2>5
<1>12. m[3].out = m[2].out
  <2>. DEFINE t == scanner_get_token(b, m[2].at)
  <2>1. m[3] = Take(m[2], t, "CRLF", m[2].out)
    BY <1>2, <1>9 DEF Directive, Directed
  <2>2. \A s : Stop(m[2], s).out = m[2].out
    <3>1. m[2] = [status |-> m[2].status, at |-> m[2].at, out |-> m[2].out]
      BY <1>7 DEF Follows, MatchIn
    <3>. QED BY <3>1 DEF Stop
  <2>. HIDE DEF t
  <2>3. \/ \E s : m[3] = Stop(m[2], s)
        \/ m[3] = Advance(t.next, m[2].out)
    BY <2>1 DEF Take
  <2>. QED BY <2>2, <2>3 DEF Advance
<1>13. m[3].out[1] \in Nat
  <2>1. PICK d \in Nat : m[1].out = Append(<<>>, d)
    BY <1>10
  <2>2. PICK x : m[2].out = Append(m[1].out, x)
    BY <1>11
  <2>3. Append(<<>>, d) = <<d>>
    OBVIOUS
  <2>4. Append(<<d>>, x)[1] = d
    BY HeadKept
  <2>5. m[3].out = Append(<<d>>, x)
    BY <1>12, <2>1, <2>2, <2>3
  <2>. QED BY <2>4, <2>5
<1>14. m[3].at \in (c + 1)..Len(b)
  BY <1>1, <1>6, <1>7, <1>8, <1>10 DEF Follows, MatchIn
<1>. QED BY <1>3, <1>4, <1>13, <1>14 DEF v, format

\* The line end behind a chunk takes at least a unit.
LEMMA EndMatched ==
    ASSUME NEW b \in Seq(STRING), NEW c \in 0..Len(b), vfmatch(b, c, <<"%c">>).status = "OK"
    PROVE  vfmatch(b, c, <<"%c">>).at \in (c + 1)..Len(b)
<1>. DEFINE format == <<"%c">>
            m == Matches(b, c, format)
            v == vfmatch(b, c, format)
            t == scanner_get_token(b, c)
<1>1. Len(format) = 1 /\ format[1] = "%c" /\ Len(b) \in Nat
  BY LenProperties
<1>2. /\ Matched(b, c, format) = m[1]
      /\ m[0] = Advance(c, <<>>)
      /\ m[1] = Directive(b, m[0], "%c")
  <2>1. /\ Matched(b, c, format) = m[Len(format)]
        /\ m[0] = Advance(c, <<>>)
        /\ \A i \in 1..Len(format) : m[i] = Directive(b, m[i - 1], format[i])
    BY <1>1, MatchesSteps
  <2>. HIDE DEF m, format
  <2>. QED BY <1>1, <2>1
<1>. HIDE DEF m
<1>3. MatchIn(m[0], b) /\ m[0].at = c /\ m[0].status = "OK" /\ m[0].out = <<>>
  BY <1>2, <1>1 DEF Advance, MatchIn, Found3, Statuses
<1>4. t.status \in Statuses /\ t.next \in c..Len(b) /\ (t.status = "OK" => t.next > c)
  BY TokenSound DEF Statuses
<1>5. m[1] = Take(m[0], t, "CRLF", m[0].out)
  BY <1>2, <1>3 DEF Directive, Directed
<1>6. \A status \in Found3 : Stop(m[0], status).status = status
  BY <1>3, StopFollows
<1>7. v = Restored(m[1], c) /\ v.status = "OK"
  BY <1>2 DEF vfmatch
<1>. HIDE DEF t, v
<1>8. \/ m[1] = Stop(m[0], t.status) /\ t.status # "OK"
      \/ m[1] = Stop(m[0], "NO_MATCH")
      \/ m[1] = Advance(t.next, m[0].out) /\ t.status = "OK"
  BY <1>5 DEF Take
<1>9. CASE m[1] = Advance(t.next, m[0].out) /\ t.status = "OK"
  <2>1. v = m[1] /\ m[1].at = t.next
    BY <1>7, <1>9 DEF Restored, Advance
  <2>. QED BY <1>1, <1>4, <1>9, <2>1 DEF v
<1>10. CASE ~(m[1] = Advance(t.next, m[0].out) /\ t.status = "OK")
  <2>1. m[1].status \in Found3 \ {"OK"} /\ m[1] = [status |-> m[1].status, at |-> m[1].at, out |-> m[1].out]
    <3>1. \E s \in Found3 \ {"OK"} : m[1] = Stop(m[0], s)
      BY <1>4, <1>8, <1>10 DEF Found3, Statuses
    <3>. QED BY <1>3, <1>6, <3>1, StopFollows DEF Follows, MatchIn
  <2>. QED BY <1>7, <2>1 DEF Restored
<1>. QED BY <1>9, <1>10
-------------------------------------------------------------------------------
(* The parts of an entity: by its length, to the end of the connection and  *)
(* the size line of a chunk.                                                *)

PartAt(p, position) == ParserIn(p) /\ p.ent_position = position

LEMMA PartMore ==
    ASSUME NEW position, NEW p, PartAt(p, position), NEW u \in Seq(STRING)
    PROVE  PartAt(More(p, u), position)
BY MoreIn, FieldNames DEF PartAt

\* Two parsers but for the entity's length.
LEMMA ClenGood ==
    ASSUME NEW p, PartAt(p, "USING_CLEN")
    PROVE  StepGood("parts", p)
<1>. DEFINE N(x) == Len(x.msg) - x.entity_start_position + x.amount_discarded
            W(x) == [x EXCEPT !.entity_length = N(x)]
            r == Step("parts", p)
<1>1. ASSUME NEW x, PartAt(x, "USING_CLEN")
      PROVE  IF N(x) < x.content_length THEN Step("parts", x) = R("INCOMPLETE", W(x))
             ELSE Step("parts", x).status = "SUCCESS" /\ \E q : Step("parts", x) = R("SUCCESS", q)
  <2>1. Step("parts", x) = parser_parse_entity_using_clen(x)
    BY <1>1 DEF Step, EntityFrom, PartAt
  <2>2. CASE N(x) < x.content_length
    BY <2>1, <2>2 DEF parser_parse_entity_using_clen
  <2>3. CASE ~(N(x) < x.content_length)
    <3>. DEFINE q == [x EXCEPT !.msg = IF N(x) > x.content_length
                                       THEN [@ EXCEPT ![x.entity_start_position + x.content_length
                                                         - x.amount_discarded + 1] = NUL]
                                       ELSE @,
                               !.entity_length = x.content_length, !.position = "COMPLETE"]
    <3>1. Step("parts", x) = R("SUCCESS", q)
      BY <2>1, <2>3 DEF parser_parse_entity_using_clen
    <3>. HIDE DEF q
    <3>. QED BY <2>3, <3>1 DEF R
  <2>. QED BY <2>2, <2>3
<1>2. CASE ~(N(p) < p.content_length)
  <2>1. \E q : r = R("SUCCESS", q)
    BY <1>1, <1>2
  <2>. QED BY <2>1 DEF StepGood, R, Waits
<1>3. CASE N(p) < p.content_length
  <2>. DEFINE q == W(p)
  <2>1. r = R("INCOMPLETE", q)
    BY <1>1, <1>3
  <2>2. IsParser(q) /\ \A f \in Fields \ {"entity_length"} : q[f] = p[f]
    BY FieldNames DEF PartAt, ParserIn, IsParser
  <2>. HIDE DEF q
  <2>3. PartAt(q, "USING_CLEN") /\ ParserIn(q) /\ q.position = p.position /\ q.msg = p.msg
    BY <2>2, FieldNames DEF PartAt, ParserIn
  <2>4. ASSUME NEW u \in Seq(STRING)
        PROVE  Agree(Step("parts", More(q, u)), Step("parts", More(p, u)))
    <3>. DEFINE x == More(q, u)
                y == More(p, u)
    <3>1. PartAt(x, "USING_CLEN") /\ PartAt(y, "USING_CLEN")
      BY <2>3, PartMore
    <3>2. /\ x.msg = q.msg \o u /\ y.msg = p.msg \o u
          /\ \A f \in Fields \ {"msg"} : x[f] = q[f]
          /\ \A f \in Fields \ {"msg"} : y[f] = p[f]
      BY <2>3, MoreIn DEF PartAt
    <3>. HIDE DEF x, y
    <3>3. \A f \in Fields \ {"entity_length"} : x[f] = y[f]
      BY <2>2, <2>3, <3>2
    <3>4. N(x) = N(y) /\ x.content_length = y.content_length
      BY <3>3, FieldNames
    <3>5. W(x) = W(y)
      <4>. DEFINE n == N(x)
      <4>1. N(y) = n
        BY <3>4
      <4>. HIDE DEF N, n
      <4>2. IsParser(x) /\ IsParser(y)
        BY <3>1 DEF PartAt, ParserIn
      <4>3. W(x) = [x EXCEPT !.entity_length = n] /\ W(y) = [y EXCEPT !.entity_length = n]
        BY <4>1 DEF n
      <4>4. IsParser(W(x)) /\ IsParser(W(y)) /\ \A f \in Fields : W(x)[f] = W(y)[f]
        BY <3>3, <4>2, <4>3, FieldNames DEF IsParser
      <4>. HIDE DEF W
      <4>. QED BY <4>4, SameParser
    <3>. HIDE DEF N, W
    <3>6. CASE N(x) < x.content_length
      BY <1>1, <3>1, <3>4, <3>5, <3>6 DEF Agree, x, y
    <3>7. CASE ~(N(x) < x.content_length)
      BY <1>1, <3>1, <3>4, <3>7 DEF Agree, x, y
    <3>. QED BY <3>6, <3>7
  <2>5. Resumes("parts", p, r)
    BY <2>1, <2>3, <2>4 DEF Resumes, R
  <2>. HIDE DEF r
  <2>. QED BY <2>1, <2>5 DEF StepGood, R, Waits, r
<1>. QED BY <1>2, <1>3

\* The entity goes until the connection is closed.
LEMMA CloseGood ==
    ASSUME NEW p, PartAt(p, "UNTIL_CLOSE")
    PROVE  StepGood("parts", p)
<1>. DEFINE N(x) == Len(x.msg) - x.entity_start_position + x.amount_discarded
            W(x) == [x EXCEPT !.cursor = Len(x.msg), !.entity_length = N(x)]
            r == Step("parts", p)
            q == W(p)
<1>1. ASSUME NEW x, PartAt(x, "UNTIL_CLOSE")
      PROVE  Step("parts", x) = R("INCOMPLETE_ENTITY", W(x))
  BY <1>1 DEF Step, EntityFrom, PartAt, parser_parse_entity_until_close
<1>2. r = R("INCOMPLETE_ENTITY", q)
  BY <1>1
<1>3. IsParser(q) /\ q.cursor = Len(p.msg) /\ \A f \in Fields \ {"cursor", "entity_length"} : q[f] = p[f]
  BY FieldNames DEF PartAt, ParserIn, IsParser
<1>4. Len(p.msg) \in Nat
  BY LenProperties DEF PartAt, ParserIn
<1>. HIDE DEF q
<1>5. PartAt(q, "UNTIL_CLOSE") /\ ParserIn(q) /\ q.position = p.position /\ q.msg = p.msg
  BY <1>3, <1>4, FieldNames DEF PartAt, ParserIn
<1>6. ASSUME NEW u \in Seq(STRING)
      PROVE  Step("parts", More(q, u)) = Step("parts", More(p, u))
  <2>. DEFINE x == More(q, u)
              y == More(p, u)
  <2>1. PartAt(x, "UNTIL_CLOSE") /\ PartAt(y, "UNTIL_CLOSE")
    BY <1>5, PartMore
  <2>2. /\ x.msg = q.msg \o u /\ y.msg = p.msg \o u
        /\ \A f \in Fields \ {"msg"} : x[f] = q[f]
        /\ \A f \in Fields \ {"msg"} : y[f] = p[f]
    BY <1>5, MoreIn DEF PartAt
  <2>. HIDE DEF x, y
  <2>3. \A f \in Fields \ {"cursor", "entity_length"} : x[f] = y[f]
    BY <1>3, <1>5, <2>2
  <2>. DEFINE n == N(x)
              l == Len(x.msg)
  <2>4. N(y) = n /\ Len(y.msg) = l
    BY <2>3, FieldNames
  <2>. HIDE DEF N, n, l
  <2>5. W(x) = [x EXCEPT !.cursor = l, !.entity_length = n]
        /\ W(y) = [y EXCEPT !.cursor = l, !.entity_length = n]
    BY <2>4 DEF n, l
  <2>6. IsParser(x) /\ IsParser(y)
    BY <2>1 DEF PartAt, ParserIn
  <2>7. IsParser(W(x)) /\ IsParser(W(y)) /\ \A f \in Fields : W(x)[f] = W(y)[f]
    BY <2>3, <2>5, <2>6, FieldNames, ZenonT(40) DEF IsParser
  <2>. HIDE DEF W
  <2>8. W(x) = W(y)
    BY <2>7, SameParser
  <2>. QED BY <1>1, <2>1, <2>8 DEF x, y
<1>7. Resumes("parts", p, r)
  BY <1>2, <1>5, <1>6 DEF Resumes, R, Agree
<1>. HIDE DEF r
<1>. QED BY <1>2, <1>7 DEF StepGood, R, Waits, r

\* The format of the size line of a chunk.
Sized == <<"%x", "%L", "%c">>

LEMMA SizedFacts ==
    ASSUME NEW p, ParserIn(p)
    PROVE  LET m == vfmatch(p.msg, p.cursor, Sized)
           IN /\ m.status \in Found3
              /\ m.status = "OK" => /\ m.at \in Nat /\ m.at > p.cursor /\ m.at <= Len(p.msg)
                                    /\ m.out[1] \in Nat
              /\ m.status # "INCOMPLETE" =>
                   \A u \in Seq(STRING) : vfmatch(p.msg \o u, p.cursor, Sized) = m
<1>1. p.msg \in Seq(STRING) /\ p.cursor \in 0..Len(p.msg) /\ Len(p.msg) \in Nat
  BY LenProperties DEF ParserIn
<1>2. Len(Sized) \in Nat
  BY DEF Sized
<1>. DEFINE m == vfmatch(p.msg, p.cursor, Sized)
<1>3. m.status \in Found3
  BY <1>1, <1>2, VfmatchSound
<1>4. m.status = "OK" => m.at \in (p.cursor + 1)..Len(p.msg) /\ m.out[1] \in Nat
  BY <1>1, SizeMatched DEF Sized
<1>5. m.status # "INCOMPLETE" => \A u \in Seq(STRING) : vfmatch(p.msg \o u, p.cursor, Sized) = m
  BY <1>1, <1>2, VfmatchStable
<1>. HIDE DEF m
<1>. QED BY <1>1, <1>3, <1>4, <1>5 DEF m

\* Units are cut out behind the cursor.
LEMMA CutFacts ==
    ASSUME NEW p, ParserIn(p), NEW at \in Nat, NEW n \in Nat, at + n <= Len(p.msg), p.cursor <= at
    PROVE  LET b == Deleted(p.msg, at, n)
           IN /\ b \in Seq(STRING) /\ Len(b) = Len(p.msg) - n /\ Len(b) \in Nat
              /\ p.cursor \in 0..Len(b) /\ at \in 0..Len(b)
              /\ \A u \in Seq(STRING) : Deleted(p.msg \o u, at, n) = b \o u
<1>1. p.msg \in Seq(STRING) /\ p.cursor \in 0..Len(p.msg) /\ Len(p.msg) \in Nat
  BY LenProperties DEF ParserIn
<1>. DEFINE b == Deleted(p.msg, at, n)
<1>2. b \in Seq(STRING) /\ Len(b) = Len(p.msg) - n
  BY <1>1, DeletedSound
<1>3. \A u \in Seq(STRING) : Deleted(p.msg \o u, at, n) = b \o u
  BY <1>1, DeletedLonger
<1>. HIDE DEF b
<1>4. Len(b) \in Nat /\ p.cursor \in 0..Len(b) /\ at \in 0..Len(b)
  BY <1>1, <1>2
<1>. QED BY <1>2, <1>3, <1>4 DEF b

LEMMA SizeGood ==
    ASSUME NEW p, PartAt(p, "USING_CHUNKED")
    PROVE  StepGood("parts", p)
<1>. DEFINE m == vfmatch(p.msg, p.cursor, Sized)
            r == Step("parts", p)
            n == m.at - p.cursor
            size == m.out[1]
            Q(x) == [x EXCEPT !.msg = Deleted(@, x.cursor, n), !.chunk_size = size]
            Z(x) == [Q(x) EXCEPT !.ent_position = "CHUNKY_HEADERS",
                        !.entity_length = Q(x).cursor - Q(x).entity_start_position
                                            + Q(x).amount_discarded]
            B(x) == [Q(x) EXCEPT !.ent_position = "CHUNKY_BODY"]
<1>1. /\ ParserIn(p) /\ IsParser(p) /\ p.msg \in Seq(STRING) /\ p.cursor \in 0..Len(p.msg)
      /\ Len(p.msg) \in Nat /\ p.ent_position = "USING_CHUNKED" /\ p.is_request = FALSE
  BY LenProperties DEF ParserIn, PartAt
<1>2. ASSUME NEW x, PartAt(x, "USING_CHUNKED"), x.cursor = p.cursor,
             vfmatch(x.msg, x.cursor, Sized) = m
      PROVE  Step("parts", x) = IF m.status # "OK" THEN R(m.status, x)
                                ELSE IF size = 0 THEN R("CONTINUE", Z(x)) ELSE R("CONTINUE", B(x))
  <2>1. Step("parts", x) = parser_parse_chunky_entity(x)
    BY <1>2 DEF Step, EntityFrom, PartAt
  <2>2. parser_parse_chunky_entity(x) = SizeLine(x, m)
    BY <1>2 DEF parser_parse_chunky_entity, Sized
  <2>. HIDE DEF m
  <2>3. SizeLine(x, m) = IF m.status # "OK" THEN R(m.status, x)
                         ELSE IF size = 0 THEN R("CONTINUE", Z(x)) ELSE R("CONTINUE", B(x))
    BY <1>2 DEF SizeLine
  <2>. QED BY <2>1, <2>2, <2>3
<1>3. /\ m.status \in Found3
      /\ m.status = "OK" => m.at \in Nat /\ m.at > p.cursor /\ m.at <= Len(p.msg) /\ size \in Nat
      /\ m.status # "INCOMPLETE" => \A u \in Seq(STRING) : vfmatch(p.msg \o u, p.cursor, Sized) = m
  BY <1>1, SizedFacts
<1>4. r = IF m.status # "OK" THEN R(m.status, p)
          ELSE IF size = 0 THEN R("CONTINUE", Z(p)) ELSE R("CONTINUE", B(p))
  BY <1>2
<1>5. CASE m.status # "OK"
  <2>. HIDE DEF m
  <2>1. r = R(m.status, p)
    BY <1>4, <1>5
  <2>. HIDE DEF r
  <2>2. Resumes("parts", p, r)
    BY <1>1, <2>1 DEF Resumes, Agree, R
  <2>. QED BY <1>3, <1>5, <2>1, <2>2 DEF StepGood, R, Waits, Found3, Statuses, r
<1>6. CASE m.status = "OK"
  <2>1. \A u \in Seq(STRING) :
          PartAt(More(p, u), "USING_CHUNKED") /\ More(p, u).cursor = p.cursor
            /\ vfmatch(More(p, u).msg, More(p, u).cursor, Sized) = m
    <3>1. TAKE u \in Seq(STRING)
    <3>2. PartAt(More(p, u), "USING_CHUNKED")
      BY PartMore
    <3>3. More(p, u).msg = p.msg \o u /\ More(p, u).cursor = p.cursor
      BY <1>1, MoreIn, FieldNames
    <3>4. vfmatch(p.msg \o u, p.cursor, Sized) = m
      BY <1>3, <1>6
    <3>. HIDE DEF m
    <3>. QED BY <3>2, <3>3, <3>4
  <2>2. \A u \in Seq(STRING) :
          Step("parts", More(p, u)) = IF size = 0 THEN R("CONTINUE", Z(More(p, u)))
                                      ELSE R("CONTINUE", B(More(p, u)))
    <3>. HIDE DEF m, size, Z, B
    <3>. QED BY <1>2, <1>6, <2>1
  <2>. HIDE DEF m
  <2>3. n \in Nat /\ n > 0 /\ p.cursor \in Nat /\ p.cursor + n <= Len(p.msg) /\ p.cursor <= p.cursor
    BY <1>1, <1>3, <1>6
  <2>4. size \in Nat
    BY <1>3, <1>6
  <2>. HIDE DEF n, size
  <2>. DEFINE b == Deleted(p.msg, p.cursor, n)
  <2>5. /\ b \in Seq(STRING) /\ Len(b) = Len(p.msg) - n /\ Len(b) \in Nat
        /\ p.cursor \in 0..Len(b)
        /\ \A u \in Seq(STRING) : Deleted(p.msg \o u, p.cursor, n) = b \o u
    BY <1>1, <2>3, CutFacts
  <2>. HIDE DEF b
  <2>6. Q(p) = [p EXCEPT !.msg = b, !.chunk_size = size]
    BY DEF b
  <2>7. /\ IsParser(Q(p)) /\ Q(p).msg = b /\ Q(p).chunk_size = size
        /\ \A f \in Fields \ {"msg", "chunk_size"} : Q(p)[f] = p[f]
    BY <1>1, <2>6, FieldNames DEF IsParser
  <2>8. ASSUME NEW u \in Seq(STRING)
        PROVE  Q(More(p, u)) = More(Q(p), u)
    <3>. DEFINE l == More(p, u)
    <3>1. IsParser(l) /\ l.msg = p.msg \o u /\ \A f \in Fields \ {"msg"} : l[f] = p[f]
      BY <1>1, MoreIn DEF ParserIn
    <3>. HIDE DEF l
    <3>2. Q(l) = [l EXCEPT !.msg = b \o u, !.chunk_size = size]
      BY <2>5, <3>1, FieldNames
    <3>3. /\ IsParser(Q(l)) /\ Q(l).msg = b \o u /\ Q(l).chunk_size = size
          /\ \A f \in Fields \ {"msg", "chunk_size"} : Q(l)[f] = l[f]
      BY <3>1, <3>2, FieldNames DEF IsParser
    <3>. HIDE DEF Q
    <3>4. IsParser(More(Q(p), u)) /\ More(Q(p), u).msg = b \o u
          /\ \A f \in Fields \ {"msg"} : More(Q(p), u)[f] = Q(p)[f]
      BY <2>7, FieldNames DEF IsParser, More
    <3>5. \A f \in Fields : Q(l)[f] = More(Q(p), u)[f]
      BY <2>7, <3>1, <3>3, <3>4, FieldNames, ZenonT(40)
    <3>. QED BY <3>3, <3>4, <3>5, SameParser DEF l
  <2>. HIDE DEF Q
  <2>9. CASE size = 0
    <3>1. r = R("CONTINUE", Z(p))
      BY <1>4, <1>6, <2>9
    <3>2. /\ IsParser(Z(p)) /\ Z(p).ent_position = "CHUNKY_HEADERS"
          /\ \A f \in Fields \ {"ent_position", "entity_length"} : Z(p)[f] = Q(p)[f]
      BY <2>7, FieldNames DEF IsParser
    <3>3. \A u \in Seq(STRING) : Z(More(p, u)) = More(Z(p), u)
      <4>1. TAKE u \in Seq(STRING)
      <4>. DEFINE z == Q(p)
                  e == z.cursor - z.entity_start_position + z.amount_discarded
                  l == More(z, u)
      <4>2. IsParser(z) /\ IsParser(l) /\ \A f \in Fields \ {"msg"} : l[f] = z[f]
        BY <2>7 DEF IsParser, More
      <4>3. l.msg = z.msg \o u
        BY <2>7, FieldNames DEF IsParser, More
      <4>4. Z(More(p, u)) = [l EXCEPT !.ent_position = "CHUNKY_HEADERS",
                               !.entity_length = l.cursor - l.entity_start_position + l.amount_discarded]
        BY <2>8
      <4>5. Z(p) = [z EXCEPT !.ent_position = "CHUNKY_HEADERS", !.entity_length = e]
        OBVIOUS
      <4>. HIDE DEF z, l, Z
      <4>6. l.cursor - l.entity_start_position + l.amount_discarded = e
        BY <4>2, FieldNames
      <4>. HIDE DEF e
      <4>7. Z(More(p, u)) = [l EXCEPT !.ent_position = "CHUNKY_HEADERS", !.entity_length = e]
        BY <4>4, <4>6
      <4>8. IsParser(Z(More(p, u))) /\ IsParser(More(Z(p), u))
            /\ \A f \in Fields : Z(More(p, u))[f] = More(Z(p), u)[f]
        BY <4>2, <4>3, <4>5, <4>7, FieldNames, ZenonT(40) DEF IsParser, More
      <4>. QED BY <4>8, SameParser
    <3>. DEFINE z == Z(p)
    <3>. HIDE DEF Z
    <3>4. /\ z.msg = b /\ z.chunk_size = size /\ z.cursor = p.cursor /\ z.is_request = FALSE
          /\ z.position = p.position /\ z.ent_position = "CHUNKY_HEADERS"
      BY <1>1, <2>7, <3>2, FieldNames
    <3>5. ParserIn(z)
      BY <2>4, <2>5, <3>2, <3>4 DEF ParserIn, EntPositions
    <3>6. Rank("parts", z) < Rank("parts", p)
      BY <1>1, <2>3, <2>5, <3>4 DEF Rank
    <3>7. Repeats("parts", p, r)
      BY <2>2, <2>9, <3>1, <3>3 DEF Repeats, MoreOf, R
    <3>. HIDE DEF r, z
    <3>8. r = R("CONTINUE", z)
      BY <3>1 DEF z
    <3>. QED BY <3>4, <3>5, <3>6, <3>7, <3>8 DEF StepGood, R, Waits, r
  <2>10. CASE size # 0
    <3>1. r = R("CONTINUE", B(p))
      BY <1>4, <1>6, <2>10
    <3>2. /\ IsParser(B(p)) /\ B(p).ent_position = "CHUNKY_BODY"
          /\ \A f \in Fields \ {"ent_position"} : B(p)[f] = Q(p)[f]
      BY <2>7, FieldNames DEF IsParser
    <3>3. \A u \in Seq(STRING) : B(More(p, u)) = More(B(p), u)
      <4>1. TAKE u \in Seq(STRING)
      <4>. DEFINE z == Q(p)
                  l == More(z, u)
      <4>2. IsParser(z) /\ IsParser(l) /\ \A f \in Fields \ {"msg"} : l[f] = z[f]
        BY <2>7 DEF IsParser, More
      <4>3. l.msg = z.msg \o u
        BY <2>7, FieldNames DEF IsParser, More
      <4>4. B(More(p, u)) = [l EXCEPT !.ent_position = "CHUNKY_BODY"]
        BY <2>8
      <4>5. B(p) = [z EXCEPT !.ent_position = "CHUNKY_BODY"]
        OBVIOUS
      <4>. HIDE DEF z, l, B
      <4>8. IsParser(B(More(p, u))) /\ IsParser(More(B(p), u))
            /\ \A f \in Fields : B(More(p, u))[f] = More(B(p), u)[f]
        BY <4>2, <4>3, <4>4, <4>5, FieldNames, ZenonT(40) DEF IsParser, More
      <4>. QED BY <4>8, SameParser
    <3>. DEFINE z == B(p)
    <3>. HIDE DEF B
    <3>4. /\ z.msg = b /\ z.chunk_size = size /\ z.cursor = p.cursor /\ z.is_request = FALSE
          /\ z.position = p.position /\ z.ent_position = "CHUNKY_BODY"
      BY <1>1, <2>7, <3>2, FieldNames
    <3>5. ParserIn(z)
      BY <2>4, <2>5, <3>2, <3>4 DEF ParserIn, EntPositions
    <3>6. Rank("parts", z) < Rank("parts", p)
      BY <1>1, <2>3, <2>5, <3>4 DEF Rank
    <3>7. Repeats("parts", p, r)
      BY <2>2, <2>10, <3>1, <3>3 DEF Repeats, MoreOf, R
    <3>. HIDE DEF r, z
    <3>8. r = R("CONTINUE", z)
      BY <3>1 DEF z
    <3>. QED BY <3>4, <3>5, <3>6, <3>7, <3>8 DEF StepGood, R, Waits, r
  <2>. QED BY <2>9, <2>10
<1>. QED BY <1>5, <1>6
-------------------------------------------------------------------------------
(* The body of a chunk and the trailers.                                    *)

\* A step that leaves the parser as it is waits for what is to come, or has failed.
LEMMA StaysGood ==
    ASSUME NEW p, ParserIn(p), NEW s \in Found3 \ {"OK"}, Step("parts", p) = R(s, p)
    PROVE  StepGood("parts", p)
<1>. DEFINE r == Step("parts", p)
<1>1. r = R(s, p) /\ r.status = s /\ r.p = p
  BY DEF R
<1>. HIDE DEF r
<1>2. Resumes("parts", p, r)
  BY <1>1 DEF Resumes, Agree
<1>. QED BY <1>1, <1>2 DEF StepGood, Waits, Found3, Statuses, r

LEMMA BodyGood ==
    ASSUME NEW p, PartAt(p, "CHUNKY_BODY")
    PROVE  StepGood("parts", p)
<1>. DEFINE save == p.cursor + p.chunk_size
            m == vfmatch(p.msg, save, <<"%c">>)
            r == Step("parts", p)
            n == m.at - save
            C(x) == [x EXCEPT !.msg = Deleted(@, save, n), !.cursor = save,
                              !.entity_length = @ + x.chunk_size, !.ent_position = "USING_CHUNKED"]
<1>1. /\ ParserIn(p) /\ IsParser(p) /\ p.msg \in Seq(STRING) /\ p.cursor \in Nat
      /\ Len(p.msg) \in Nat /\ p.ent_position = "CHUNKY_BODY" /\ p.is_request = FALSE
      /\ p.chunk_size \in Nat /\ save \in Nat /\ p.cursor <= save
  BY LenProperties DEF ParserIn, PartAt
<1>2. Len(<<"%c">>) \in Nat
  OBVIOUS
<1>3. ASSUME NEW x, PartAt(x, "CHUNKY_BODY"), x.cursor = p.cursor, x.chunk_size = p.chunk_size
      PROVE  LET v == vfmatch(x.msg, save, <<"%c">>)
             IN /\ Len(x.msg) < save => Step("parts", x) = R("INCOMPLETE", x)
                /\ ~(Len(x.msg) < save) /\ v.status # "OK" => Step("parts", x) = R(v.status, x)
                /\ ~(Len(x.msg) < save) /\ v = m /\ m.status = "OK" => Step("parts", x) = R("CONTINUE", C(x))
  <2>. DEFINE v == vfmatch(x.msg, save, <<"%c">>)
  <2>1. Step("parts", x) = parser_parse_chunky_body(x)
    BY <1>3 DEF Step, EntityFrom, PartAt
  <2>2. parser_parse_chunky_body(x) = ChunkEnd(x, v)
    BY <1>3 DEF parser_parse_chunky_body
  <2>3. x.cursor + x.chunk_size = save
    BY <1>3
  <2>4. Len(x.msg) \in Nat
    BY <1>3, LenProperties DEF PartAt, ParserIn
  <2>. HIDE DEF v, m, save
  <2>5. ChunkEnd(x, v) =
          IF Len(x.msg) < save THEN R("INCOMPLETE", x)
          ELSE IF v.status # "OK" THEN R(v.status, x)
          ELSE R("CONTINUE", [x EXCEPT !.msg = Deleted(@, save, v.at - save),
                                       !.cursor = save, !.entity_length = @ + x.chunk_size,
                                       !.ent_position = "USING_CHUNKED"])
    <3>1. Len(x.msg) < x.cursor + x.chunk_size \/ Len(x.msg) >= x.cursor + x.chunk_size
      BY <1>1, <2>3, <2>4
    <3>2. ~(Len(x.msg) < x.cursor + x.chunk_size /\ Len(x.msg) >= x.cursor + x.chunk_size)
      BY <1>1, <2>3, <2>4
    <3>3. ChunkEnd(x, v) =
          IF Len(x.msg) < x.cursor + x.chunk_size THEN R("INCOMPLETE", x)
          ELSE IF v.status # "OK" THEN R(v.status, x)
          ELSE R("CONTINUE", [x EXCEPT !.msg = Deleted(@, x.cursor + x.chunk_size,
                                                         v.at - (x.cursor + x.chunk_size)),
                                       !.cursor = x.cursor + x.chunk_size,
                                       !.entity_length = @ + x.chunk_size,
                                       !.ent_position = "USING_CHUNKED"])
      BY <3>1, <3>2, Zenon DEF ChunkEnd
    <3>. QED BY <2>3, <3>3
  <2>6. v = m => [x EXCEPT !.msg = Deleted(@, save, v.at - save),
                           !.cursor = save, !.entity_length = @ + x.chunk_size,
                           !.ent_position = "USING_CHUNKED"] = C(x)
    OBVIOUS
  <2>. HIDE DEF C
  <2>7. /\ Len(x.msg) < save => Step("parts", x) = R("INCOMPLETE", x)
        /\ ~(Len(x.msg) < save) /\ v.status # "OK" => Step("parts", x) = R(v.status, x)
        /\ ~(Len(x.msg) < save) /\ v = m /\ m.status = "OK" => Step("parts", x) = R("CONTINUE", C(x))
    BY <2>1, <2>2, <2>5, <2>6
  <2>. QED BY <2>7 DEF v
<1>. HIDE DEF save
<1>4. CASE Len(p.msg) < save
  <2>1. r = R("INCOMPLETE", p)
    BY <1>3, <1>4
  <2>. QED BY <1>1, <2>1, StaysGood DEF Found3, Statuses
<1>5. CASE ~(Len(p.msg) < save)
  <2>1. save \in 0..Len(p.msg)
    BY <1>1, <1>5
  <2>2. m.status \in Found3
    BY <1>1, <1>2, <2>1, VfmatchSound
  <2>3. CASE m.status # "OK"
    <3>1. r = R(m.status, p)
      BY <1>3, <1>5, <2>3
    <3>. HIDE DEF m
    <3>. QED BY <1>1, <2>2, <2>3, <3>1, StaysGood
  <2>4. CASE m.status = "OK"
    <3>1. m.at \in (save + 1)..Len(p.msg)
      BY <1>1, <2>1, <2>4, EndMatched
    <3>2. \A u \in Seq(STRING) : vfmatch(p.msg \o u, save, <<"%c">>) = m
      <4>1. m.status # "INCOMPLETE"
        BY <2>4
      <4>. QED BY <1>1, <1>2, <2>1, <4>1, VfmatchStable
    <3>3. r = R("CONTINUE", C(p))
      BY <1>3, <1>5, <2>4
    <3>4. \A u \in Seq(STRING) : Step("parts", More(p, u)) = R("CONTINUE", C(More(p, u)))
      <4>1. TAKE u \in Seq(STRING)
      <4>. DEFINE x == More(p, u)
      <4>2. PartAt(x, "CHUNKY_BODY")
        BY PartMore
      <4>3. x.msg = p.msg \o u /\ x.cursor = p.cursor /\ x.chunk_size = p.chunk_size
            /\ Len(x.msg) = Len(p.msg) + Len(u) /\ Len(u) \in Nat
        BY <1>1, MoreIn, FieldNames, LenProperties
      <4>. HIDE DEF x, C
      <4>4. ~(Len(x.msg) < save)
        BY <1>1, <1>5, <4>3
      <4>5. vfmatch(x.msg, save, <<"%c">>) = m
        BY <3>2, <4>3
      <4>. HIDE DEF m
      <4>6. Step("parts", x) = R("CONTINUE", C(x))
        BY <1>3, <2>4, <4>2, <4>3, <4>4, <4>5
      <4>. QED BY <4>6 DEF x
    <3>. HIDE DEF m
    <3>5. n \in Nat /\ n > 0 /\ save + n <= Len(p.msg)
      BY <1>1, <3>1
    <3>. HIDE DEF n
    <3>. DEFINE b == Deleted(p.msg, save, n)
    <3>6. /\ b \in Seq(STRING) /\ Len(b) = Len(p.msg) - n /\ Len(b) \in Nat
          /\ save \in 0..Len(b)
          /\ \A u \in Seq(STRING) : Deleted(p.msg \o u, save, n) = b \o u
      BY <1>1, <3>5, CutFacts
    <3>. HIDE DEF b
    <3>. DEFINE e == p.entity_length + p.chunk_size
                c == C(p)
    <3>7. C(p) = [p EXCEPT !.msg = b, !.cursor = save, !.entity_length = e,
                           !.ent_position = "USING_CHUNKED"]
      BY DEF b
    <3>8. \A u \in Seq(STRING) : C(More(p, u)) = More(C(p), u)
      <4>1. TAKE u \in Seq(STRING)
      <4>. DEFINE l == More(p, u)
      <4>2. IsParser(l) /\ l.msg = p.msg \o u /\ \A f \in Fields \ {"msg"} : l[f] = p[f]
        BY <1>1, MoreIn DEF ParserIn
      <4>. HIDE DEF l
      <4>3. l.chunk_size = p.chunk_size /\ l.entity_length = p.entity_length
            /\ Deleted(l.msg, save, n) = b \o u
        BY <3>6, <4>2, FieldNames
      <4>. HIDE DEF e
      <4>4. C(l) = [l EXCEPT !.msg = b \o u, !.cursor = save, !.entity_length = e,
                             !.ent_position = "USING_CHUNKED"]
        BY <4>3 DEF e
      <4>. HIDE DEF C
      <4>5. IsParser(C(l)) /\ IsParser(More(C(p), u)) /\ \A f \in Fields : C(l)[f] = More(C(p), u)[f]
        BY <1>1, <3>7, <4>2, <4>4, FieldNames, ZenonT(40) DEF IsParser, More
      <4>. QED BY <4>5, SameParser DEF l
    <3>. HIDE DEF e
    <3>. HIDE DEF C
    <3>9. /\ IsParser(c) /\ c.msg = b /\ c.cursor = save /\ c.ent_position = "USING_CHUNKED"
          /\ c.chunk_size = p.chunk_size /\ c.is_request = FALSE /\ c.position = p.position
      BY <1>1, <3>7, FieldNames DEF IsParser
    <3>. HIDE DEF c
    <3>10. ParserIn(c)
      BY <1>1, <3>6, <3>9 DEF ParserIn, EntPositions
    <3>11. Rank("parts", c) < Rank("parts", p)
      BY <1>1, <3>5, <3>6, <3>9 DEF Rank
    <3>12. r = R("CONTINUE", c)
      BY <3>3 DEF c
    <3>13. Repeats("parts", p, r)
      BY <3>3, <3>4, <3>8 DEF Repeats, MoreOf, R
    <3>. HIDE DEF r
    <3>. QED BY <3>9, <3>10, <3>11, <3>12, <3>13 DEF StepGood, R, Waits, r
  <2>. QED BY <2>3, <2>4
<1>. QED BY <1>4, <1>5

\* The trailers are headers that are cut out of the buffer behind the last chunk.
LEMMA TrailersGood ==
    ASSUME NEW p, PartAt(p, "CHUNKY_HEADERS")
    PROVE  StepGood("parts", p)
<1>. DEFINE r == Step("parts", p)
            w == Run("lines", p)
<1>1. ASSUME NEW x, PartAt(x, "CHUNKY_HEADERS")
      PROVE  Step("parts", x) = TrailersCut(x, Run("lines", x))
  BY <1>1, HeadersGood DEF Step, EntityFrom, PartAt, parser_parse_chunky_headers
<1>2. /\ w = R(w.status, w.p)
      /\ w.status \in {"SUCCESS", "FAILURE", "OK"} \cup Waits
      /\ w.status \in Waits =>
            /\ ParserIn(w.p) /\ w.p.position = p.position
            /\ \A u \in Seq(STRING) : Agree(Run("lines", More(w.p, u)), Run("lines", More(p, u)))
      /\ w.p.ent_position = p.ent_position
  BY HeadersGood DEF RunGood, PartAt
<1>3. r = TrailersCut(p, w)
  BY <1>1
<1>. HIDE DEF w
<1>4. CASE w.status = "OK"
  <2>1. \E q : r = R("SUCCESS", q)
    BY <1>3, <1>4 DEF TrailersCut
  <2>. QED BY <2>1 DEF StepGood, R, Waits
<1>5. CASE w.status # "OK"
  <2>1. r = w
    BY <1>3, <1>5 DEF TrailersCut
  <2>2. w.status \in Waits => Resumes("parts", p, w)
    <3>. SUFFICES ASSUME w.status \in Waits, NEW u \in Seq(STRING)
                  PROVE  Agree(Step("parts", More(w.p, u)), Step("parts", More(p, u)))
      BY <1>2 DEF Resumes
    <3>. DEFINE x == More(w.p, u)
                y == More(p, u)
                a == Run("lines", x)
                b == Run("lines", y)
    <3>1. PartAt(x, "CHUNKY_HEADERS") /\ PartAt(y, "CHUNKY_HEADERS")
      BY <1>2, PartMore DEF PartAt
    <3>2. Agree(a, b)
      BY <1>2
    <3>. HIDE DEF x, y
    <3>3. Step("parts", x) = TrailersCut(x, a) /\ Step("parts", y) = TrailersCut(y, b)
      BY <1>1, <3>1
    <3>. HIDE DEF a, b
    <3>4. a = b \/ (a.status = "SUCCESS" /\ b.status = "SUCCESS")
      BY <3>2 DEF Agree
    <3>5. /\ a.status # "OK" => TrailersCut(x, a) = a
          /\ b.status # "OK" => TrailersCut(y, b) = b
          /\ a.status = "OK" => TrailersCut(x, a).status = "SUCCESS"
          /\ b.status = "OK" => TrailersCut(y, b).status = "SUCCESS"
      BY DEF TrailersCut, R
    <3>. QED BY <3>3, <3>4, <3>5 DEF Agree, x, y
  <2>. HIDE DEF r
  <2>3. r.status \in {"SUCCESS", "FAILURE"} \cup Waits
    BY <1>2, <1>5, <2>1
  <2>. QED BY <1>2, <2>1, <2>2, <2>3 DEF StepGood, R, Waits, r
<1>. QED BY <1>4, <1>5
-------------------------------------------------------------------------------
(* parser_get_entity_read_method, and the entity as a whole.                *)

\* The fields that parser_get_entity_read_method may change.
MethodFields == {"entity_start_position", "entity_length", "ent_position", "content_length"}

LEMMA MethodStep ==
    ASSUME NEW p, PartAt(p, "DETERMINE_READ_METHOD"), NEW q, IsParser(q),
           q.ent_position \in EntPositions \ {"DETERMINE_READ_METHOD"},
           \A f \in Fields \ MethodFields : q[f] = p[f],
           Step("parts", p) = R("CONTINUE", q),
           \A u \in Seq(STRING) : Step("parts", More(p, u)) = R("CONTINUE", More(q, u))
    PROVE  StepGood("parts", p)
<1>. DEFINE r == Step("parts", p)
<1>1. /\ q.msg = p.msg /\ q.cursor = p.cursor /\ q.chunk_size = p.chunk_size
      /\ q.is_request = p.is_request /\ q.position = p.position
  BY FieldNames DEF MethodFields
<1>2. ParserIn(q)
  BY <1>1 DEF ParserIn, PartAt
<1>3. Len(p.msg) \in Nat /\ p.cursor \in 0..Len(p.msg)
  BY LenProperties DEF ParserIn, PartAt
<1>4. Rank("parts", q) < Rank("parts", p)
  BY <1>1, <1>3 DEF Rank, PartAt
<1>5. r = R("CONTINUE", q)
  OBVIOUS
<1>6. Repeats("parts", p, r)
  BY DEF Repeats, MoreOf, R
<1>. HIDE DEF r
<1>. QED BY <1>1, <1>2, <1>4, <1>5, <1>6 DEF StepGood, R, Waits, r

\* The parser at the beginning of an entity.
Started(x) == [x EXCEPT !.entity_start_position = x.cursor, !.entity_length = 0]
Bodiless(z) == \/ z.status_code \in {204, 304} \cup 100..199
               \/ z.request_method \in {"HEAD", "M-SEARCH", "SUBSCRIBE", "UNSUBSCRIBE", "NOTIFY"}
Has(z, name) == httpmsg_find_hdr(z, name) # {}
Chunked(z) ==
  Has(z, "TRANSFER-ENCODING") /\ Contains(HeaderValue(z, "TRANSFER-ENCODING"), "chunked")
LengthOf(z) == raw_to_int(HeaderValue(z, "CONTENT-LENGTH")) % (UIntMax + 1)

LEMMA MethodCases ==
    ASSUME NEW x, x.is_request = FALSE, IsParser(x)
    PROVE  LET z == Started(x)
           IN parser_get_entity_read_method(x) =
                IF Bodiless(z) THEN R("SUCCESS", [z EXCEPT !.position = "COMPLETE"])
                ELSE IF Chunked(z) THEN R("CONTINUE", [z EXCEPT !.ent_position = "USING_CHUNKED"])
                ELSE IF Has(z, "CONTENT-LENGTH")
                     THEN R("CONTINUE", [z EXCEPT !.ent_position = "USING_CLEN",
                                                  !.content_length = LengthOf(z)])
                ELSE R("CONTINUE", [z EXCEPT !.ent_position = "UNTIL_CLOSE"])
<1>. DEFINE z == Started(x)
<1>1. z.is_request = FALSE
  BY FieldNames DEF Started, IsParser
<1>. DEFINE B == IF z.is_request
                 THEN z.method \in {"HEAD", "GET", "SUBSCRIBE", "UNSUBSCRIBE", "M-SEARCH"}
                 ELSE Bodiless(z)
<1>2. B = Bodiless(z)
  BY <1>1
<1>3. parser_get_entity_read_method(x) =
        CASE B -> R("SUCCESS", [z EXCEPT !.position = "COMPLETE"])
          [] ~B /\ Chunked(z) -> R("CONTINUE", [z EXCEPT !.ent_position = "USING_CHUNKED"])
          [] ~B /\ Has(z, "CONTENT-LENGTH") /\ ~Chunked(z) ->
               R("CONTINUE", [z EXCEPT !.ent_position = "USING_CLEN", !.content_length = LengthOf(z)])
          [] OTHER ->
               IF z.is_request
               THEN Fail([z EXCEPT !.valid_ssdp_notify_hack = @ \/ z.method = "NOTIFY"], 411)
               ELSE R("CONTINUE", [z EXCEPT !.ent_position = "UNTIL_CLOSE"])
  BY Zenon DEF parser_get_entity_read_method, Started, Bodiless, Chunked, Has, LengthOf
<1>. HIDE DEF z, B
<1>. QED BY <1>1, <1>2, <1>3 DEF z

LEMMA MethodMore ==
    ASSUME NEW p, ParserIn(p), NEW u \in Seq(STRING)
    PROVE  LET z == Started(p)
               l == Started(More(p, u))
           IN /\ IsParser(z) /\ l = More(z, u)
              /\ \A f \in Fields \ MethodFields : z[f] = p[f]
              /\ Bodiless(l) <=> Bodiless(z)
              /\ Chunked(l) <=> Chunked(z)
              /\ Has(l, "CONTENT-LENGTH") <=> Has(z, "CONTENT-LENGTH")
              /\ LengthOf(l) = LengthOf(z)
<1>. DEFINE z == Started(p)
            y == More(p, u)
            l == Started(y)
<1>1. IsParser(p) /\ IsParser(y) /\ y.msg = p.msg \o u /\ \A f \in Fields \ {"msg"} : y[f] = p[f]
  BY MoreIn DEF ParserIn
<1>. HIDE DEF y
<1>2. IsParser(z) /\ \A f \in Fields \ {"entity_start_position", "entity_length"} : z[f] = p[f]
  BY <1>1, FieldNames DEF Started, IsParser
<1>3. z.entity_start_position = p.cursor /\ z.entity_length = 0
  BY <1>1, FieldNames DEF Started, IsParser
<1>4. IsParser(l) /\ \A f \in Fields \ {"entity_start_position", "entity_length"} : l[f] = y[f]
  BY <1>1, FieldNames DEF Started, IsParser
<1>5. l.entity_start_position = y.cursor /\ l.entity_length = 0
  BY <1>1, FieldNames DEF Started, IsParser
<1>. HIDE DEF z, l
<1>6. l = More(z, u)
  <2>1. IsParser(More(z, u)) /\ More(z, u).msg = z.msg \o u
        /\ \A f \in Fields \ {"msg"} : More(z, u)[f] = z[f]
    BY <1>2, FieldNames DEF IsParser, More
  <2>2. \A f \in Fields : l[f] = More(z, u)[f]
    BY <1>1, <1>2, <1>3, <1>4, <1>5, <2>1, FieldNames, ZenonT(40)
  <2>. QED BY <1>4, <2>1, <2>2, SameParser
<1>7. l.headers = z.headers /\ l.status_code = z.status_code /\ l.request_method = z.request_method
  BY <1>1, <1>2, <1>4, FieldNames
<1>8. \A name : httpmsg_find_hdr(l, name) = httpmsg_find_hdr(z, name)
  BY <1>7 DEF httpmsg_find_hdr
<1>9. \A name : HeaderValue(l, name) = HeaderValue(z, name)
  BY <1>7, <1>8 DEF HeaderValue
<1>10. /\ Bodiless(l) <=> Bodiless(z)
       /\ Has(l, "CONTENT-LENGTH") <=> Has(z, "CONTENT-LENGTH")
       /\ LengthOf(l) = LengthOf(z)
  BY <1>7, <1>8, <1>9 DEF Bodiless, Has, LengthOf
<1>11. Chunked(l) <=> Chunked(z)
  BY <1>8, <1>9 DEF Chunked, Has
<1>. QED BY <1>2, <1>6, <1>10, <1>11 DEF MethodFields, z, l, y

\* What the method comes to: the way to read, and the length it takes from the headers.
WayOf(z) == IF Chunked(z) THEN "USING_CHUNKED"
            ELSE IF Has(z, "CONTENT-LENGTH") THEN "USING_CLEN" ELSE "UNTIL_CLOSE"
NewLength(z) == IF ~Chunked(z) /\ Has(z, "CONTENT-LENGTH") THEN LengthOf(z) ELSE z.content_length
Chosen(z) == [z EXCEPT !.ent_position = WayOf(z), !.content_length = NewLength(z)]

LEMMA MethodChosen ==
    ASSUME NEW x, x.is_request = FALSE, IsParser(x), IsParser(Started(x))
    PROVE  LET z == Started(x)
           IN parser_get_entity_read_method(x) =
                IF Bodiless(z) THEN R("SUCCESS", [z EXCEPT !.position = "COMPLETE"])
                ELSE R("CONTINUE", Chosen(z))
<1>. DEFINE z == Started(x)
<1>1. parser_get_entity_read_method(x) =
                IF Bodiless(z) THEN R("SUCCESS", [z EXCEPT !.position = "COMPLETE"])
                ELSE IF Chunked(z) THEN R("CONTINUE", [z EXCEPT !.ent_position = "USING_CHUNKED"])
                ELSE IF Has(z, "CONTENT-LENGTH")
                     THEN R("CONTINUE", [z EXCEPT !.ent_position = "USING_CLEN",
                                                  !.content_length = LengthOf(z)])
                ELSE R("CONTINUE", [z EXCEPT !.ent_position = "UNTIL_CLOSE"])
  BY MethodCases
<1>2. IsParser(z)
  OBVIOUS
<1>. HIDE DEF z
<1>3. ASSUME NEW way
      PROVE  [z EXCEPT !.ent_position = way] =
               [z EXCEPT !.ent_position = way, !.content_length = z.content_length]
  <2>. DEFINE a == [z EXCEPT !.ent_position = way]
              c == [z EXCEPT !.ent_position = way, !.content_length = z.content_length]
  <2>1. IsParser(a) /\ IsParser(c) /\ \A f \in Fields : a[f] = c[f]
    BY <1>2, FieldNames DEF IsParser
  <2>. HIDE DEF a, c
  <2>2. a = c
    BY <2>1, SameParser
  <2>. QED BY <2>2 DEF a, c
<1>4. CASE Chunked(z)
  <2>1. WayOf(z) = "USING_CHUNKED" /\ NewLength(z) = z.content_length
    BY <1>4 DEF WayOf, NewLength
  <2>2. Chosen(z) = [z EXCEPT !.ent_position = "USING_CHUNKED"]
    BY <1>3, <2>1 DEF Chosen
  <2>. QED BY <1>1, <1>4, <2>2 DEF z
<1>5. CASE ~Chunked(z) /\ Has(z, "CONTENT-LENGTH")
  <2>1. WayOf(z) = "USING_CLEN" /\ NewLength(z) = LengthOf(z)
    BY <1>5 DEF WayOf, NewLength
  <2>2. Chosen(z) = [z EXCEPT !.ent_position = "USING_CLEN", !.content_length = LengthOf(z)]
    BY <2>1 DEF Chosen
  <2>. QED BY <1>1, <1>5, <2>2 DEF z
<1>6. CASE ~Chunked(z) /\ ~Has(z, "CONTENT-LENGTH")
  <2>1. WayOf(z) = "UNTIL_CLOSE" /\ NewLength(z) = z.content_length
    BY <1>6 DEF WayOf, NewLength
  <2>2. Chosen(z) = [z EXCEPT !.ent_position = "UNTIL_CLOSE"]
    BY <1>3, <2>1 DEF Chosen
  <2>. QED BY <1>1, <1>6, <2>2 DEF z
<1>. QED BY <1>4, <1>5, <1>6

LEMMA ChosenMore ==
    ASSUME NEW u, NEW z, NEW l, IsParser(z), l = More(z, u),
           Chunked(l) <=> Chunked(z),
           Has(l, "CONTENT-LENGTH") <=> Has(z, "CONTENT-LENGTH"),
           LengthOf(l) = LengthOf(z)
    PROVE  /\ Chosen(l) = More(Chosen(z), u) /\ IsParser(Chosen(z))
           /\ Chosen(z).ent_position \in EntPositions \ {"DETERMINE_READ_METHOD"}
           /\ \A f \in Fields \ MethodFields : Chosen(z)[f] = z[f]
<1>1. IsParser(l) /\ l.msg = z.msg \o u /\ \A f \in Fields \ {"msg"} : l[f] = z[f]
  BY FieldNames DEF IsParser, More
<1>2. l.content_length = z.content_length
  BY <1>1, FieldNames
<1>. DEFINE way == WayOf(z)
            n == NewLength(z)
            a == Chosen(z)
            c == Chosen(l)
<1>3. WayOf(l) = way /\ NewLength(l) = n
  BY <1>2 DEF WayOf, NewLength
<1>4. way \in EntPositions \ {"DETERMINE_READ_METHOD"}
  BY DEF WayOf, EntPositions
<1>. HIDE DEF way, n
<1>5. /\ a = [z EXCEPT !.ent_position = way, !.content_length = n]
      /\ c = [l EXCEPT !.ent_position = way, !.content_length = n]
  BY <1>3 DEF Chosen, way, n
<1>. HIDE DEF a, c
<1>6. /\ IsParser(a) /\ a.ent_position = way /\ a.content_length = n
      /\ \A f \in Fields \ {"ent_position", "content_length"} : a[f] = z[f]
  BY <1>5, FieldNames DEF IsParser
<1>7. /\ IsParser(c) /\ c.ent_position = way /\ c.content_length = n
      /\ \A f \in Fields \ {"ent_position", "content_length"} : c[f] = l[f]
  BY <1>1, <1>5, FieldNames DEF IsParser
<1>8. /\ IsParser(More(a, u)) /\ More(a, u).msg = a.msg \o u
      /\ \A f \in Fields \ {"msg"} : More(a, u)[f] = a[f]
  BY <1>6, FieldNames DEF IsParser, More
<1>9. \A f \in Fields : c[f] = More(a, u)[f]
  BY <1>1, <1>6, <1>7, <1>8, FieldNames, ZenonT(40)
<1>10. c = More(a, u)
  BY <1>7, <1>8, <1>9, SameParser
<1>. QED BY <1>4, <1>6, <1>10 DEF MethodFields, a, c

LEMMA MethodGood ==
    ASSUME NEW p, PartAt(p, "DETERMINE_READ_METHOD")
    PROVE  StepGood("parts", p)
<1>. DEFINE z == Started(p)
            q == Chosen(z)
<1>1. ASSUME NEW x, PartAt(x, "DETERMINE_READ_METHOD")
      PROVE  IF Bodiless(Started(x)) THEN \E y : Step("parts", x) = R("SUCCESS", y)
             ELSE Step("parts", x) = R("CONTINUE", Chosen(Started(x)))
  <2>1. Step("parts", x) = parser_get_entity_read_method(x)
    BY <1>1 DEF Step, EntityFrom, PartAt
  <2>2. x.is_request = FALSE /\ IsParser(x)
    BY <1>1 DEF PartAt, ParserIn
  <2>3. IsParser(Started(x))
    BY <2>2, FieldNames DEF Started, IsParser
  <2>. DEFINE s == Started(x)
  <2>4. parser_get_entity_read_method(x) =
                IF Bodiless(s) THEN R("SUCCESS", [s EXCEPT !.position = "COMPLETE"])
                ELSE R("CONTINUE", Chosen(s))
    BY <2>2, <2>3, MethodChosen
  <2>. HIDE DEF s
  <2>. QED BY <2>1, <2>4 DEF s
<1>2. CASE Bodiless(z)
  <2>1. \E y : Step("parts", p) = R("SUCCESS", y)
    BY <1>1, <1>2
  <2>. QED BY <2>1 DEF StepGood, R, Waits
<1>3. CASE ~Bodiless(z)
  <2>1. Step("parts", p) = R("CONTINUE", q)
    BY <1>1, <1>3
  <2>2. \A u \in Seq(STRING) :
           LET l == Started(More(p, u))
           IN /\ IsParser(z) /\ l = More(z, u)
              /\ \A f \in Fields \ MethodFields : z[f] = p[f]
              /\ Bodiless(l) <=> Bodiless(z)
              /\ Chunked(l) <=> Chunked(z)
              /\ Has(l, "CONTENT-LENGTH") <=> Has(z, "CONTENT-LENGTH")
              /\ LengthOf(l) = LengthOf(z)
    BY MethodMore DEF PartAt
  <2>. HIDE DEF z
  <2>3. ASSUME NEW u \in Seq(STRING)
        PROVE  /\ Step("parts", More(p, u)) = R("CONTINUE", More(q, u))
               /\ IsParser(q) /\ q.ent_position \in EntPositions \ {"DETERMINE_READ_METHOD"}
               /\ \A f \in Fields \ MethodFields : q[f] = p[f]
    <3>. DEFINE l == Started(More(p, u))
    <3>1. /\ IsParser(z) /\ l = More(z, u)
          /\ \A f \in Fields \ MethodFields : z[f] = p[f]
          /\ Bodiless(l) <=> Bodiless(z)
          /\ Chunked(l) <=> Chunked(z)
          /\ Has(l, "CONTENT-LENGTH") <=> Has(z, "CONTENT-LENGTH")
          /\ LengthOf(l) = LengthOf(z)
      BY <2>2
    <3>2. PartAt(More(p, u), "DETERMINE_READ_METHOD")
      BY PartMore
    <3>3. Step("parts", More(p, u)) = R("CONTINUE", Chosen(l))
      BY <1>1, <1>3, <3>1, <3>2
    <3>. HIDE DEF l
    <3>4. /\ Chosen(l) = More(q, u) /\ IsParser(q)
          /\ q.ent_position \in EntPositions \ {"DETERMINE_READ_METHOD"}
          /\ \A f \in Fields \ MethodFields : q[f] = z[f]
      BY <3>1, ChosenMore
    <3>. HIDE DEF q
    <3>. QED BY <3>1, <3>3, <3>4
  <2>4. <<>> \in Seq(STRING)
    OBVIOUS
  <2>. HIDE DEF q
  <2>. QED BY <2>1, <2>3, <2>4, MethodStep
<1>. QED BY <1>2, <1>3

LEMMA PartsGood == StepsGood("parts")
<1>. SUFFICES ASSUME NEW p, ParserIn(p)  PROVE StepGood("parts", p)
  BY DEF StepsGood
<1>1. \E position \in EntPositions : PartAt(p, position)
  BY DEF ParserIn, PartAt
<1>. QED BY <1>1, ClenGood, SizeGood, BodyGood, TrailersGood, CloseGood, MethodGood DEF EntPositions

\* What parser_parse_entity comes to.
LEMMA EntityGood ==
    ASSUME NEW p, ParserIn(p)
    PROVE  RunGood("parts", p) /\ parser_parse_entity(p) = Run("parts", p)
<1>1. Len(p.msg) \in Nat /\ Len(p.msg) + 2 \in Nat /\ Len(p.msg) + 2 > Rank("parts", p)
  <2>1. Len(p.msg) \in Nat /\ p.cursor \in 0..Len(p.msg)
    BY LenProperties DEF ParserIn
  <2>. QED BY <2>1 DEF Rank
<1>2. parser_parse_entity(p) = It("parts", p, Len(p.msg) + 2)
  BY <1>1, EntityIsIt
<1>. QED BY <1>1, <1>2, PartsGood, RunEnough, RunsGood
-------------------------------------------------------------------------------
(* parser_parse_responseline.                                               *)

\* The format of the status line.
LineFormat == <<"HTTP", "%w", "/", "%w", "%L", "%c">>

LEMMA AtMoved ==
    ASSUME NEW p, IsParser(p), NEW m
    PROVE  /\ IsParser(At(p, m)) /\ At(p, m).cursor = m.at
           /\ \A f \in Fields \ {"cursor"} : At(p, m)[f] = p[f]
BY FieldNames DEF IsParser, At

\* The parser behind the blank lines resumes where it would have gone on.
LEMMA LineResumed ==
    ASSUME NEW p, ParserIn(p), NEW u \in Seq(STRING),
           NEW b, b = At(p, TokensUntil(p.msg, p.cursor, NotBlank))
    PROVE  ParserIn(b) /\ b.position = p.position
           /\ parser_parse_responseline(More(b, u)) = parser_parse_responseline(More(p, u))
<1>. DEFINE v == TokensUntil(p.msg, p.cursor, NotBlank)
            x == More(b, u)
            y == More(p, u)
            w == TokensUntil(y.msg, y.cursor, NotBlank)
<1>1. IsParser(p) /\ p.msg \in Seq(STRING) /\ p.cursor \in 0..Len(p.msg) /\ Len(p.msg) \in Nat
  BY LenProperties DEF ParserIn
<1>2. v.at \in p.cursor..Len(p.msg)
  BY <1>1, TokensUntilSound
<1>. HIDE DEF v
<1>3. b = At(p, v)
  BY DEF v
<1>4. IsParser(b) /\ b.cursor = v.at /\ \A f \in Fields \ {"cursor"} : b[f] = p[f]
  <2>1. IsParser(At(p, v)) /\ At(p, v).cursor = v.at
        /\ \A f \in Fields \ {"cursor"} : At(p, v)[f] = p[f]
    BY <1>1, AtMoved
  <2>. QED BY <1>3, <2>1
<1>5. b.msg = p.msg /\ b.position = p.position /\ b.chunk_size = p.chunk_size
      /\ b.is_request = p.is_request /\ b.ent_position = p.ent_position
  BY <1>4, FieldNames
<1>6. ParserIn(b)
  BY <1>1, <1>2, <1>4, <1>5 DEF ParserIn
<1>7. /\ IsParser(x) /\ x.msg = b.msg \o u /\ \A f \in Fields \ {"msg"} : x[f] = b[f]
      /\ IsParser(y) /\ y.msg = p.msg \o u /\ \A f \in Fields \ {"msg"} : y[f] = p[f]
  BY <1>6, MoreIn, ZenonT(40) DEF ParserIn
<1>. HIDE DEF x, y
<1>8. TokensUntil(x.msg, x.cursor, NotBlank) = w
  <2>1. x.msg = p.msg \o u /\ x.cursor = v.at /\ y.cursor = p.cursor
    BY <1>4, <1>5, <1>7, FieldNames
  <2>2. TokensUntil(p.msg \o u, p.cursor, NotBlank) =
          TokensUntil(p.msg \o u, TokensUntil(p.msg, p.cursor, NotBlank).at, NotBlank)
    BY <1>1, TokensUntilResumed
  <2>. QED BY <1>7, <2>1, <2>2 DEF v
<1>. HIDE DEF w
<1>9. At(x, w) = At(y, w)
  <2>1. \A f \in Fields \ {"cursor"} : x[f] = y[f]
    BY <1>4, <1>5, <1>7
  <2>. DEFINE a == At(x, w)
              c == At(y, w)
  <2>2. IsParser(a) /\ a.cursor = w.at /\ \A f \in Fields \ {"cursor"} : a[f] = x[f]
    BY <1>7, AtMoved
  <2>3. IsParser(c) /\ c.cursor = w.at /\ \A f \in Fields \ {"cursor"} : c[f] = y[f]
    BY <1>7, AtMoved
  <2>. HIDE DEF a, c
  <2>4. \A f \in Fields : a[f] = c[f]
    BY <2>1, <2>2, <2>3
  <2>5. a = c
    BY <2>2, <2>3, <2>4, SameParser
  <2>. QED BY <2>5 DEF a, c
<1>10. parser_parse_responseline(x) = ResponseBehind(R(w.status, At(x, w)))
       /\ parser_parse_responseline(y) = ResponseBehind(R(w.status, At(y, w)))
  BY <1>8 DEF parser_parse_responseline, skip_blank_lines, BlanksPassed, w
<1>. QED BY <1>5, <1>6, <1>9, <1>10 DEF x, y

LineMade(b, m, version, code) ==
  [At(b, m) EXCEPT !.version = version, !.status_code = code, !.position = "HEADERS"]

LEMMA LineMadeMore ==
    ASSUME NEW b, ParserIn(b), NEW m, m.at \in 0..Len(b.msg), NEW version, NEW code,
           NEW u \in Seq(STRING)
    PROVE  LET q == LineMade(b, m, version, code)
           IN /\ ParserIn(q) /\ q.position = "HEADERS"
              /\ LineMade(More(b, u), m, version, code) = More(q, u)
<1>. DEFINE q == LineMade(b, m, version, code)
            l == More(b, u)
            k == LineMade(l, m, version, code)
<1>1. /\ IsParser(b) /\ IsParser(l) /\ l.msg = b.msg \o u /\ \A f \in Fields \ {"msg"} : l[f] = b[f]
  BY MoreIn DEF ParserIn
<1>. HIDE DEF l
<1>2. ASSUME NEW x, IsParser(x)
      PROVE  LET y == LineMade(x, m, version, code)
             IN /\ IsParser(y) /\ y.cursor = m.at /\ y.version = version /\ y.status_code = code
                /\ y.position = "HEADERS"
                /\ \A f \in Fields \ {"cursor", "version", "status_code", "position"} : y[f] = x[f]
  <2>. DEFINE a == At(x, m)
              y == [a EXCEPT !.version = version, !.status_code = code, !.position = "HEADERS"]
  <2>1. IsParser(a) /\ a.cursor = m.at /\ \A f \in Fields \ {"cursor"} : a[f] = x[f]
    BY <1>2, AtMoved
  <2>. HIDE DEF a
  <2>2. /\ IsParser(y) /\ y.version = version /\ y.status_code = code /\ y.position = "HEADERS"
        /\ \A f \in Fields \ {"version", "status_code", "position"} : y[f] = a[f]
    BY <2>1, FieldNames DEF IsParser
  <2>3. LineMade(x, m, version, code) = y
    BY DEF LineMade, a
  <2>. HIDE DEF y
  <2>4. y.cursor = m.at
    BY <2>1, <2>2, FieldNames
  <2>5. \A f \in Fields \ {"cursor", "version", "status_code", "position"} : y[f] = x[f]
    BY <2>1, <2>2
  <2>. QED BY <2>2, <2>3, <2>4, <2>5
<1>3. /\ IsParser(q) /\ q.cursor = m.at /\ q.version = version /\ q.status_code = code
      /\ q.position = "HEADERS"
      /\ \A f \in Fields \ {"cursor", "version", "status_code", "position"} : q[f] = b[f]
  BY <1>1, <1>2
<1>4. /\ IsParser(k) /\ k.cursor = m.at /\ k.version = version /\ k.status_code = code
      /\ k.position = "HEADERS"
      /\ \A f \in Fields \ {"cursor", "version", "status_code", "position"} : k[f] = l[f]
  BY <1>1, <1>2
<1>. HIDE DEF q, k
<1>5. q.msg = b.msg /\ q.chunk_size = b.chunk_size /\ q.is_request = b.is_request
      /\ q.ent_position = b.ent_position
  BY <1>3, FieldNames
<1>6. ParserIn(q)
  BY <1>3, <1>5 DEF ParserIn
<1>7. IsParser(More(q, u)) /\ More(q, u).msg = q.msg \o u
      /\ \A f \in Fields \ {"msg"} : More(q, u)[f] = q[f]
  BY <1>3, FieldNames DEF IsParser, More
<1>8. \A f \in Fields : k[f] = More(q, u)[f]
  <2>1. k.msg = More(q, u).msg
    BY <1>1, <1>4, <1>5, <1>7, FieldNames
  <2>2. \A f \in {"cursor", "version", "status_code", "position"} : k[f] = q[f]
    BY <1>3, <1>4
  <2>3. \A f \in Fields \ {"msg"} : k[f] = q[f]
    BY <1>1, <1>3, <1>4, <2>2
  <2>. QED BY <1>7, <2>1, <2>3
<1>9. k = More(q, u)
  BY <1>4, <1>7, <1>8, SameParser
<1>. QED BY <1>3, <1>6, <1>9 DEF q, k, l

\* The status line is repeated or resumed when more has arrived.
LineGood(p) ==
    LET r == parser_parse_responseline(p)
    IN /\ r = R(r.status, r.p)
       /\ r.status \in {"OK", "FAILURE"} \cup Waits
       /\ r.status \in Waits =>
            /\ ParserIn(r.p) /\ r.p.position = p.position
            /\ \A u \in Seq(STRING) :
                 parser_parse_responseline(More(r.p, u)) = parser_parse_responseline(More(p, u))
       /\ r.status = "OK" =>
            /\ ParserIn(r.p) /\ r.p.position = "HEADERS"
            /\ \A u \in Seq(STRING) : parser_parse_responseline(More(p, u)) = MoreOf(r, u)

LineValid(line) ==
    /\ Len(line) >= 4 /\ line[1] \in DOMAIN VersionValue
    /\ line[2] = " " /\ line[3] \in DOMAIN DigitValue /\ line[4] = " "
    /\ VersionValue[line[1]][2] >= 1

LEMMA ResponseLineCases ==
    ASSUME NEW b, NEW m
    PROVE  FirstLine(b, m) =
             IF m.status # "OK" THEN R(m.status, At(b, m))
             ELSE IF LineValid(m.out[1])
                  THEN R("OK", LineMade(b, m, VersionValue[m.out[1][1]], DigitValue[m.out[1][3]]))
             ELSE R("FAILURE", At(b, m))
<1>. DEFINE line == m.out[1]
<1>1. FirstLine(b, m) = ResponseLine(b, m, line)
  BY DEF FirstLine
<1>. HIDE DEF line
<1>2. ResponseLine(b, m, line) =
        IF m.status # "OK" THEN R(m.status, At(b, m))
        ELSE IF LineValid(line)
             THEN R("OK", LineMade(b, m, VersionValue[line[1]], DigitValue[line[3]]))
        ELSE R("FAILURE", At(b, m))
  BY Zenon DEF ResponseLine, LineValid, LineMade
<1>. QED BY <1>1, <1>2 DEF line

LEMMA ResponseLineGood ==
    ASSUME NEW p, ParserIn(p)
    PROVE  LineGood(p)
<1>. DEFINE v == TokensUntil(p.msg, p.cursor, NotBlank)
            b == At(p, v)
            m == vfmatch(b.msg, b.cursor, LineFormat)
            r == parser_parse_responseline(p)
<1>1. IsParser(p) /\ p.msg \in Seq(STRING) /\ p.cursor \in 0..Len(p.msg) /\ Len(p.msg) \in Nat
  BY LenProperties DEF ParserIn
<1>2. ParserIn(b) /\ b.position = p.position
      /\ \A u \in Seq(STRING) :
           parser_parse_responseline(More(b, u)) = parser_parse_responseline(More(p, u))
  <2>1. <<>> \in Seq(STRING)
    OBVIOUS
  <2>. QED BY <2>1, LineResumed
<1>3. v.status \in Statuses
  BY <1>1, TokensUntilSound
<1>4. /\ b.msg = p.msg /\ IsParser(b) /\ b.cursor = v.at /\ b.msg \in Seq(STRING)
      /\ b.cursor \in 0..Len(b.msg)
  <2>1. IsParser(b) /\ b.cursor = v.at /\ \A f \in Fields \ {"cursor"} : b[f] = p[f]
    BY <1>1, AtMoved
  <2>. HIDE DEF b
  <2>. QED BY <1>2, <2>1, FieldNames DEF ParserIn
<1>5. Len(LineFormat) \in Nat
  BY DEF LineFormat
<1>6. ASSUME NEW x
      PROVE  LET w == TokensUntil(x.msg, x.cursor, NotBlank)
                 a == At(x, w)
             IN parser_parse_responseline(x) =
                  IF w.status # "OK" THEN R(w.status, a)
                  ELSE FirstLine(a, vfmatch(a.msg, a.cursor, LineFormat))
  BY DEF parser_parse_responseline, skip_blank_lines, BlanksPassed, ResponseBehind, LineFormat, R
<1>7. r = IF v.status # "OK" THEN R(v.status, b) ELSE FirstLine(b, m)
  BY <1>6
<1>8. CASE v.status # "OK"
  <2>1. r = R(v.status, b)
    BY <1>7, <1>8
  <2>. HIDE DEF v, b, r
  <2>2. r.status = v.status /\ r.p = b
    BY <2>1 DEF R
  <2>. QED BY <1>2, <1>3, <1>8, <2>1, <2>2 DEF LineGood, Waits, Statuses, r
<1>9. CASE v.status = "OK"
  <2>1. r = FirstLine(b, m)
    BY <1>7, <1>9
  <2>2. m.status \in Found3 /\ m.at \in b.cursor..Len(b.msg) /\ (m.status # "OK" => m.at = b.cursor)
    BY <1>4, <1>5, VfmatchSound
  <2>3. r = IF m.status # "OK" THEN R(m.status, At(b, m))
             ELSE IF LineValid(m.out[1])
                  THEN R("OK", LineMade(b, m, VersionValue[m.out[1][1]], DigitValue[m.out[1][3]]))
             ELSE R("FAILURE", At(b, m))
    BY <2>1, ResponseLineCases
  <2>4. CASE m.status # "OK"
    <3>1. At(b, m) = b
      <4>. HIDE DEF m, b
      <4>. DEFINE a == At(b, m)
      <4>1. IsParser(a) /\ a.cursor = m.at /\ \A f \in Fields \ {"cursor"} : a[f] = b[f]
        BY <1>4, AtMoved
      <4>. HIDE DEF a
      <4>2. \A f \in Fields : a[f] = b[f]
        BY <2>2, <2>4, <4>1
      <4>3. a = b
        BY <1>4, <4>1, <4>2, SameParser
      <4>. QED BY <4>3 DEF a
    <3>2. r = R(m.status, b)
      BY <2>3, <2>4, <3>1
    <3>. HIDE DEF m, b, r
    <3>3. r.status = m.status /\ r.p = b
      BY <3>2 DEF R
    <3>. QED BY <1>2, <2>2, <2>4, <3>2, <3>3 DEF LineGood, Waits, Found3, Statuses, r
  <2>5. CASE m.status = "OK" /\ ~LineValid(m.out[1])
    <3>1. \E q : r = R("FAILURE", q)
      BY <2>3, <2>5
    <3>. QED BY <3>1 DEF LineGood, Waits, R
  <2>6. CASE m.status = "OK" /\ LineValid(m.out[1])
    <3>. DEFINE version == VersionValue[m.out[1][1]]
                code == DigitValue[m.out[1][3]]
                q == LineMade(b, m, version, code)
    <3>1. r = R("OK", q)
      BY <2>3, <2>6
    <3>2. ASSUME NEW u \in Seq(STRING)
          PROVE  /\ ParserIn(q) /\ q.position = "HEADERS"
                 /\ parser_parse_responseline(More(p, u)) = R("OK", More(q, u))
      <4>. DEFINE y == More(p, u)
                  w == TokensUntil(y.msg, y.cursor, NotBlank)
                  a == At(y, w)
      <4>1. IsParser(y) /\ y.msg = p.msg \o u /\ y.cursor = p.cursor
            /\ \A f \in Fields \ {"msg"} : y[f] = p[f]
        <5>1. IsParser(y) /\ y.msg = p.msg \o u /\ \A f \in Fields \ {"msg"} : y[f] = p[f]
          BY MoreIn DEF ParserIn
        <5>. HIDE DEF y
        <5>. QED BY <5>1, FieldNames
      <4>. HIDE DEF y
      <4>2. w = v
        <5>1. v.status # "INCOMPLETE"
          BY <1>9
        <5>2. TokensUntil(p.msg \o u, p.cursor, NotBlank) = v
          BY <1>1, <5>1, TokensUntilStable
        <5>. HIDE DEF v
        <5>. QED BY <4>1, <5>2
      <4>3. a = More(b, u)
        <5>1. IsParser(a) /\ a.cursor = w.at /\ \A f \in Fields \ {"cursor"} : a[f] = y[f]
          BY <4>1, AtMoved
        <5>2. IsParser(b) /\ b.cursor = v.at /\ \A f \in Fields \ {"cursor"} : b[f] = p[f]
          BY <1>1, AtMoved
        <5>. HIDE DEF a, b, v, w
        <5>3. IsParser(More(b, u)) /\ More(b, u).msg = b.msg \o u
              /\ \A f \in Fields \ {"msg"} : More(b, u)[f] = b[f]
          BY <5>2, FieldNames DEF IsParser, More
        <5>4. \A f \in Fields : a[f] = More(b, u)[f]
          <6>1. a.msg = More(b, u).msg
            BY <1>4, <4>1, <5>1, <5>3, FieldNames
          <6>2. a.cursor = b.cursor
            BY <4>2, <5>1, <5>2
          <6>3. \A f \in Fields \ {"msg"} : a[f] = b[f]
            BY <4>1, <5>1, <5>2, <6>2
          <6>. QED BY <5>3, <6>1, <6>3
        <5>. QED BY <5>1, <5>3, <5>4, SameParser
      <4>4. parser_parse_responseline(y) = FirstLine(a, vfmatch(a.msg, a.cursor, LineFormat))
        BY <1>6, <1>9, <4>2
      <4>. HIDE DEF a, b, v, w
      <4>5. a.msg = b.msg \o u /\ a.cursor = b.cursor
        <5>1. More(b, u).msg = b.msg \o u /\ \A f \in Fields \ {"msg"} : More(b, u)[f] = b[f]
          BY <1>2, MoreIn
        <5>. QED BY <4>3, <5>1, FieldNames
      <4>6. vfmatch(a.msg, a.cursor, LineFormat) = m
        <5>1. m.status # "INCOMPLETE"
          BY <2>6
        <5>2. vfmatch(b.msg \o u, b.cursor, LineFormat) = m
          BY <1>4, <1>5, <5>1, VfmatchStable
        <5>. HIDE DEF m
        <5>. QED BY <4>5, <5>2
      <4>. HIDE DEF m
      <4>7. parser_parse_responseline(y) = R("OK", LineMade(More(b, u), m, version, code))
        <5>1. parser_parse_responseline(y) = FirstLine(a, m)
          BY <4>4, <4>6
        <5>2. FirstLine(a, m) = R("OK", LineMade(a, m, version, code))
          BY <2>6, ResponseLineCases
        <5>. QED BY <4>3, <5>1, <5>2
      <4>8. m.at \in 0..Len(b.msg)
        <5>1. Len(b.msg) \in Nat
          BY <1>4, LenProperties
        <5>. QED BY <1>4, <2>2, <5>1
      <4>. HIDE DEF version, code
      <4>9. /\ ParserIn(q) /\ q.position = "HEADERS"
            /\ LineMade(More(b, u), m, version, code) = More(q, u)
        BY <1>2, <4>8, LineMadeMore
      <4>. QED BY <4>7, <4>9 DEF y
    <3>. HIDE DEF q
    <3>3. <<>> \in Seq(STRING)
      OBVIOUS
    <3>4. ParserIn(q) /\ q.position = "HEADERS"
      BY <3>2, <3>3
    <3>. HIDE DEF r
    <3>5. \A u \in Seq(STRING) : parser_parse_responseline(More(p, u)) = MoreOf(r, u)
      BY <3>1, <3>2 DEF MoreOf, R
    <3>. QED BY <3>1, <3>4, <3>5 DEF LineGood, Waits, R, r
  <2>. QED BY <2>4, <2>5, <2>6
<1>. QED BY <1>8, <1>9
-------------------------------------------------------------------------------
(* parser_append: an answer may be fed in pieces.                           *)

\* The positions a response parser is fed in.
Fed == {"RESPONSE_LINE", "HEADERS", "ENTITY"}

\* So is the whole of parser_parse.
ParseGood(p) ==
    LET r == parser_parse(p)
    IN /\ r = R(r.status, r.p)
       /\ r.status \in {"SUCCESS", "FAILURE"} \cup Waits
       /\ r.status \in Waits =>
            /\ ParserIn(r.p) /\ r.p.position \in Fed
            /\ \A u \in Seq(STRING) : Agree(parser_parse(More(r.p, u)), parser_parse(More(p, u)))

LEMMA EntityParsed ==
    ASSUME NEW p, ParserIn(p), p.position = "ENTITY"
    PROVE  parser_parse(p) = Run("parts", p) /\ ParseFrom(p) = Run("parts", p) /\ ParseGood(p)
<1>. DEFINE w == Run("parts", p)
<1>1. ASSUME NEW x, ParserIn(x), x.position = "ENTITY"
      PROVE  ParseFrom(x) = Run("parts", x) /\ parser_parse(x) = Run("parts", x)
  <2>1. ParseFrom(x) = Run("parts", x)
    BY <1>1, EntityGood DEF ParseFrom
  <2>2. Run("parts", x).status # "OK"
    BY <1>1, EntityGood DEF RunGood, Waits
  <2>. QED BY <2>1, <2>2 DEF parser_parse, Then
<1>2. /\ w = R(w.status, w.p)
      /\ w.status \in {"SUCCESS", "FAILURE"} \cup Waits
      /\ w.status \in Waits =>
            /\ ParserIn(w.p) /\ w.p.position = p.position
            /\ \A u \in Seq(STRING) : Agree(Run("parts", More(w.p, u)), Run("parts", More(p, u)))
  BY EntityGood DEF RunGood
<1>. HIDE DEF w
<1>3. ASSUME w.status \in Waits, NEW u \in Seq(STRING)
      PROVE  Agree(parser_parse(More(w.p, u)), parser_parse(More(p, u)))
  <2>1. ParserIn(More(w.p, u)) /\ More(w.p, u).position = "ENTITY"
    BY <1>2, <1>3, MoreIn, FieldNames
  <2>2. ParserIn(More(p, u)) /\ More(p, u).position = "ENTITY"
    BY MoreIn, FieldNames
  <2>3. Agree(Run("parts", More(w.p, u)), Run("parts", More(p, u)))
    BY <1>2, <1>3
  <2>. QED BY <1>1, <2>1, <2>2, <2>3
<1>4. parser_parse(p) = w /\ ParseFrom(p) = w
  BY <1>1 DEF w
<1>5. ParseGood(p)
  BY <1>2, <1>3, <1>4 DEF ParseGood, Fed
<1>. QED BY <1>4, <1>5 DEF w

LEMMA HeadersParsed ==
    ASSUME NEW p, ParserIn(p), p.position = "HEADERS"
    PROVE  /\ ParseGood(p)
           /\ parser_parse(p) = Then(ParseFrom(p))
<1>1. ASSUME NEW x, ParserIn(x), x.position = "HEADERS"
      PROVE  LET w == Run("lines", x)
             IN /\ Then(ParseFrom(x)) = IF w.status = "OK" THEN parser_parse(w.p) ELSE w
                /\ parser_parse(x) = IF w.status = "OK" THEN parser_parse(w.p) ELSE w
                /\ w.status = "OK" => ParserIn(w.p) /\ w.p.position = "ENTITY"
  <2>. DEFINE w == Run("lines", x)
  <2>1. ParseFrom(x) = w
    BY <1>1, HeadersGood DEF ParseFrom
  <2>2. w.status = "OK" => ParserIn(w.p) /\ w.p.position = "ENTITY"
    BY <1>1, HeadersGood DEF RunGood
  <2>. HIDE DEF w
  <2>3. CASE w.status # "OK"
    BY <2>1, <2>3 DEF parser_parse, Then, w
  <2>4. CASE w.status = "OK"
    <3>. DEFINE q == w.p
    <3>1. ParserIn(q) /\ q.position = "ENTITY"
      BY <2>2, <2>4
    <3>. HIDE DEF q
    <3>2. ParseFrom(q) = parser_parse(q) /\ ParseGood(q)
      BY <3>1, EntityParsed
    <3>3. parser_parse(q).status # "OK"
      BY <3>2 DEF ParseGood, Waits
    <3>4. Then(ParseFrom(x)) = parser_parse(q)
      BY <2>1, <2>4, <3>2 DEF Then, q
    <3>5. Then(Then(ParseFrom(x))) = parser_parse(q)
      BY <3>3, <3>4 DEF Then
    <3>6. parser_parse(x) = parser_parse(q)
      BY <3>5 DEF parser_parse
    <3>. QED BY <2>4, <3>1, <3>4, <3>6 DEF q, w
  <2>. QED BY <2>3, <2>4
<1>. DEFINE w == Run("lines", p)
<1>2. Then(ParseFrom(p)) = parser_parse(p)
  BY <1>1
<1>3. parser_parse(p) = IF w.status = "OK" THEN parser_parse(w.p) ELSE w
  BY <1>1
<1>4. /\ w = R(w.status, w.p)
      /\ w.status \in {"SUCCESS", "FAILURE", "OK"} \cup Waits
      /\ w.status \in Waits =>
            /\ ParserIn(w.p) /\ w.p.position = p.position
            /\ \A u \in Seq(STRING) : Agree(Run("lines", More(w.p, u)), Run("lines", More(p, u)))
      /\ w.status = "OK" =>
            /\ ParserIn(w.p) /\ w.p.position = "ENTITY"
            /\ \A u \in Seq(STRING) : Run("lines", More(p, u)) = MoreOf(w, u)
  BY HeadersGood DEF RunGood
<1>. HIDE DEF w
<1>5. CASE w.status = "OK"
  <2>. DEFINE q == w.p
              r == parser_parse(q)
  <2>1. ParserIn(q) /\ q.position = "ENTITY" /\ parser_parse(p) = r
    BY <1>3, <1>4, <1>5
  <2>2. ParseGood(q)
    BY <2>1, EntityParsed
  <2>3. ASSUME NEW u \in Seq(STRING)
        PROVE  parser_parse(More(p, u)) = parser_parse(More(q, u))
    <3>. DEFINE x == More(p, u)
                a == Run("lines", x)
    <3>1. ParserIn(x) /\ x.position = "HEADERS"
      BY MoreIn, FieldNames
    <3>2. a = MoreOf(w, u)
      BY <1>4, <1>5
    <3>3. a.status = "OK" /\ a.p = More(q, u)
      BY <1>5, <3>2 DEF MoreOf, R
    <3>. HIDE DEF x
    <3>4. parser_parse(x) = IF a.status = "OK" THEN parser_parse(a.p) ELSE a
      BY <1>1, <3>1
    <3>. HIDE DEF a
    <3>. QED BY <3>3, <3>4 DEF x
  <2>. HIDE DEF q
  <2>4. ParseGood(p)
    BY <2>1, <2>2, <2>3 DEF ParseGood
  <2>. QED BY <1>2, <2>4
<1>6. CASE w.status # "OK"
  <2>1. parser_parse(p) = w
    BY <1>3, <1>6
  <2>2. ASSUME w.status \in Waits, NEW u \in Seq(STRING)
        PROVE  Agree(parser_parse(More(w.p, u)), parser_parse(More(p, u)))
    <3>. DEFINE x == More(w.p, u)
                y == More(p, u)
                a == Run("lines", x)
                b == Run("lines", y)
    <3>1. ParserIn(x) /\ x.position = "HEADERS"
      BY <1>4, <2>2, MoreIn, FieldNames
    <3>2. ParserIn(y) /\ y.position = "HEADERS"
      BY MoreIn, FieldNames
    <3>3. Agree(a, b)
      BY <1>4, <2>2
    <3>. HIDE DEF x, y
    <3>4. parser_parse(x) = IF a.status = "OK" THEN parser_parse(a.p) ELSE a
      BY <1>1, <3>1
    <3>5. parser_parse(y) = IF b.status = "OK" THEN parser_parse(b.p) ELSE b
      BY <1>1, <3>2
    <3>. HIDE DEF a, b
    <3>. QED BY <3>3, <3>4, <3>5 DEF Agree, x, y
  <2>3. w.status \in {"SUCCESS", "FAILURE"} \cup Waits
    BY <1>4, <1>6
  <2>4. ParseGood(p)
    BY <1>4, <2>1, <2>2, <2>3 DEF ParseGood, Fed
  <2>. QED BY <1>2, <2>4
<1>. QED BY <1>5, <1>6

LEMMA LineParsed ==
    ASSUME NEW p, ParserIn(p), p.position = "RESPONSE_LINE"
    PROVE  ParseGood(p)
<1>1. ASSUME NEW x, ParserIn(x), x.position = "RESPONSE_LINE"
      PROVE  LET w == parser_parse_responseline(x)
             IN parser_parse(x) = IF w.status = "OK" THEN parser_parse(w.p) ELSE w
  <2>. DEFINE w == parser_parse_responseline(x)
  <2>1. ParseFrom(x) = w
    BY <1>1 DEF ParseFrom
  <2>2. w.status = "OK" => ParserIn(w.p) /\ w.p.position = "HEADERS"
    BY <1>1, ResponseLineGood DEF LineGood
  <2>. HIDE DEF w
  <2>3. CASE w.status # "OK"
    BY <2>1, <2>3 DEF parser_parse, Then, w
  <2>4. CASE w.status = "OK"
    <3>1. Then(ParseFrom(w.p)) = parser_parse(w.p)
      BY <2>2, <2>4, HeadersParsed
    <3>2. Then(w) = ParseFrom(w.p)
      BY <2>4 DEF Then
    <3>3. parser_parse(x) = Then(Then(w))
      BY <2>1 DEF parser_parse
    <3>. QED BY <2>4, <3>1, <3>2, <3>3 DEF w
  <2>. QED BY <2>3, <2>4
<1>. DEFINE w == parser_parse_responseline(p)
<1>2. parser_parse(p) = IF w.status = "OK" THEN parser_parse(w.p) ELSE w
  BY <1>1
<1>3. /\ w = R(w.status, w.p)
      /\ w.status \in {"OK", "FAILURE"} \cup Waits
      /\ w.status \in Waits =>
            /\ ParserIn(w.p) /\ w.p.position = p.position
            /\ \A u \in Seq(STRING) :
                 parser_parse_responseline(More(w.p, u)) = parser_parse_responseline(More(p, u))
      /\ w.status = "OK" =>
            /\ ParserIn(w.p) /\ w.p.position = "HEADERS"
            /\ \A u \in Seq(STRING) : parser_parse_responseline(More(p, u)) = MoreOf(w, u)
  BY ResponseLineGood DEF LineGood
<1>. HIDE DEF w
<1>4. CASE w.status = "OK"
  <2>. DEFINE q == w.p
  <2>1. ParserIn(q) /\ q.position = "HEADERS" /\ parser_parse(p) = parser_parse(q)
    BY <1>2, <1>3, <1>4
  <2>2. ParseGood(q)
    BY <2>1, HeadersParsed
  <2>3. ASSUME NEW u \in Seq(STRING)
        PROVE  parser_parse(More(p, u)) = parser_parse(More(q, u))
    <3>. DEFINE x == More(p, u)
                a == parser_parse_responseline(x)
    <3>1. ParserIn(x) /\ x.position = "RESPONSE_LINE"
      BY MoreIn, FieldNames
    <3>2. a = MoreOf(w, u)
      BY <1>3, <1>4
    <3>3. a.status = "OK" /\ a.p = More(q, u)
      BY <1>4, <3>2 DEF MoreOf, R
    <3>. HIDE DEF x
    <3>4. parser_parse(x) = IF a.status = "OK" THEN parser_parse(a.p) ELSE a
      BY <1>1, <3>1
    <3>. HIDE DEF a
    <3>. QED BY <3>3, <3>4 DEF x
  <2>. HIDE DEF q
  <2>. QED BY <2>1, <2>2, <2>3 DEF ParseGood
<1>5. CASE w.status # "OK"
  <2>1. parser_parse(p) = w
    BY <1>2, <1>5
  <2>2. ASSUME w.status \in Waits, NEW u \in Seq(STRING)
        PROVE  Agree(parser_parse(More(w.p, u)), parser_parse(More(p, u)))
    <3>. DEFINE x == More(w.p, u)
                y == More(p, u)
                a == parser_parse_responseline(x)
                b == parser_parse_responseline(y)
    <3>1. ParserIn(x) /\ x.position = "RESPONSE_LINE"
      BY <1>3, <2>2, MoreIn, FieldNames
    <3>2. ParserIn(y) /\ y.position = "RESPONSE_LINE"
      BY MoreIn, FieldNames
    <3>3. a = b
      BY <1>3, <2>2
    <3>. HIDE DEF x, y
    <3>4. parser_parse(x) = IF a.status = "OK" THEN parser_parse(a.p) ELSE a
      BY <1>1, <3>1
    <3>5. parser_parse(y) = IF b.status = "OK" THEN parser_parse(b.p) ELSE b
      BY <1>1, <3>2
    <3>. HIDE DEF a, b
    <3>. QED BY <3>3, <3>4, <3>5 DEF Agree, x, y
  <2>3. w.status \in {"SUCCESS", "FAILURE"} \cup Waits
    BY <1>3, <1>5
  <2>. QED BY <1>3, <2>1, <2>2, <2>3 DEF ParseGood, Fed
<1>. QED BY <1>4, <1>5

\* A parser that has been fed in pieces so far agrees with one that gets everything at once.
LEMMA FedInPieces ==
    ASSUME NEW p, ParserIn(p), p.position \in Fed, NEW b \in Seq(STRING), NEW u \in Seq(STRING),
           NEW r, r = parser_append(p, b), r.status \in Waits
    PROVE  /\ ParserIn(r.p) /\ r.p.position \in Fed
           /\ parser_append(p, b) = R(r.status, r.p)
           /\ Agree(parser_append(r.p, u), parser_append(p, b \o u))
           /\ parser_append(r.p, u).status \in {"SUCCESS", "FAILURE"} \cup Waits
<1>. DEFINE q == More(p, b)
<1>1. ParserIn(q) /\ q.position \in Fed
  BY MoreIn, FieldNames
<1>2. r = parser_parse(q)
  BY DEF parser_append, More
<1>3. ASSUME NEW x, ParserIn(x), x.position \in Fed
      PROVE  ParseGood(x)
  BY <1>3, EntityParsed, HeadersParsed, LineParsed DEF Fed
<1>4. More(q, u) = More(p, b \o u)
  <2>1. IsParser(p) /\ p.msg \in Seq(STRING)
    BY DEF ParserIn
  <2>2. (p.msg \o b) \o u = p.msg \o (b \o u)
    BY <2>1, Regrouped
  <2>. DEFINE l == More(q, u)
              k == More(p, b \o u)
  <2>3. IsParser(q) /\ q.msg = p.msg \o b /\ \A f \in Fields \ {"msg"} : q[f] = p[f]
    BY MoreIn DEF ParserIn
  <2>. HIDE DEF q
  <2>4. IsParser(l) /\ l.msg = q.msg \o u /\ \A f \in Fields \ {"msg"} : l[f] = q[f]
    BY <2>3, FieldNames DEF IsParser, More
  <2>5. IsParser(k) /\ k.msg = p.msg \o (b \o u) /\ \A f \in Fields \ {"msg"} : k[f] = p[f]
    BY <2>1, FieldNames DEF IsParser, More
  <2>. HIDE DEF l, k
  <2>6. \A f \in Fields : l[f] = k[f]
    BY <2>2, <2>3, <2>4, <2>5
  <2>7. l = k
    BY <2>4, <2>5, <2>6, SameParser
  <2>. QED BY <2>7 DEF l, k
<1>. HIDE DEF q
<1>5. /\ r = R(r.status, r.p) /\ ParserIn(r.p) /\ r.p.position \in Fed
      /\ Agree(parser_parse(More(r.p, u)), parser_parse(More(q, u)))
  BY <1>1, <1>2, <1>3 DEF ParseGood
<1>6. parser_append(r.p, u) = parser_parse(More(r.p, u))
      /\ parser_append(p, b \o u) = parser_parse(More(p, b \o u))
  BY DEF parser_append, More
<1>7. ParseGood(More(r.p, u))
  <2>1. ParserIn(More(r.p, u)) /\ More(r.p, u).position \in Fed
    BY <1>5, MoreIn, FieldNames
  <2>. QED BY <1>3, <2>1
<1>. QED BY <1>4, <1>5, <1>6, <1>7 DEF ParseGood
-------------------------------------------------------------------------------
(* The invariant                                                            *)

Docs(kind) ==
    CASE kind = "ACTION" -> {<<>>, <<"response">>, <<"UPnPError">>}
      [] kind = "STATUS" -> {<<>>, <<"value">>, <<"errorDescription">>}
      [] OTHER           -> {<<>>}

KindNames == {"ACTION", "STATUS", "SUBSCRIBE", "UNSUBSCRIBE", "RENEW"}
Codes     == {"SUCCESS", "UPNP_401", "E_INVALID_URL", "E_INVALID_SID", "E_BAD_RESPONSE",
              "E_BAD_HTTPMSG", "E_OUTOF_BOUNDS", "E_SOCKET_CONNECT", "E_SOCKET_ERROR"}
Block     == [kind : KindNames, header : BOOLEAN, cookie : Nat \ {0}]
Event     == [kind : KindNames, cookie : Nat \ {0}, ret : Codes,
              doc : UNION {Docs(k) : k \in KindNames}]

CallMethods == {"NONE", "GET", "POST", "SOAP_POST", "M-POST"}

(* The calls and their connection: the fields that matter here.             *)
CallInv ==
    /\ call \in [op : Ops \cup {"none", "read", "closepost"},
                 pc : {"none", "connect", "send", "recv", "reading"},
                 size : Sizes \cup {0}, method : CallMethods, seconds : Timeouts \cup {0}]
    /\ call.pc = "none" <=> call.op = "none"
    /\ call.pc = "reading" => call.op = "read" /\ handle = "get"
ConnInv ==
    /\ DOMAIN conn = DOMAIN NoConn
    /\ conn.sock \in {"open", "closed"}
    /\ \E t \in Timeouts \cup {0} : conn.left \in 0..t
    /\ conn.sock = "open" => call.op # "none" \/ handle # "none"
HandleInv ==
    /\ handle \in {"none", "failed", "get"} \cup Posts
    /\ cancel \in BOOLEAN /\ leaked \subseteq Gets /\ calls \in 0..MaxCalls
ClientInv == CallInv /\ ConnInv /\ HandleInv

(* The job at work has made a call of its own kind, and when that is over   *)
(* the result is one of its kind.                                           *)
WorkerInv ==
    /\ worker \in Block \cup {None}
    /\ worker # None => asked > 0 /\ worker.kind \in {"ACTION", "STATUS"}
    /\ worker # None /\ call.op # "none" =>
         call.op = IF worker.kind = "ACTION" THEN "action" ELSE "status"
    /\ worker # None /\ call.op = "none" =>
         result.ret \in Codes /\ result.doc \in Docs(worker.kind)
JobsInv ==
    /\ jobs \in Seq(Block) /\ events \in Seq(Event)
    /\ registered \in BOOLEAN /\ asked \in 0..MaxAsync
    /\ \A i \in DOMAIN events : events[i].doc \in Docs(events[i].kind)
    /\ EachCallOnce

AsyncInv == ClientInv /\ WorkerInv /\ JobsInv
-------------------------------------------------------------------------------
(* The calls                                                                *)

LEMMA NoConnFields ==
    /\ NoConn.sock = "closed" /\ NoConn.left = 0
    /\ {"sock", "left", "sent", "wire", "p", "got", "okclose", "answer", "peer"} = DOMAIN NoConn
  BY DEF NoConn

LEMMA LeftNat == ASSUME ConnInv PROVE conn.left \in Nat
  BY ClientAssumption DEF ConnInv

LEMMA SecondsNat == ASSUME CallInv PROVE call.seconds \in 0..call.seconds
<1>1. call.seconds \in Timeouts \cup {0}
  BY DEF CallInv
<1>2. \A t \in Timeouts : t \in Nat
  BY ClientAssumption
<1> QED
  BY <1>1, <1>2

LEMMA IdleSafe == ASSUME call' = Idle PROVE CallInv' /\ call'.op = "none" /\ call'.pc = "none"
  BY DEF Idle, CallInv, CallMethods

LEMMA NoConnSafe == ASSUME conn' = NoConn PROVE ConnInv' /\ conn'.sock = "closed"
  BY NoConnFields DEF ConnInv

(* A connection that only gets older stays owned as long as its call or its *)
(* handle is there.                                                         *)
LEMMA ConnKept ==
    ASSUME ConnInv, DOMAIN conn' = DOMAIN conn, conn'.sock = conn.sock,
           conn'.left \in 0..conn.left, call'.op # "none" \/ handle' # "none"
    PROVE  ConnInv'
<1>1. PICK t \in Timeouts \cup {0} : conn.left \in 0..t
  BY DEF ConnInv
<1>2. t \in Nat
  BY ClientAssumption
<1>3. conn'.left \in 0..t
  BY <1>1, <1>2
<1> QED
  BY <1>3 DEF ConnInv

LEMMA HandleKept ==
    ASSUME HandleInv, handle' \in {"none", "failed", "get"} \cup Posts,
           UNCHANGED <<cancel, leaked, calls>>
    PROVE  HandleInv'
<1>1. cancel' \in BOOLEAN
  BY DEF HandleInv
<1> QED
  BY <1>1 DEF HandleInv

LEMMA InitClientInv == Init => ClientInv
<1> SUFFICES ASSUME Init PROVE ClientInv
  OBVIOUS
<1>1. CallInv
  BY DEF Init, CallInv, Idle, CallMethods
<1>2. ConnInv
  <2>1. conn = NoConn
    BY DEF Init
  <2> QED
    BY <2>1, NoConnFields DEF ConnInv
<1>3. HandleInv
  <2>1. cancel \in BOOLEAN
    BY DEF Init
  <2>2. handle = "none" /\ leaked = {} /\ calls = 0
    BY DEF Init
  <2> QED
    BY <2>1, <2>2, ClientAssumption DEF HandleInv
<1> QED
  BY <1>1, <1>2, <1>3 DEF ClientInv

(* A call that begins finds no handle and takes its timeout with it.        *)
LEMMA BeginsSafe ==
    ASSUME ClientInv, NEW op, NEW valid, NEW request, NEW method \in CallMethods,
           NEW seconds \in Timeouts, Begins(op, valid, request, method, seconds)
    PROVE  CallInv' /\ ConnInv'
<1>1. CASE valid
  <2>1. call' = [op |-> op, pc |-> "connect", size |-> 0, method |-> method, seconds |-> seconds]
    BY <1>1 DEF Begins
  <2>2. conn' = [NoConn EXCEPT !.left = seconds, !.sent = request]
    BY <1>1 DEF Begins
  <2>3. handle' = handle /\ op \in Ops
    BY DEF Begins
  <2>4. CallInv'
    BY <2>1, <2>3, ClientAssumption DEF CallInv
  <2>5. conn'.sock = "closed" /\ conn'.left = seconds /\ DOMAIN conn' = DOMAIN NoConn
    BY <2>2 DEF NoConn
  <2>6. seconds \in 0..seconds
    BY ClientAssumption
  <2>7. ConnInv'
    BY <2>5, <2>6 DEF ConnInv
  <2> QED
    BY <2>4, <2>7
<1>2. CASE ~valid
  BY <1>2 DEF Begins, ClientInv, CallInv, ConnInv
<1> QED
  BY <1>1, <1>2

LEMMA BeginsHandle ==
    ASSUME ClientInv, NEW op, NEW valid, NEW request, NEW method, NEW seconds,
           Begins(op, valid, request, method, seconds)
    PROVE  cancel' \in BOOLEAN /\ handle' = handle /\ leaked' = leaked
<1>1. cancel' = FALSE
  BY DEF Begins
<1>2. handle' = handle /\ leaked' = leaked
  BY DEF Begins
<1> QED
  BY <1>1, <1>2

(* The pieces of an answer that arrive take seconds off the timeout.        *)
LEMMA AfterReadKeeps ==
    ASSUME ConnInv, NEW n, NEW elapsed \in 0..conn.left, NEW a, a = AfterRead(n, elapsed)
    PROVE  /\ DOMAIN a = DOMAIN conn /\ a.sock = conn.sock /\ a.left \in 0..conn.left
           /\ {"sock", "left", "p", "okclose"} \subseteq DOMAIN conn
<1>1. {"sock", "left", "p", "wire", "got", "okclose"} \subseteq DOMAIN conn
  BY NoConnFields DEF ConnInv
<1>2. DOMAIN a = DOMAIN conn /\ a.sock = conn.sock /\ a.left = conn.left - elapsed
  BY <1>1 DEF AfterRead
<1> QED
  BY <1>1, <1>2, LeftNat

-------------------------------------------------------------------------------
(* The steps of the library                                                 *)

LEMMA OpenOps == ASSUME ClientInv, call.pc # "none" PROVE call.op # "none"
  BY DEF ClientInv, CallInv

LEMMA ConnectFailsSafe == ASSUME ClientInv, ConnectFails PROVE ClientInv'
<1>1. call' = Idle /\ conn' = NoConn
  BY DEF ConnectFails, Returns
<1>2. HandleInv'
  <2>1. handle \in {"none", "failed", "get"} \cup Posts /\ HandleInv
    BY DEF ClientInv, HandleInv
  <2>2. UNCHANGED <<handle, cancel, leaked, calls>>
    BY DEF ConnectFails
  <2> QED
    BY <2>1, <2>2, HandleKept
<1> QED
  BY <1>1, <1>2, IdleSafe, NoConnSafe DEF ClientInv

LEMMA HandleSame ==
    ASSUME HandleInv, UNCHANGED <<handle, cancel, leaked, calls>> PROVE HandleInv'
<1>1. handle' \in {"none", "failed", "get"} \cup Posts
  BY DEF HandleInv
<1> QED
  BY <1>1, HandleKept

(* A step of a call that goes on.                                           *)
LEMMA CallGoesOn ==
    ASSUME CallInv, call.op # "none", NEW pc \in {"connect", "send", "recv"},
           call' = [call EXCEPT !.pc = pc], call.pc # "reading"
    PROVE  CallInv' /\ call'.op = call.op
<1>1. call'.op = call.op /\ call'.pc = pc
  BY DEF CallInv
<1> QED
  BY <1>1 DEF CallInv

LEMMA ConnectSafe == ASSUME ClientInv, private_connect PROVE ClientInv'
<1>1. call.pc = "connect" /\ call' = [call EXCEPT !.pc = "send"]
  BY DEF private_connect
<1>2. CallInv' /\ call'.op # "none"
  BY <1>1, OpenOps, CallGoesOn DEF ClientInv
<1>3. DOMAIN conn' = DOMAIN conn /\ conn'.sock = "open" /\ conn'.left = conn.left
  <2>1. {"sock", "left", "p", "peer", "got", "okclose"} \subseteq DOMAIN conn
    BY NoConnFields DEF ClientInv, ConnInv
  <2> QED
    BY <2>1 DEF private_connect
<1>4. ConnInv'
  BY <1>2, <1>3 DEF ClientInv, ConnInv
<1>5. HandleInv'
  BY HandleSame DEF ClientInv, private_connect
<1> QED
  BY <1>2, <1>4, <1>5 DEF ClientInv

LEMMA SendSafe == ASSUME ClientInv, http_SendMessage PROVE ClientInv'
<1>1. call.pc = "send" /\ call' = [call EXCEPT !.pc = "recv"]
  BY DEF http_SendMessage
<1>2. CallInv' /\ call'.op # "none"
  BY <1>1, OpenOps, CallGoesOn DEF ClientInv
<1>3. ConnInv'
  <2>1. PICK a \in Answers(call.op) \cup {NoAnswer}, elapsed \in 0..conn.left :
          conn' = [conn EXCEPT !.answer = a, !.wire = a.units, !.left = @ - elapsed]
    BY DEF http_SendMessage
  <2>2. {"sock", "left", "answer", "wire"} \subseteq DOMAIN conn
    BY NoConnFields DEF ClientInv, ConnInv
  <2>3. DOMAIN conn' = DOMAIN conn /\ conn'.sock = conn.sock /\ conn'.left = conn.left - elapsed
    BY <2>1, <2>2
  <2> QED
    BY <1>2, <2>3, LeftNat, ConnKept DEF ClientInv
<1>4. HandleInv'
  BY HandleSame DEF ClientInv, http_SendMessage
<1> QED
  BY <1>2, <1>3, <1>4 DEF ClientInv

LEMMA PostOpensSafe == ASSUME ClientInv, PostOpens PROVE ClientInv'
<1>1. call' = Idle /\ conn' = conn /\ handle' = call.op /\ call.op \in Posts
  BY DEF PostOpens, Returns
<1>2. ConnInv'
  BY <1>1 DEF Posts, ClientInv, ConnInv
<1>3. HandleInv'
  BY <1>1, HandleKept DEF ClientInv, PostOpens
<1> QED
  BY <1>1, <1>2, <1>3, IdleSafe DEF ClientInv

LEMMA PeerClosesSafe == ASSUME ClientInv, PeerCloses PROVE ClientInv'
<1>1. PICK rest, how :
        conn' = [conn EXCEPT !.peer = how, !.wire = IF how = "reset" THEN <<>> ELSE rest]
  BY DEF PeerCloses
<1>2. UNCHANGED <<call, handle, cancel, leaked, calls>>
  BY DEF PeerCloses
<1>3. {"sock", "left", "peer", "wire"} \subseteq DOMAIN conn
  BY NoConnFields DEF ClientInv, ConnInv
<1>4. DOMAIN conn' = DOMAIN conn /\ conn'.sock = conn.sock /\ conn'.left = conn.left
  BY <1>1, <1>3
<1>5. ConnInv'
  BY <1>2, <1>4 DEF ClientInv, ConnInv
<1>6. HandleInv'
  BY <1>2, HandleSame DEF ClientInv
<1> QED
  BY <1>2, <1>5, <1>6 DEF ClientInv, CallInv

(* The end of an answer frees the connection; a refused SOAP call starts    *)
(* anew with a connection of its own.                                       *)
LEMMA FinishesSafe ==
    ASSUME ClientInv, NEW p, Finishes(p), call.pc = "recv", UNCHANGED <<cancel, leaked, calls>>
    PROVE  ClientInv'
<1>1. handle' = "none"
  BY DEF Finishes
<1>2. HandleInv'
  BY <1>1, HandleKept DEF ClientInv
<1>3. CASE call' = Idle /\ conn' = NoConn
  BY <1>2, <1>3, IdleSafe, NoConnSafe DEF ClientInv
<1>4. CASE /\ call' = [call EXCEPT !.pc = "connect", !.method = "M-POST"]
           /\ conn' = [NoConn EXCEPT !.sent = add_man_header(conn.sent), !.left = call.seconds]
  <2>1. call'.op = call.op /\ call'.pc = "connect" /\ call.op # "none"
    BY <1>4, OpenOps DEF ClientInv, CallInv
  <2>2. CallInv'
    BY <1>4, <2>1 DEF ClientInv, CallInv, CallMethods
  <2>3. DOMAIN conn' = DOMAIN NoConn /\ conn'.sock = "closed" /\ conn'.left = call.seconds
    BY <1>4 DEF NoConn
  <2>4. call.seconds \in Timeouts \cup {0}
    BY DEF ClientInv, CallInv
  <2>5. call.seconds \in 0..call.seconds
    BY SecondsNat DEF ClientInv
  <2>6. ConnInv'
    BY <2>3, <2>4, <2>5 DEF ConnInv
  <2> QED
    BY <1>2, <2>2, <2>6 DEF ClientInv
<1>5. \/ call' = Idle /\ conn' = NoConn
      \/ /\ call' = [call EXCEPT !.pc = "connect", !.method = "M-POST"]
         /\ conn' = [NoConn EXCEPT !.sent = add_man_header(conn.sent), !.left = call.seconds]
  <2>1. CASE call.op = "download"
    BY <2>1 DEF Finishes, Returns, Soaps
  <2>2. CASE call.op = "closepost"
    BY <2>2 DEF Finishes, Returns, Soaps
  <2>3. CASE call.op \in Soaps
    BY <2>3 DEF Finishes, Returns, Soaps, soap_request_and_response
  <2> QED
    BY <2>1, <2>2, <2>3 DEF Finishes
<1> QED
  BY <1>3, <1>4, <1>5

LEMMA BreaksSafe ==
    ASSUME ClientInv, NEW ret, NEW code, Breaks(ret, code), UNCHANGED <<cancel, leaked, calls>>
    PROVE  ClientInv'
<1>1. call' = Idle /\ conn' = NoConn /\ handle' = "none"
  BY DEF Breaks, Returns
<1> QED
  BY <1>1, IdleSafe, NoConnSafe, HandleKept DEF ClientInv

LEMMA RecvMessageSafe ==
    ASSUME ClientInv, NEW n, NEW elapsed, RecvMessage(n, elapsed)
    PROVE  ClientInv'
<1>1. call.pc = "recv" /\ elapsed \in 0..conn.left /\ UNCHANGED <<cancel, leaked, calls>>
  BY DEF RecvMessage, SockReads
<1>2. PICK r : Received(r, n, elapsed)
  BY DEF RecvMessage
<1>3. \/ \E ret, code : Breaks(ret, code)
      \/ Finishes(r.p)
      \/ /\ conn' = [AfterRead(n, elapsed) EXCEPT !.p = r.p,
                       !.okclose = @ \/ r.status = "INCOMPLETE_ENTITY"]
         /\ UNCHANGED <<call, result, handle>>
  BY <1>2 DEF Received
<1>4. CASE \E ret, code : Breaks(ret, code)
  BY <1>1, <1>4, BreaksSafe
<1>5. CASE Finishes(r.p)
  BY <1>1, <1>5, FinishesSafe
<1>6. CASE /\ conn' = [AfterRead(n, elapsed) EXCEPT !.p = r.p,
                         !.okclose = @ \/ r.status = "INCOMPLETE_ENTITY"]
           /\ UNCHANGED <<call, result, handle>>
  <2>1. DOMAIN conn' = DOMAIN conn /\ conn'.sock = conn.sock /\ conn'.left \in 0..conn.left
    <3>1. PICK a : a = AfterRead(n, elapsed)
      OBVIOUS
    <3>2. /\ DOMAIN a = DOMAIN conn /\ a.sock = conn.sock /\ a.left \in 0..conn.left
          /\ {"sock", "left", "p", "okclose"} \subseteq DOMAIN conn
      BY <1>1, <3>1, AfterReadKeeps DEF ClientInv
    <3>3. conn' = [a EXCEPT !.p = r.p, !.okclose = @ \/ r.status = "INCOMPLETE_ENTITY"]
      BY <1>6, <3>1
    <3> QED
      BY <3>2, <3>3
  <2>2. ConnInv'
    BY <1>1, <1>6, <2>1, OpenOps, ConnKept DEF ClientInv
  <2> QED
    BY <1>1, <1>6, <2>2, HandleSame DEF ClientInv, CallInv
<1> QED
  BY <1>3, <1>4, <1>5, <1>6

LEMMA RecvStopsSafe == ASSUME ClientInv, RecvEnds \/ RecvFails PROVE ClientInv'
<1>1. call.pc = "recv" /\ UNCHANGED <<cancel, leaked, calls>>
  BY DEF RecvEnds, RecvFails
<1>2. Finishes(conn.p) \/ \E ret, code : Breaks(ret, code)
  BY DEF RecvEnds, RecvFails
<1> QED
  BY <1>1, <1>2, FinishesSafe, BreaksSafe
LEMMA OpenFailsSafe ==
    ASSUME ClientInv, OpenFails, call.op \in Gets, UNCHANGED <<cancel, calls>>
    PROVE  ClientInv'
<1>1. call' = Idle
  BY DEF OpenFails
<1>2. CASE call.op = "getex"
  <2>1. conn' = NoConn /\ handle' = handle /\ leaked' \in {leaked, leaked \cup {"getex"}}
    BY <1>2 DEF OpenFails, Abandons
  <2>2. cancel' \in BOOLEAN
    BY DEF ClientInv, HandleInv
  <2>3. HandleInv'
    BY <2>1, <2>2 DEF ClientInv, HandleInv, Gets
  <2> QED
    BY <1>1, <2>1, <2>3, IdleSafe, NoConnSafe DEF ClientInv
<1>3. CASE call.op # "getex"
  <2>1. handle' = "failed" /\ conn' = [NoConn EXCEPT !.sock = conn.sock] /\ leaked' = leaked
    BY <1>3 DEF OpenFails
  <2>2. DOMAIN conn' = DOMAIN NoConn /\ conn'.sock \in {"open", "closed"} /\ conn'.left = 0
    BY <2>1 DEF NoConn, ClientInv, ConnInv
  <2>3. ConnInv'
    BY <2>1, <2>2 DEF ConnInv
  <2>4. HandleInv'
    BY <2>1, HandleKept DEF ClientInv
  <2> QED
    BY <1>1, <2>3, <2>4, IdleSafe DEF ClientInv
<1> QED
  BY <1>2, <1>3

LEMMA HeadersSafe ==
    ASSUME ClientInv, NEW n, NEW elapsed, ReadResponseLineAndHeaders(n, elapsed)
    PROVE  ClientInv'
<1>1. /\ call.op \in Gets /\ call.pc = "recv" /\ elapsed \in 0..conn.left
      /\ UNCHANGED <<cancel, calls>>
  BY DEF ReadResponseLineAndHeaders, SockReads
<1>2. PICK r : Heads(n, elapsed, r)
  BY DEF ReadResponseLineAndHeaders
<1>3. CASE OpenFails
  BY <1>1, <1>3, OpenFailsSafe
<1>4. CASE Opens(n, elapsed, r) \/ WaitsForHeaders(n, elapsed, r)
  <2>1. PICK a : a = AfterRead(n, elapsed)
    OBVIOUS
  <2>2. /\ DOMAIN a = DOMAIN conn /\ a.sock = conn.sock /\ a.left \in 0..conn.left
        /\ {"sock", "left", "p", "okclose"} \subseteq DOMAIN conn
    BY <1>1, <2>1, AfterReadKeeps DEF ClientInv
  <2>3. PICK p : conn' = [a EXCEPT !.p = p]
    BY <1>4, <2>1 DEF Opens, WaitsForHeaders
  <2>4. DOMAIN conn' = DOMAIN conn /\ conn'.sock = conn.sock /\ conn'.left \in 0..conn.left
    BY <2>2, <2>3
  <2>5. CASE Opens(n, elapsed, r)
    <3>1. call' = Idle /\ handle' = "get" /\ leaked' = leaked
      BY <2>5 DEF Opens, Returns
    <3>2. ConnInv'
      BY <2>4, <3>1, ConnKept DEF ClientInv
    <3> QED
      BY <1>1, <3>1, <3>2, IdleSafe, HandleKept DEF ClientInv
  <2>6. CASE WaitsForHeaders(n, elapsed, r)
    <3>1. UNCHANGED <<call, handle, leaked>>
      BY <2>6 DEF WaitsForHeaders
    <3>2. ConnInv'
      BY <1>1, <2>4, <3>1, OpenOps, ConnKept DEF ClientInv
    <3> QED
      BY <1>1, <3>1, <3>2, HandleSame DEF ClientInv, CallInv
  <2> QED
    BY <1>4, <2>5, <2>6
<1> QED
  BY <1>2, <1>3, <1>4 DEF Heads

LEMMA GetOpenFailsSafe == ASSUME ClientInv, GetOpenFails PROVE ClientInv'
  BY OpenFailsSafe DEF GetOpenFails

LEMMA DroppedSafe == ASSUME ClientInv, FailedHandleDropped \/ UpnpCloseHttpGet PROVE ClientInv'
<1>1. call' = call /\ conn' = NoConn /\ handle' = "none" /\ call.op = "none"
  BY DEF FailedHandleDropped, UpnpCloseHttpGet, Abandons
<1>2. cancel' \in BOOLEAN /\ calls' = calls /\ leaked' \in {leaked, leaked \cup {"get"}}
  <2>1. cancel' = cancel
    BY DEF FailedHandleDropped, UpnpCloseHttpGet
  <2>2. cancel \in BOOLEAN
    BY DEF ClientInv, HandleInv
  <2>3. calls' = calls /\ leaked' \in {leaked, leaked \cup {"get"}}
    BY DEF FailedHandleDropped, UpnpCloseHttpGet, Abandons
  <2> QED
    BY <2>1, <2>2, <2>3
<1>3. CallInv'
  BY <1>1 DEF ClientInv, CallInv
<1>4. HandleInv'
  BY <1>1, <1>2 DEF ClientInv, HandleInv, Gets
<1> QED
  BY <1>1, <1>3, <1>4, NoConnSafe DEF ClientInv

LEMMA ReadBeginsSafe ==
    ASSUME ClientInv, NEW size \in Sizes, NEW seconds \in Timeouts, ReadBegins(size, seconds)
    PROVE  ClientInv'
<1>1. handle = "get" /\ call.op = "none" /\ UNCHANGED <<handle, cancel, leaked, calls>>
  BY DEF ReadBegins
<1>2. PICK r : Reads(size, seconds, r)
  BY DEF ReadBegins
<1>3. {"sock", "left", "p", "okclose"} \subseteq DOMAIN conn
  BY NoConnFields DEF ClientInv, ConnInv
<1>4. HandleInv'
  BY <1>1, HandleSame DEF ClientInv
<1>5. CASE Usable(r.status)
  <2>1. /\ call' = [op |-> "read", pc |-> "reading", size |-> size, method |-> "GET",
                    seconds |-> seconds]
        /\ conn' = [conn EXCEPT !.p = r.p, !.left = seconds,
                                !.okclose = r.status = "INCOMPLETE_ENTITY"]
    BY <1>2, <1>5 DEF Reads
  <2>2. CallInv'
    BY <1>1, <2>1 DEF CallInv, CallMethods
  <2>3. DOMAIN conn' = DOMAIN conn /\ conn'.sock = conn.sock /\ conn'.left = seconds
    BY <1>3, <2>1
  <2>4. seconds \in 0..seconds
    BY ClientAssumption
  <2>5. ConnInv'
    BY <1>1, <2>3, <2>4 DEF ClientInv, ConnInv
  <2> QED
    BY <1>4, <2>2, <2>5 DEF ClientInv
<1>6. CASE ~Usable(r.status)
  <2>1. call' = call /\ conn' = [conn EXCEPT !.p = r.p]
    BY <1>2, <1>6 DEF Reads
  <2>2. DOMAIN conn' = DOMAIN conn /\ conn'.sock = conn.sock /\ conn'.left = conn.left
    BY <1>3, <2>1
  <2>3. ConnInv'
    BY <1>1, <2>1, <2>2 DEF ClientInv, ConnInv
  <2> QED
    BY <1>1, <1>4, <2>1, <2>3 DEF ClientInv, CallInv
<1> QED
  BY <1>5, <1>6

(* A step of a read leaves the handle open, whether the read goes on or     *)
(* ends.                                                                    *)
LEMMA ReadStepSafe ==
    ASSUME ClientInv, call.pc = "reading", call' \in {call, Idle},
           DOMAIN conn' = DOMAIN conn, conn'.sock = conn.sock, conn'.left \in 0..conn.left,
           UNCHANGED <<handle, cancel, leaked, calls>>
    PROVE  ClientInv'
<1>1. handle = "get"
  BY DEF ClientInv, CallInv
<1>2. ConnInv'
  BY <1>1, ConnKept DEF ClientInv
<1>3. CallInv'
  BY IdleSafe DEF ClientInv, CallInv
<1> QED
  BY <1>2, <1>3, HandleSame DEF ClientInv

LEMMA ReadReceivesSafe ==
    ASSUME ClientInv, NEW n, NEW elapsed, ReadReceives(n, elapsed)
    PROVE  ClientInv'
<1>1. /\ call.pc = "reading" /\ elapsed \in 0..conn.left
      /\ UNCHANGED <<handle, cancel, leaked, calls>>
  BY DEF ReadReceives, SockReads
<1>2. PICK r : TakesBody(n, elapsed, r)
  BY DEF ReadReceives
<1>3. PICK a : a = AfterRead(n, elapsed)
  OBVIOUS
<1>4. /\ DOMAIN a = DOMAIN conn /\ a.sock = conn.sock /\ a.left \in 0..conn.left
      /\ {"sock", "left", "p", "okclose"} \subseteq DOMAIN conn
  BY <1>1, <1>3, AfterReadKeeps DEF ClientInv
<1>5. conn' = [a EXCEPT !.p = r.p, !.okclose = @ \/ r.status = "INCOMPLETE_ENTITY"]
  BY <1>2, <1>3 DEF TakesBody
<1>6. DOMAIN conn' = DOMAIN conn /\ conn'.sock = conn.sock /\ conn'.left \in 0..conn.left
  BY <1>4, <1>5
<1>7. call' \in {call, Idle}
  BY <1>2 DEF TakesBody, Returns
<1> QED
  BY <1>1, <1>6, <1>7, ReadStepSafe

LEMMA ReadStopsSafe == ASSUME ClientInv, ReadReachesEnd \/ ReadBreaks PROVE ClientInv'
<1>1. call.pc = "reading" /\ UNCHANGED <<handle, cancel, leaked, calls>>
  BY DEF ReadReachesEnd, ReadBreaks
<1>2. call' \in {call, Idle} /\ (conn' = conn \/ conn' = [conn EXCEPT !.p.position = "COMPLETE"])
  BY DEF ReadReachesEnd, ReadBreaks, Returns
<1>3. {"sock", "left", "p"} \subseteq DOMAIN conn
  BY NoConnFields DEF ClientInv, ConnInv
<1>4. DOMAIN conn' = DOMAIN conn /\ conn'.sock = conn.sock /\ conn'.left = conn.left
  BY <1>2, <1>3
<1>5. conn'.left \in 0..conn.left
  BY <1>4, LeftNat DEF ClientInv
<1> QED
  BY <1>1, <1>2, <1>4, <1>5, ReadStepSafe

LEMMA ReadEndsSafe == ASSUME ClientInv, ReadEnds PROVE ClientInv'
<1>1. call.pc = "reading" /\ UNCHANGED <<handle, cancel, leaked, calls>>
  BY DEF ReadEnds
<1>2. call' \in {call, Idle}
  BY DEF ReadEnds, Returns
<1>3. \/ conn' = conn
      \/ \E at, size : conn' = [conn EXCEPT !.p.msg = Deleted(@, at, size),
                                  !.p.cursor = @ - size, !.p.amount_discarded = @ + size]
  BY DEF ReadEnds, Returns
<1>4. {"sock", "left", "p"} \subseteq DOMAIN conn
  BY NoConnFields DEF ClientInv, ConnInv
<1>5. DOMAIN conn' = DOMAIN conn /\ conn'.sock = conn.sock /\ conn'.left = conn.left
  BY <1>3, <1>4
<1>6. conn'.left \in 0..conn.left
  BY <1>5, LeftNat DEF ClientInv
<1> QED
  BY <1>1, <1>2, <1>5, <1>6, ReadStepSafe
LEMMA LibrarySafe == ASSUME ClientInv, Library PROVE ClientInv'
<1>1. CASE \E n \in 1..MaxUnits : \E e \in 0..Max(Timeouts) :
             \/ RecvMessage(n, e) \/ ReadResponseLineAndHeaders(n, e) \/ ReadReceives(n, e)
  BY <1>1, RecvMessageSafe, HeadersSafe, ReadReceivesSafe
<1>2. CASE ConnectFails \/ private_connect \/ http_SendMessage \/ PostOpens
  BY <1>2, ConnectFailsSafe, ConnectSafe, SendSafe, PostOpensSafe
<1>3. CASE RecvEnds \/ RecvFails \/ GetOpenFails
  BY <1>3, RecvStopsSafe, GetOpenFailsSafe
<1>4. CASE ReadReachesEnd \/ ReadBreaks \/ ReadEnds
  BY <1>4, ReadStopsSafe, ReadEndsSafe
<1> QED
  BY <1>1, <1>2, <1>3, <1>4 DEF Library

-------------------------------------------------------------------------------
(* The steps of the application                                             *)

LEMMA CancelSafe == ASSUME ClientInv, UpnpCancelHttpGet PROVE ClientInv'
<1>1. cancel' = TRUE
  BY DEF UpnpCancelHttpGet
<1>2. cancel' \in BOOLEAN
  BY <1>1
<1>3. UNCHANGED <<call, conn, handle, leaked, calls>>
  BY DEF UpnpCancelHttpGet
<1>4. HandleInv'
  BY <1>2, <1>3 DEF ClientInv, HandleInv
<1> QED
  BY <1>3, <1>4 DEF ClientInv, CallInv, ConnInv

LEMMA WriteSafe == ASSUME ClientInv, NEW units, http_WriteHttpPost(units) PROVE ClientInv'
<1>1. UNCHANGED <<call, handle, cancel, leaked, calls>>
  BY DEF http_WriteHttpPost
<1>2. conn' = conn \/ \E x : conn' = [conn EXCEPT !.sent = @ \o x]
  BY DEF http_WriteHttpPost
<1>3. {"sock", "left", "sent"} \subseteq DOMAIN conn
  BY NoConnFields DEF ClientInv, ConnInv
<1>4. DOMAIN conn' = DOMAIN conn /\ conn'.sock = conn.sock /\ conn'.left = conn.left
  BY <1>2, <1>3
<1>5. ConnInv' /\ CallInv'
  BY <1>1, <1>4 DEF ClientInv, ConnInv, CallInv
<1> QED
  BY <1>1, <1>5, HandleSame DEF ClientInv

LEMMA ClosePostSafe ==
    ASSUME ClientInv, NEW seconds \in Timeouts, http_CloseHttpPost(seconds)
    PROVE  ClientInv'
<1>1. /\ call' = [op |-> "closepost", pc |-> "recv", size |-> 0, method |-> "POST",
                  seconds |-> seconds]
      /\ UNCHANGED <<handle, cancel, leaked, calls>>
  BY DEF http_CloseHttpPost
<1>2. PICK a, x : conn' = [conn EXCEPT !.answer = a, !.wire = a.units, !.left = seconds,
                             !.sent = @ \o x, !.p = parser_response_init("POST")]
  BY DEF http_CloseHttpPost
<1>3. {"sock", "left", "answer", "wire", "sent", "p"} \subseteq DOMAIN conn
  BY NoConnFields DEF ClientInv, ConnInv
<1>4. DOMAIN conn' = DOMAIN conn /\ conn'.sock = conn.sock /\ conn'.left = seconds
  BY <1>2, <1>3
<1>5. CallInv' /\ call'.op # "none"
  BY <1>1 DEF CallInv, CallMethods
<1>6. seconds \in 0..seconds
  BY ClientAssumption
<1>7. ConnInv'
  BY <1>4, <1>5, <1>6 DEF ClientInv, ConnInv
<1> QED
  BY <1>1, <1>5, <1>7, HandleSame DEF ClientInv

LEMMA SoapBegins ==
    ASSUME NEW url, NEW t,
           SoapSendAction(url, t) \/ SoapSendActionEx(url, t) \/ SoapGetServiceVarStatus(url, t)
    PROVE  \E op \in Soaps : \E valid, request : Begins(op, valid, request, "SOAP_POST", t)
  BY DEF SoapSendAction, SoapSendActionEx, SoapGetServiceVarStatus, Soaps

LEMMA CallBegins ==
    ASSUME NEW url, NEW t, HttpCall(url, t) \/ SoapCall(url, t)
    PROVE  \E op, valid, request : \E method \in CallMethods : Begins(op, valid, request, method, t)
<1>1. CASE http_Download(url, t) \/ http_OpenHttpGetProxy(url, t) \/ http_OpenHttpGetEx(url, t)
  BY <1>1 DEF http_Download, http_OpenHttpGetProxy, http_OpenHttpGetEx, CallMethods
<1>2. CASE \E length \in 0..MaxWrites \cup {UPNP_USING_CHUNKED} : http_OpenHttpPost(url, length, t)
  BY <1>2 DEF http_OpenHttpPost, CallMethods
<1>3. CASE SoapCall(url, t)
  BY <1>3, SoapBegins DEF SoapCall, CallMethods
<1> QED
  BY <1>1, <1>2, <1>3 DEF HttpCall

LEMMA AppSafe == ASSUME ClientInv, App PROVE ClientInv'
<1>1. ASSUME NEW url \in Urls, NEW t \in Timeouts,
             calls < MaxCalls /\ calls' = calls + 1, HttpCall(url, t) \/ SoapCall(url, t)
      PROVE  ClientInv'
  <2>1. PICK op, valid, request : \E method \in CallMethods :
          Begins(op, valid, request, method, t)
    BY <1>1, CallBegins
  <2>2. CallInv' /\ ConnInv'
    BY <2>1, BeginsSafe
  <2>3. cancel' \in BOOLEAN /\ handle' = handle /\ leaked' = leaked
    BY <2>1, BeginsHandle
  <2>4. calls' \in 0..MaxCalls
    BY <1>1, ClientAssumption DEF ClientInv, HandleInv
  <2>5. HandleInv'
    BY <2>3, <2>4 DEF ClientInv, HandleInv
  <2> QED
    BY <2>2, <2>5 DEF ClientInv
<1>2. CASE \E size \in Sizes, t \in Timeouts : ReadBegins(size, t)
  BY <1>2, ReadBeginsSafe
<1>3. CASE UpnpCancelHttpGet \/ UpnpCloseHttpGet \/ FailedHandleDropped
  BY <1>3, CancelSafe, DroppedSafe
<1>4. CASE \E units \in Pieces : http_WriteHttpPost(units)
  BY <1>4, WriteSafe
<1>5. CASE \E t \in Timeouts : http_CloseHttpPost(t)
  BY <1>5, ClosePostSafe
<1> QED
  BY <1>1, <1>2, <1>3, <1>4, <1>5 DEF App
-------------------------------------------------------------------------------
(* The job that a thread works on                                           *)

KindOf(op) == IF op = "action" THEN "ACTION" ELSE "STATUS"

LEMMA DocsOf ==
    /\ Docs(KindOf("action")) = {<<>>, <<"response">>, <<"UPnPError">>}
    /\ Docs(KindOf("status")) = {<<>>, <<"value">>, <<"errorDescription">>}
<1>1. KindOf("action") = "ACTION" /\ KindOf("status") = "STATUS"
  BY DEF KindOf
<1>2. Docs("ACTION") = {<<>>, <<"response">>, <<"UPnPError">>}
  BY DEF Docs
<1>3. Docs("STATUS") = {<<>>, <<"value">>, <<"errorDescription">>}
  BY DEF Docs
<1> QED
  BY <1>1, <1>2, <1>3

(* Whatever the body holds, a document that get_response_value hands out is *)
(* of the kind that was asked for.                                          *)
LEMMA ResponseFits ==
    ASSUME NEW op \in {"action", "status"}, NEW p
    PROVE  /\ get_response_value(op, p).ret \in Codes
           /\ get_response_value(op, p).doc \in Docs(KindOf(op))
<1> DEFINE doc == IF Entity(p) = <<>> THEN "" ELSE Entity(p)[1]
           xml == /\ p.status_code \in {200, 500}
                  /\ httpmsg_find_hdr(p, "CONTENT-TYPE") # {}
                  /\ HeaderValue(p, "CONTENT-TYPE") = Xml
           told == IF op = "status" THEN <<"errorDescription">> ELSE <<"UPnPError">>
           v == CASE xml /\ doc \in Asked(op) -> [ret |-> "SUCCESS", doc |-> <<doc>>]
                  [] xml /\ doc \notin Asked(op) /\ doc = "fault401" ->
                       [ret |-> "UPNP_401", doc |-> told]
                  [] xml /\ doc \notin Asked(op) /\ doc = "fault0" ->
                       [ret |-> "SUCCESS", doc |-> <<>>]
                  [] OTHER -> [ret |-> "E_BAD_RESPONSE", doc |-> <<>>]
<1>1. get_response_value(op, p) = v
  BY DEF get_response_value, ResponseValue
<1> HIDE DEF xml, doc
<1>2. told \in Docs(KindOf(op)) /\ <<>> \in Docs(KindOf(op))
  BY DocsOf
<1>3. ASSUME doc \in Asked(op) PROVE <<doc>> \in Docs(KindOf(op))
  BY <1>3, DocsOf DEF Asked
<1> HIDE DEF told
<1>4. CASE xml /\ doc \in Asked(op)
  <2>1. v = [ret |-> "SUCCESS", doc |-> <<doc>>]
    BY <1>4
  <2> QED
    BY <1>1, <1>3, <1>4, <2>1 DEF Codes
<1>5. CASE xml /\ doc \notin Asked(op) /\ doc = "fault401"
  <2>1. v = [ret |-> "UPNP_401", doc |-> told]
    BY <1>5
  <2> QED
    BY <1>1, <1>2, <2>1 DEF Codes
<1>6. CASE xml /\ doc \notin Asked(op) /\ doc = "fault0"
  <2>1. v = [ret |-> "SUCCESS", doc |-> <<>>]
    BY <1>6
  <2> QED
    BY <1>1, <1>2, <2>1 DEF Codes
<1>7. CASE ~xml \/ (doc \notin Asked(op) /\ doc # "fault401" /\ doc # "fault0")
  <2>1. v = [ret |-> "E_BAD_RESPONSE", doc |-> <<>>]
    BY <1>7
  <2> QED
    BY <1>1, <1>2, <2>1 DEF Codes
<1> QED
  BY <1>4, <1>5, <1>6, <1>7

LEMMA NothingFits == ASSUME NEW op PROVE <<>> \in Docs(KindOf(op))
  BY DEF Docs, KindOf

(* How a step may leave a call of SOAP: still the same, or over with an     *)
(* answer of its kind.                                                      *)
Answered(op) == /\ call'.op = "none"
                /\ result'.ret \in Codes /\ result'.doc \in Docs(KindOf(op))

LEMMA ReturnsAnswered ==
    ASSUME NEW ret \in Codes, NEW code, NEW doc \in Docs(KindOf(call.op)), NEW keep,
           Returns(ret, code, doc, keep)
    PROVE  Answered(call.op)
<1>1. call' = Idle /\ result' = [op |-> call.op, ret |-> ret, code |-> code, doc |-> doc]
  BY DEF Returns
<1> QED
  BY <1>1 DEF Answered, Idle

LEMMA FinishesAnswered ==
    ASSUME CallInv, call.op \in {"action", "status"}, NEW p, Finishes(p)
    PROVE  call'.op = call.op \/ Answered(call.op)
<1>1. soap_request_and_response(p)
  BY DEF Finishes, Soaps
<1>2. CASE call' = [call EXCEPT !.pc = "connect", !.method = "M-POST"]
  BY <1>2 DEF CallInv
<1>3. CASE Returns(get_response_value(call.op, p).ret, p.status_code,
                   get_response_value(call.op, p).doc, FALSE)
  BY <1>3, ResponseFits, ReturnsAnswered
<1> QED
  BY <1>1, <1>2, <1>3 DEF soap_request_and_response

LEMMA SoapStep ==
    ASSUME ClientInv, Library \/ PeerCloses, call.op \in {"action", "status"}
    PROVE  call'.op = call.op \/ Answered(call.op)
<1>0. CallInv
  BY DEF ClientInv
<1>1. ASSUME NEW ret \in Codes, NEW code, Breaks(ret, code) PROVE Answered(call.op)
  BY <1>1, NothingFits, ReturnsAnswered DEF Breaks
<1>2. ASSUME NEW n, NEW e, RecvMessage(n, e) PROVE call'.op = call.op \/ Answered(call.op)
  <2>1. PICK r : Received(r, n, e)
    BY <1>2 DEF RecvMessage
  <2>2. \/ Finishes(r.p)
        \/ Breaks("E_OUTOF_BOUNDS", 413)
        \/ Breaks("E_BAD_HTTPMSG", r.p.http_error_code)
        \/ UNCHANGED call
    BY <2>1 DEF Received
  <2> QED
    BY <1>0, <1>1, <2>2, FinishesAnswered DEF Codes
<1>3. CASE ConnectFails
  <2>1. Returns("E_SOCKET_CONNECT", 0, <<>>, FALSE)
    BY <1>3 DEF ConnectFails
  <2> QED
    BY <2>1, NothingFits, ReturnsAnswered DEF Codes
<1>4. CASE private_connect \/ http_SendMessage \/ PeerCloses
  BY <1>0, <1>4 DEF private_connect, http_SendMessage, PeerCloses, CallInv
<1>5. CASE RecvEnds
  <2>1. Finishes(conn.p) \/ Breaks("E_BAD_HTTPMSG", 400)
    BY <1>5 DEF RecvEnds
  <2> QED
    BY <1>0, <1>1, <2>1, FinishesAnswered DEF Codes
<1>6. CASE RecvFails
  <2>1. Breaks("E_SOCKET_ERROR", conn.p.http_error_code)
    BY <1>6 DEF RecvFails
  <2> QED
    BY <1>1, <2>1 DEF Codes
<1>7. ~PostOpens /\ ~GetOpenFails /\ \A n, e : ~ReadResponseLineAndHeaders(n, e)
  BY DEF PostOpens, GetOpenFails, ReadResponseLineAndHeaders, Posts, Gets
<1>8. /\ ~ReadReachesEnd /\ ~ReadBreaks /\ ~ReadEnds /\ \A n, e : ~ReadReceives(n, e)
  <2>1. call.pc # "reading"
    BY <1>0 DEF CallInv
  <2> QED
    BY <2>1 DEF ReadReachesEnd, ReadBreaks, ReadEnds, ReadReceives
<1> QED
  BY <1>2, <1>3, <1>4, <1>5, <1>6, <1>7, <1>8 DEF Library

(* A step of the library leaves the job that made the call with an answer   *)
(* that fits it.                                                            *)
LEMMA LibraryFits ==
    ASSUME ClientInv, WorkerInv, Library \/ PeerCloses, UNCHANGED asyncVars
    PROVE  WorkerInv'
<1>1. worker' = worker /\ asked' = asked
  BY DEF asyncVars
<1>2. CASE worker = None
  BY <1>1, <1>2 DEF WorkerInv
<1>3. CASE worker # None
  <2>1. call.op # "none"
    <3>1. call.pc # "none"
      BY DEF Library, PeerCloses, ConnectFails, private_connect, http_SendMessage, PostOpens,
             RecvMessage, ReadResponseLineAndHeaders, ReadReceives, RecvEnds, RecvFails,
             GetOpenFails, ReadReachesEnd, ReadBreaks, ReadEnds
    <3> QED
      BY <3>1, OpenOps
  <2>2. call.op \in {"action", "status"} /\ worker.kind = KindOf(call.op)
    BY <1>3, <2>1 DEF WorkerInv, KindOf
  <2>3. call'.op = call.op \/ Answered(call.op)
    BY <2>2, SoapStep
  <2> QED
    BY <1>1, <1>3, <2>1, <2>2, <2>3 DEF WorkerInv, Answered
<1> QED
  BY <1>2, <1>3
-------------------------------------------------------------------------------
(* The places of a call                                                     *)

LEMMA AppendCookies ==
    ASSUME NEW S, NEW s \in Seq(S), NEW e \in S
    PROVE  /\ Append(s, e) \in Seq(S)
           /\ Cookies(Append(s, e)) = Cookies(s) \cup {e.cookie}
           /\ EachOnce(s) /\ e.cookie \notin Cookies(s) => EachOnce(Append(s, e))
<1> DEFINE t == Append(s, e)
<1>1. /\ t \in Seq(S) /\ Len(s) \in Nat /\ DOMAIN s = 1..Len(s) /\ DOMAIN t = 1..(Len(s) + 1)
      /\ \A i \in 1..Len(s) : t[i] = s[i]
      /\ t[Len(s) + 1] = e
  BY AppendProperties
<1> HIDE DEF t
<1>2. Cookies(t) = Cookies(s) \cup {e.cookie}
  <2>1. \A i \in DOMAIN t : i \in DOMAIN s \/ i = Len(s) + 1
    BY <1>1
  <2>2. \A i \in DOMAIN s : i \in DOMAIN t
    BY <1>1
  <2>3. Len(s) + 1 \in DOMAIN t
    BY <1>1
  <2> QED
    BY <1>1, <2>1, <2>2, <2>3 DEF Cookies
<1>3. ASSUME EachOnce(s), e.cookie \notin Cookies(s) PROVE EachOnce(t)
  <2> SUFFICES ASSUME NEW i \in DOMAIN t, NEW j \in DOMAIN t, t[i].cookie = t[j].cookie
               PROVE  i = j
    BY DEF EachOnce
  <2>1. CASE i \in DOMAIN s /\ j \in DOMAIN s
    BY <1>1, <1>3, <2>1 DEF EachOnce
  <2>2. CASE i = Len(s) + 1 /\ j \in DOMAIN s
    BY <1>1, <1>3, <2>2 DEF Cookies
  <2>3. CASE j = Len(s) + 1 /\ i \in DOMAIN s
    BY <1>1, <1>3, <2>3 DEF Cookies
  <2> QED
    BY <1>1, <2>1, <2>2, <2>3
<1> QED
  BY <1>1, <1>2, <1>3 DEF t

LEMMA TailCookies ==
    ASSUME NEW S, NEW s \in Seq(S), s # <<>>
    PROVE  /\ Head(s) \in S /\ Tail(s) \in Seq(S)
           /\ Cookies(s) = Cookies(Tail(s)) \cup {Head(s).cookie}
           /\ EachOnce(s) => EachOnce(Tail(s)) /\ Head(s).cookie \notin Cookies(Tail(s))
<1> DEFINE t == Tail(s)
<1>1. /\ Head(s) = s[1] /\ Head(s) \in S /\ t \in Seq(S)
      /\ Len(s) \in Nat \ {0} /\ DOMAIN s = 1..Len(s) /\ DOMAIN t = 1..(Len(s) - 1)
      /\ \A i \in 1..(Len(s) - 1) : t[i] = s[i + 1]
  BY HeadTailProperties, EmptySeq
<1> HIDE DEF t
<1>2. Cookies(s) = Cookies(t) \cup {s[1].cookie}
  <2>1. \A i \in DOMAIN s : i = 1 \/ (i - 1 \in DOMAIN t /\ t[i - 1] = s[i])
    BY <1>1
  <2>2. \A i \in DOMAIN t : i + 1 \in DOMAIN s /\ t[i] = s[i + 1]
    BY <1>1
  <2>3. 1 \in DOMAIN s
    BY <1>1
  <2> QED
    BY <2>1, <2>2, <2>3 DEF Cookies
<1>3. ASSUME EachOnce(s) PROVE EachOnce(t)
  <2> SUFFICES ASSUME NEW i \in DOMAIN t, NEW j \in DOMAIN t, t[i].cookie = t[j].cookie
               PROVE  i = j
    BY DEF EachOnce
  <2>1. i \in Nat /\ j \in Nat /\ t[i] = s[i + 1] /\ t[j] = s[j + 1]
    BY <1>1
  <2>2. i + 1 \in DOMAIN s /\ j + 1 \in DOMAIN s
    BY <1>1
  <2>3. i + 1 = j + 1
    BY <1>3, <2>1, <2>2 DEF EachOnce
  <2> QED
    BY <2>1, <2>3
<1>4. ASSUME EachOnce(s) PROVE s[1].cookie \notin Cookies(t)
  <2> SUFFICES ASSUME NEW i \in DOMAIN t, s[1].cookie = t[i].cookie PROVE FALSE
    BY DEF Cookies
  <2>1. i \in Nat \ {0} /\ i + 1 \in DOMAIN s /\ 1 \in DOMAIN s /\ t[i] = s[i + 1]
    BY <1>1
  <2>2. 1 = i + 1
    BY <1>4, <2>1 DEF EachOnce
  <2> QED
    BY <2>1, <2>2
<1> QED
  BY <1>1, <1>2, <1>3, <1>4 DEF t

LEMMA NoneApart == ASSUME NEW b \in Block PROVE b # None
  BY DEF Block, KindNames, None
LEMMA PlacesKept ==
    ASSUME EachCallOnce, UNCHANGED <<jobs, worker, events, dropped, asked>> PROVE EachCallOnce'
<1>1. Cookies(events)' = Cookies(events) /\ Cookies(jobs)' = Cookies(jobs) /\ Running' = Running
  BY DEF Cookies, Running
<1>2. EachOnce(events)' /\ EachOnce(jobs)'
  BY DEF EachCallOnce, EachOnce
<1> QED
  BY <1>1, <1>2 DEF EachCallOnce

(* A call that is accepted becomes a job, or is dropped by the pool.        *)
LEMMA SubmitSafe ==
    ASSUME AsyncInv, NEW param, param \in Block, param.cookie = asked + 1, Submits(param)
    PROVE  AsyncInv'
<1>1. /\ UNCHANGED <<vars, registered, worker, events>>
      /\ asked < MaxAsync /\ asked' = asked + 1
  BY DEF Submits
<1>2. ClientInv'
  BY <1>1 DEF AsyncInv, ClientInv, CallInv, ConnInv, HandleInv, vars
<1>3. asked \in 0..MaxAsync /\ asked' \in 0..MaxAsync /\ asked' > 0
  BY <1>1, AsyncAssumption DEF AsyncInv, JobsInv
<1>4. WorkerInv'
  BY <1>1, <1>3 DEF AsyncInv, WorkerInv, vars
<1>5. /\ Cookies(events) \cup Cookies(jobs) \cup Running \cup dropped = 1..asked
      /\ Cookies(events)' = Cookies(events) /\ Running' = Running
      /\ EachCallOnce /\ jobs \in Seq(Block)
  BY <1>1 DEF AsyncInv, JobsInv, EachCallOnce, Cookies, Running
<1>6. param.cookie \notin 1..asked /\ 1..asked' = (1..asked) \cup {param.cookie}
  BY <1>1, <1>3
<1>7. param.cookie \notin Cookies(events) \cup Cookies(jobs) \cup Running \cup dropped
  BY <1>5, <1>6
<1>8. CASE jobs' = Append(jobs, param) /\ UNCHANGED dropped
  <2>1. /\ jobs' \in Seq(Block) /\ Cookies(jobs)' = Cookies(jobs) \cup {param.cookie}
        /\ EachOnce(jobs)'
    BY <1>5, <1>7, <1>8, AppendCookies DEF EachCallOnce, Cookies, EachOnce
  <2>2. EachCallOnce'
    BY <1>1, <1>5, <1>6, <1>7, <1>8, <2>1 DEF EachCallOnce, EachOnce
  <2> QED
    BY <1>1, <1>2, <1>3, <1>4, <2>1, <2>2 DEF AsyncInv, JobsInv
<1>9. CASE dropped' = dropped \cup {param.cookie} /\ UNCHANGED jobs
  <2>1. Cookies(jobs)' = Cookies(jobs)
    BY <1>9 DEF Cookies
  <2>2. EachCallOnce'
    BY <1>1, <1>5, <1>6, <1>7, <1>9, <2>1 DEF EachCallOnce, EachOnce
  <2> QED
    BY <1>1, <1>2, <1>3, <1>4, <1>9, <2>2 DEF AsyncInv, JobsInv
<1> QED
  BY <1>8, <1>9 DEF Submits

LEMMA ParamTyped ==
    ASSUME AsyncInv, NEW kind \in KindNames, NEW header \in BOOLEAN
    PROVE  Param(kind, header) \in Block /\ Param(kind, header).cookie = asked + 1
<1>1. asked + 1 \in Nat \ {0}
  BY AsyncAssumption DEF AsyncInv, JobsInv
<1> QED
  BY <1>1 DEF Param, Block

LEMMA AsyncAppSafe == ASSUME AsyncInv, AsyncApp PROVE AsyncInv'
<1>1. ASSUME NEW kind \in KindNames, NEW header \in BOOLEAN, Submits(Param(kind, header))
      PROVE  AsyncInv'
  BY <1>1, ParamTyped, SubmitSafe
<1>2. CASE UpnpUnRegisterClient
  <2>1. UNCHANGED <<vars, jobs, worker, events, dropped, asked>> /\ registered' = FALSE
    BY <1>2 DEF UpnpUnRegisterClient
  <2>2. ClientInv' /\ WorkerInv'
    BY <2>1 DEF AsyncInv, ClientInv, CallInv, ConnInv, HandleInv, WorkerInv, vars
  <2>3. EachCallOnce'
    BY <2>1, PlacesKept DEF AsyncInv, JobsInv
  <2>4. registered' \in BOOLEAN
    BY <2>1
  <2> QED
    BY <2>1, <2>2, <2>3, <2>4 DEF AsyncInv, JobsInv
<1> QED
  BY <1>1, <1>2 DEF AsyncApp, UpnpSendActionAsync, UpnpSendActionExAsync, UpnpSubscribeAsync,
       UpnpGetServiceVarStatusAsync, UpnpUnSubscribeAsync, UpnpRenewSubscriptionAsync, KindNames

(* A thread takes the job at the head of the queue and makes its call.      *)
LEMMA JobStartsSafe == ASSUME AsyncInv, JobStarts PROVE AsyncInv'
<1>1. /\ worker = None /\ jobs # <<>> /\ worker' = Head(jobs) /\ jobs' = Tail(jobs)
      /\ UNCHANGED <<calls, registered, events, dropped, asked>> /\ jobs \in Seq(Block)
      /\ EachCallOnce
  BY DEF JobStarts, Rests, AsyncInv, JobsInv
<1>2. PICK t \in Timeouts, url \in Urls :
        \/ Head(jobs).kind = "ACTION" /\ SoapSendAction(url, t)
        \/ Head(jobs).kind = "STATUS" /\ SoapGetServiceVarStatus(url, t)
  BY DEF JobStarts
<1>3. PICK op, valid, request :
        /\ op = IF Head(jobs).kind = "ACTION" THEN "action" ELSE "status"
        /\ Begins(op, valid, request, "SOAP_POST", t)
  BY <1>2 DEF SoapSendAction, SoapGetServiceVarStatus
<1>4. Head(jobs).kind \in {"ACTION", "STATUS"}
  BY <1>2
<1>5. ClientInv'
  <2>1. CallInv' /\ ConnInv'
    BY <1>3, BeginsSafe DEF AsyncInv, CallMethods
  <2>2. cancel' \in BOOLEAN /\ handle' = handle /\ leaked' = leaked
    BY <1>3, BeginsHandle DEF AsyncInv
  <2>3. HandleInv'
    BY <1>1, <2>2 DEF AsyncInv, ClientInv, HandleInv
  <2> QED
    BY <2>1, <2>3 DEF ClientInv
<1>6. /\ Head(jobs) \in Block /\ Tail(jobs) \in Seq(Block)
      /\ Cookies(jobs) = Cookies(Tail(jobs)) \cup {Head(jobs).cookie}
      /\ EachOnce(Tail(jobs)) /\ Head(jobs).cookie \notin Cookies(Tail(jobs))
  BY <1>1, TailCookies DEF EachCallOnce
<1>7. worker' # None /\ Running' = {Head(jobs).cookie} /\ Running = {}
  BY <1>1, <1>6, NoneApart DEF Running
<1>8. EachCallOnce'
  <2>1. Cookies(events)' = Cookies(events) /\ Cookies(jobs)' = Cookies(Tail(jobs))
    BY <1>1 DEF Cookies
  <2>2. EachOnce(events)' /\ EachOnce(jobs)'
    BY <1>1, <1>6 DEF EachCallOnce, EachOnce
  <2> QED
    BY <1>1, <1>6, <1>7, <2>1, <2>2 DEF EachCallOnce
<1>9. asked > 0
  <2>1. Head(jobs).cookie \in 1..asked /\ asked \in 0..MaxAsync
    BY <1>1, <1>6 DEF EachCallOnce, AsyncInv, JobsInv
  <2> QED
    BY <2>1, AsyncAssumption
<1>10. WorkerInv'
  <2>1. CASE valid
    <3>1. call'.op = op
      BY <1>3, <2>1 DEF Begins
    <3> QED
      BY <1>1, <1>3, <1>4, <1>6, <1>9, <3>1 DEF WorkerInv
  <2>2. CASE ~valid
    <3>1. result' = Result(op, "E_INVALID_URL") /\ call' = call /\ call.op = "none"
      BY <1>3, <2>2 DEF Begins
    <3>2. result'.ret \in Codes /\ result'.doc = <<>>
      BY <3>1 DEF Result, NoResult, Codes
    <3>3. <<>> \in Docs(worker'.kind)
      BY DEF Docs
    <3> QED
      BY <1>1, <1>4, <1>6, <1>9, <3>1, <3>2, <3>3 DEF WorkerInv
  <2> QED
    BY <2>1, <2>2
<1>11. JobsInv'
  BY <1>1, <1>6, <1>8 DEF AsyncInv, JobsInv
<1> QED
  BY <1>5, <1>10, <1>11 DEF AsyncInv

(* The callback of a call is made when it is in no other place any more.    *)
LEMMA DeliversSafe ==
    ASSUME JobsInv, NEW param \in Block, NEW ret \in Codes, NEW doc \in Docs(param.kind),
           Delivers(param, ret, doc), param.cookie \notin Cookies(events)
    PROVE  /\ events' \in Seq(Event)
           /\ \A i \in DOMAIN events' : events'[i].doc \in Docs(events'[i].kind)
           /\ Cookies(events') = Cookies(events) \cup {param.cookie}
           /\ EachOnce(events')
<1> DEFINE e == [kind |-> param.kind, cookie |-> param.cookie, ret |-> ret, doc |-> doc]
<1>1. e \in Event /\ e.cookie = param.cookie /\ e.doc \in Docs(e.kind)
  BY DEF Event, Block
<1>2. events' = Append(events, e) /\ events \in Seq(Event) /\ EachOnce(events)
  BY DEF Delivers, JobsInv, EachCallOnce
<1> HIDE DEF e
<1>3. /\ events' \in Seq(Event) /\ Cookies(events') = Cookies(events) \cup {param.cookie}
      /\ EachOnce(events')
  BY <1>1, <1>2, AppendCookies
<1>4. \A i \in DOMAIN events' : events'[i].doc \in Docs(events'[i].kind)
  <2>1. \A i \in DOMAIN events' : (i \in DOMAIN events /\ events'[i] = events[i]) \/ events'[i] = e
    BY <1>1, <1>2, AppendProperties
  <2> QED
    BY <1>1, <2>1 DEF JobsInv
<1> QED
  BY <1>3, <1>4

LEMMA GenaJobSafe == ASSUME AsyncInv, GenaJob PROVE AsyncInv'
<1>1. /\ jobs # <<>> /\ jobs' = Tail(jobs) /\ Head(jobs).kind \in {"SUBSCRIBE", "UNSUBSCRIBE", "RENEW"}
      /\ UNCHANGED <<vars, registered, worker, dropped, asked>>
      /\ jobs \in Seq(Block) /\ EachCallOnce /\ JobsInv
  BY DEF GenaJob, AsyncInv, JobsInv
<1>2. PICK ret \in {"SUCCESS", "E_INVALID_SID"} : Delivers(Head(jobs), ret, <<>>)
  BY DEF GenaJob
<1>3. /\ Head(jobs) \in Block /\ Tail(jobs) \in Seq(Block)
      /\ Cookies(jobs) = Cookies(Tail(jobs)) \cup {Head(jobs).cookie}
      /\ EachOnce(Tail(jobs)) /\ Head(jobs).cookie \notin Cookies(Tail(jobs))
  BY <1>1, TailCookies DEF EachCallOnce
<1>4. Head(jobs).cookie \notin Cookies(events)
  BY <1>1, <1>3 DEF EachCallOnce
<1>5. ret \in Codes /\ <<>> \in Docs(Head(jobs).kind)
  BY DEF Codes, Docs
<1>6. /\ events' \in Seq(Event)
      /\ \A i \in DOMAIN events' : events'[i].doc \in Docs(events'[i].kind)
      /\ Cookies(events') = Cookies(events) \cup {Head(jobs).cookie}
      /\ EachOnce(events')
  BY <1>1, <1>2, <1>3, <1>4, <1>5, DeliversSafe
<1>7. EachCallOnce'
  <2>1. Running' = Running /\ Cookies(jobs') = Cookies(Tail(jobs)) /\ EachOnce(jobs')
    BY <1>1, <1>3 DEF Running
  <2> QED
    BY <1>1, <1>3, <1>6, <2>1 DEF EachCallOnce
<1>8. ClientInv' /\ WorkerInv'
  BY <1>1 DEF AsyncInv, ClientInv, CallInv, ConnInv, HandleInv, WorkerInv, vars
<1>9. JobsInv'
  BY <1>1, <1>3, <1>6, <1>7 DEF JobsInv
<1> QED
  BY <1>8, <1>9 DEF AsyncInv

LEMMA JobEndsSafe == ASSUME AsyncInv, JobEnds PROVE AsyncInv'
<1>1. /\ worker # None /\ call.op = "none" /\ worker' = None
      /\ Delivers(worker, result.ret, result.doc)
      /\ UNCHANGED <<vars, registered, jobs, dropped, asked>> /\ EachCallOnce /\ JobsInv
  BY DEF JobEnds, AsyncInv, JobsInv
<1>2. worker \in Block /\ result.ret \in Codes /\ result.doc \in Docs(worker.kind)
  BY <1>1 DEF AsyncInv, WorkerInv
<1>3. Running = {worker.cookie} /\ Running' = {}
  BY <1>1 DEF Running
<1>4. worker.cookie \notin Cookies(events)
  BY <1>1, <1>3 DEF EachCallOnce
<1>5. /\ events' \in Seq(Event)
      /\ \A i \in DOMAIN events' : events'[i].doc \in Docs(events'[i].kind)
      /\ Cookies(events') = Cookies(events) \cup {worker.cookie}
      /\ EachOnce(events')
  BY <1>1, <1>2, <1>4, DeliversSafe
<1>6. EachCallOnce'
  <2>1. Cookies(jobs') = Cookies(jobs) /\ EachOnce(jobs')
    BY <1>1 DEF EachCallOnce
  <2> QED
    BY <1>1, <1>3, <1>5, <2>1 DEF EachCallOnce
<1>7. ClientInv' /\ WorkerInv'
  BY <1>1 DEF AsyncInv, ClientInv, CallInv, ConnInv, HandleInv, WorkerInv, vars
<1>8. JobsInv'
  BY <1>1, <1>5, <1>6 DEF JobsInv
<1> QED
  BY <1>7, <1>8 DEF AsyncInv

(* A call that no job makes: then there is no job yet.                      *)
LEMMA OwnCallSafe ==
    ASSUME AsyncInv, UNCHANGED asyncVars, (asked = 0 /\ App) \/ Library \/ PeerCloses
    PROVE  AsyncInv'
<1>1. ClientInv'
  BY AppSafe, LibrarySafe, PeerClosesSafe DEF AsyncInv
<1>2. WorkerInv'
  <2>1. CASE asked = 0
    <3>1. worker = None /\ worker' = worker /\ asked' = asked
      BY <2>1 DEF AsyncInv, WorkerInv, asyncVars
    <3> QED
      BY <3>1 DEF WorkerInv
  <2>2. CASE Library \/ PeerCloses
    BY <2>2, LibraryFits DEF AsyncInv
  <2> QED
    BY <2>1, <2>2
<1>3. EachCallOnce'
  BY PlacesKept DEF AsyncInv, JobsInv, asyncVars
<1>4. JobsInv'
  BY <1>3 DEF AsyncInv, JobsInv, asyncVars
<1> QED
  BY <1>1, <1>2, <1>4 DEF AsyncInv

LEMMA InitAsyncInv == AsyncInit => AsyncInv
<1> SUFFICES ASSUME AsyncInit PROVE AsyncInv
  OBVIOUS
<1>1. Init /\ jobs = <<>> /\ worker = None /\ events = <<>> /\ dropped = {} /\ asked = 0
  BY DEF AsyncInit
<1>2. WorkerInv
  BY <1>1 DEF WorkerInv
<1>3. Cookies(events) = {} /\ Cookies(jobs) = {} /\ Running = {} /\ 1..asked = {}
  BY <1>1 DEF Cookies, Running
<1>4. EachCallOnce
  BY <1>1, <1>3 DEF EachCallOnce, EachOnce
<1>5. registered \in BOOLEAN
  <2>1. registered = TRUE
    BY DEF AsyncInit
  <2> QED
    BY <2>1
<1>6. JobsInv
  BY <1>1, <1>4, <1>5, AsyncAssumption DEF JobsInv
<1> QED
  BY <1>1, <1>2, <1>6, InitClientInv DEF AsyncInv

LEMMA NextAsyncInv == AsyncInv /\ [AsyncNext]_allVars => AsyncInv'
<1> SUFFICES ASSUME AsyncInv, [AsyncNext]_allVars PROVE AsyncInv'
  OBVIOUS
<1>1. CASE AsyncApp
  BY <1>1, AsyncAppSafe
<1>2. CASE JobStarts \/ GenaJob \/ JobEnds
  BY <1>2, JobStartsSafe, GenaJobSafe, JobEndsSafe
<1>3. CASE ((asked = 0 /\ App) \/ Library \/ PeerCloses) /\ UNCHANGED asyncVars
  BY <1>3, OwnCallSafe
<1>4. CASE UNCHANGED allVars
  <2>1. EachCallOnce'
    BY <1>4, PlacesKept DEF AsyncInv, JobsInv, allVars, asyncVars
  <2> QED
    BY <1>4, <2>1 DEF AsyncInv, ClientInv, CallInv, ConnInv, HandleInv, WorkerInv, JobsInv,
         allVars, asyncVars, vars
<1> QED
  BY <1>1, <1>2, <1>3, <1>4 DEF AsyncNext

LEMMA AsyncInvAccounts == AsyncInv => CallsAccounted
<1> SUFFICES ASSUME AsyncInv PROVE CallsAccounted
  OBVIOUS
<1>1. TypeOK
  <2>1. cancel \in BOOLEAN
    BY DEF AsyncInv, ClientInv, HandleInv
  <2>2. /\ call.op \in Ops \cup {"none", "read", "closepost"}
        /\ call.pc \in {"none", "connect", "send", "recv", "reading"}
    BY DEF AsyncInv, ClientInv, CallInv
  <2>3. /\ handle \in {"none", "failed", "get"} \cup Posts
        /\ calls \in 0..MaxCalls
    BY DEF AsyncInv, ClientInv, HandleInv
  <2> QED
    BY <2>1, <2>2, <2>3 DEF AsyncInv, ClientInv, ConnInv, TypeOK
<1>2. EachCallOnce /\ registered \in BOOLEAN /\ asked \in 0..MaxAsync
  BY DEF AsyncInv, JobsInv
<1>3. worker.cookie \in 0..asked /\ dropped \subseteq 1..asked
  <2>1. CASE worker = None
    BY <1>2, <2>1, AsyncAssumption DEF None, EachCallOnce
  <2>2. CASE worker # None
    BY <1>2, <2>2, AsyncAssumption DEF EachCallOnce, Running
  <2> QED
    BY <2>1, <2>2
<1>4. AnswerFitsQuestion
  <2> SUFFICES ASSUME NEW i \in DOMAIN events, events[i].doc # <<>>
               PROVE  /\ events[i].kind = "STATUS" =>
                           events[i].doc[1] \in {"value", "errorDescription"}
                      /\ events[i].kind = "ACTION" =>
                           events[i].doc[1] \in {"response", "UPnPError"}
    BY DEF AnswerFitsQuestion
  <2>1. events[i].doc \in Docs(events[i].kind)
    BY DEF AsyncInv, JobsInv
  <2>2. CASE events[i].kind = "STATUS"
    <3>1. events[i].doc \in {<<>>, <<"value">>, <<"errorDescription">>}
      BY <2>1, <2>2 DEF Docs
    <3> QED
      BY <2>2, <3>1
  <2>3. CASE events[i].kind = "ACTION"
    <3>1. events[i].doc \in {<<>>, <<"response">>, <<"UPnPError">>}
      BY <2>1, <2>3 DEF Docs
    <3> QED
      BY <2>3, <3>1
  <2> QED
    BY <2>2, <2>3
<1>5. SocketsOwned
  BY DEF AsyncInv, ClientInv, ConnInv, HandleInv, SocketsOwned
<1> QED
  BY <1>1, <1>2, <1>3, <1>4, <1>5 DEF CallsAccounted, AsyncTypeOK

(* CallsAccounted: a call that UpnpSendActionAsync and its siblings have    *)
(* accepted is a job, at work, told to the application or was refused by    *)
(* the pool, in exactly one of these places; its callback tells an answer   *)
(* of its kind; the socket of a connection is open only for a call that     *)
(* runs or a handle that can close it; and the calls that did leave a       *)
(* socket open behind them are GETs that could not be opened, no other.     *)
THEOREM SpecCallsAccounted == AsyncSpec => []CallsAccounted
  BY InitAsyncInv, NextAsyncInv, AsyncInvAccounts, PTL DEF AsyncSpec

-------------------------------------------------------------------------------
(* The pieces of an answer                                                  *)

(* The parser of a call has read nothing yet, or it stands where a parser   *)
(* stands that has read everything received so far at once.                 *)
Fresh == conn.got = <<>> /\ conn.p = parser_response_init(call.method)
Halfway ==
    /\ conn.got # <<>>
    /\ \E s \in Waits : parser_append(parser_response_init(call.method), conn.got) = R(s, conn.p)

PiecesInv ==
    /\ conn.wire \in Seq(STRING) /\ conn.got \in Seq(STRING)
    /\ call.pc \in {"connect", "send"} => call.op \in Ops
    /\ handle \in Posts => handle \in Ops /\ (call.op = "none" => conn.got = <<>>)
    /\ call.pc = "send" => Fresh
    /\ call.pc = "recv" /\ call.op \notin Gets => Fresh \/ Halfway
-------------------------------------------------------------------------------
(* The answer of a call                                                     *)

LEMMA InitialParser ==
    ASSUME NEW m
    PROVE  ParserIn(parser_response_init(m)) /\ parser_response_init(m).position \in Fed
<1>1. IsParser(parser_response_init(m))
  BY DEF IsParser, Fields, parser_response_init, parser_init
<1>. QED
  BY <1>1 DEF ParserIn, EntPositions, Fed, parser_response_init, parser_init

LEMMA ParsedGood == ASSUME NEW x, ParserIn(x), x.position \in Fed PROVE ParseGood(x)
  BY EntityParsed, HeadersParsed, LineParsed DEF Fed

LEMMA FirstPiece ==
    ASSUME NEW m, NEW u \in Seq(STRING), NEW r, r = parser_append(parser_response_init(m), u)
    PROVE  r.status \in {"SUCCESS", "FAILURE"} \cup Waits /\ r = R(r.status, r.p)
<1>. DEFINE p == parser_response_init(m)
<1>1. ParserIn(p) /\ p.position \in Fed
  BY InitialParser
<1>. HIDE DEF p
<1>2. ParserIn(More(p, u)) /\ More(p, u).position \in Fed
  BY <1>1, MoreIn, FieldNames
<1>3. ParseGood(More(p, u))
  BY <1>2, ParsedGood
<1>4. r = parser_parse(More(p, u))
  BY DEF parser_append, More, p
<1>. QED
  BY <1>3, <1>4 DEF ParseGood

LEMMA NextPiece ==
    ASSUME NEW m, NEW b \in Seq(STRING), NEW u \in Seq(STRING), NEW s \in Waits, NEW p,
           parser_append(parser_response_init(m), b) = R(s, p),
           NEW r, r = parser_append(p, u)
    PROVE  /\ r.status \in {"SUCCESS", "FAILURE"} \cup Waits
           /\ r.status \in Waits => parser_append(parser_response_init(m), b \o u) = R(r.status, r.p)
<1>. DEFINE i == parser_response_init(m)
<1>1. ParserIn(i) /\ i.position \in Fed
  BY InitialParser
<1>2. parser_append(i, b) = R(s, p)
  OBVIOUS
<1>. HIDE DEF i
<1>3. R(s, p).status \in Waits /\ R(s, p).p = p
  BY DEF R
<1>4. /\ ParserIn(p) /\ p.position \in Fed
      /\ Agree(parser_append(p, u), parser_append(i, b \o u))
      /\ parser_append(p, u).status \in {"SUCCESS", "FAILURE"} \cup Waits
  <2>1. ParserIn(R(s, p).p) /\ R(s, p).p.position \in Fed
    BY <1>1, <1>2, <1>3, FedInPieces
  <2>2. Agree(parser_append(R(s, p).p, u), parser_append(i, b \o u))
    BY <1>1, <1>2, <1>3, FedInPieces
  <2>3. parser_append(R(s, p).p, u).status \in {"SUCCESS", "FAILURE"} \cup Waits
    BY <1>1, <1>2, <1>3, FedInPieces
  <2>. QED
    BY <1>3, <2>1, <2>2, <2>3
<1>5. r = R(r.status, r.p)
  <2>1. ParserIn(More(p, u)) /\ More(p, u).position \in Fed
    BY <1>4, MoreIn, FieldNames
  <2>2. ParseGood(More(p, u))
    BY <2>1, ParsedGood
  <2>3. r = parser_parse(More(p, u))
    BY DEF parser_append, More
  <2>. QED
    BY <2>2, <2>3 DEF ParseGood
<1>6. r.status \in Waits => r = parser_append(i, b \o u)
  BY <1>4 DEF Agree, Waits
<1>. QED
  BY <1>4, <1>5, <1>6 DEF i

(* What one recv takes off the wire.                                        *)
LEMMA TakenOff ==
    ASSUME NEW wire \in Seq(STRING), NEW got \in Seq(STRING), NEW n \in Nat \ {0}, n <= Len(wire)
    PROVE  /\ SubSeq(wire, 1, n) \in Seq(STRING)
           /\ SubSeq(wire, n + 1, Len(wire)) \in Seq(STRING)
           /\ got \o SubSeq(wire, 1, n) \in Seq(STRING)
           /\ got \o SubSeq(wire, 1, n) # <<>>
           /\ got = <<>> => got \o SubSeq(wire, 1, n) = SubSeq(wire, 1, n)
<1>. DEFINE piece == SubSeq(wire, 1, n)
<1>1. Len(wire) \in Nat /\ piece \in Seq(STRING) /\ Len(piece) = n
  BY SubSeqProperties
<1>2. SubSeq(wire, n + 1, Len(wire)) \in Seq(STRING)
  BY <1>1, SubSeqProperties
<1>. HIDE DEF piece
<1>3. got \o piece \in Seq(STRING) /\ Len(got \o piece) = Len(got) + n
  BY <1>1, ConcatProperties
<1>4. got \o piece # <<>>
  <2>1. Len(got) \in Nat
    BY LenProperties
  <2>. QED
    BY <1>3, <2>1
<1>5. got = <<>> => got \o piece = piece
  BY <1>1, ConcatEmptySeq
<1>. QED
  BY <1>1, <1>2, <1>3, <1>4, <1>5 DEF piece
-------------------------------------------------------------------------------
(* The steps of a call                                                      *)

LEMMA ConnFields ==
    ASSUME ConnInv
    PROVE  {"sock", "left", "sent", "wire", "p", "got", "okclose", "answer", "peer"} = DOMAIN conn
  BY NoConnFields DEF ConnInv

LEMMA WireOfNoConn == NoConn.wire = <<>> /\ NoConn.got = <<>>
  BY DEF NoConn

(* A call that is over, or reads from a handle.                             *)
LEMMA PiecesRest ==
    ASSUME call'.pc \notin {"connect", "send"}, call'.pc # "recv" \/ call'.op \in Gets,
           conn'.wire \in Seq(STRING), conn'.got \in Seq(STRING),
           handle' \in Posts => handle' \in Ops /\ conn'.got = <<>>
    PROVE  PiecesInv'
  BY DEF PiecesInv

(* The connection goes with its call.                                       *)
LEMMA PiecesEnd ==
    ASSUME PiecesInv, call' = Idle, conn' = NoConn, handle' \in {handle, "none", "failed"}
    PROVE  PiecesInv'
<1>1. call'.pc = "none"
  BY DEF Idle
<1>2. conn'.wire = <<>> /\ conn'.got = <<>>
  BY WireOfNoConn
<1>3. handle' \in Posts => handle' \in Ops
  BY DEF PiecesInv, Posts
<1>. QED
  BY <1>1, <1>2, <1>3, PiecesRest

LEMMA PiecesKept ==
    ASSUME PiecesInv, UNCHANGED <<call, handle>>, conn'.wire \in Seq(STRING),
           conn'.got = conn.got, conn'.p = conn.p
    PROVE  PiecesInv'
<1>1. Fresh' = Fresh /\ (Halfway => Halfway')
  BY DEF Fresh, Halfway
<1>. QED
  BY <1>1 DEF PiecesInv

LEMMA PiecesBegin ==
    ASSUME ClientInv, PiecesInv, NEW op, NEW valid, NEW request, NEW method, NEW seconds,
           Begins(op, valid, request, method, seconds)
    PROVE  PiecesInv'
<1>1. handle' = handle /\ handle = "none" /\ op \in Ops
  BY DEF Begins
<1>2. CASE valid
  <2>1. call'.pc = "connect" /\ call'.op = op
    BY <1>2 DEF Begins
  <2>2. conn' = [NoConn EXCEPT !.left = seconds, !.sent = request]
    BY <1>2 DEF Begins
  <2>3. conn'.wire = <<>> /\ conn'.got = <<>>
    BY <2>2 DEF NoConn
  <2>. QED
    BY <1>1, <2>1, <2>3 DEF PiecesInv, Posts
<1>3. CASE ~valid
  <2>1. UNCHANGED <<call, conn>>
    BY <1>3 DEF Begins
  <2>. QED
    BY <1>1, <2>1, PiecesKept DEF PiecesInv
<1>. QED
  BY <1>2, <1>3

LEMMA PiecesConnect == ASSUME ClientInv, PiecesInv, private_connect PROVE PiecesInv'
<1>1. /\ call.pc = "connect" /\ call' = [call EXCEPT !.pc = "send"] /\ handle' = handle
      /\ conn' = [conn EXCEPT !.sock = "open", !.peer = "open",
                              !.p = parser_response_init(call.method), !.got = <<>>,
                              !.okclose = FALSE]
  BY DEF private_connect
<1>2. call'.pc = "send" /\ call'.op = call.op /\ call'.method = call.method
  BY <1>1 DEF ClientInv, CallInv
<1>3. /\ conn'.got = <<>> /\ conn'.wire = conn.wire
      /\ conn'.p = parser_response_init(call.method)
  BY <1>1, ConnFields DEF ClientInv
<1>4. Fresh'
  BY <1>2, <1>3 DEF Fresh
<1>. QED
  BY <1>1, <1>2, <1>3, <1>4 DEF PiecesInv

LEMMA PiecesSend == ASSUME ClientInv, PiecesInv, http_SendMessage PROVE PiecesInv'
<1>1. call.pc = "send" /\ call' = [call EXCEPT !.pc = "recv"] /\ handle' = handle
  BY DEF http_SendMessage
<1>2. call'.pc = "recv" /\ call'.op = call.op /\ call'.method = call.method /\ call.op # "none"
  BY <1>1 DEF ClientInv, CallInv
<1>3. PICK a \in Answers(call.op) \cup {NoAnswer}, elapsed \in 0..conn.left :
        conn' = [conn EXCEPT !.answer = a, !.wire = a.units, !.left = @ - elapsed]
  BY DEF http_SendMessage
<1>4. conn'.wire = a.units /\ conn'.got = conn.got /\ conn'.p = conn.p
  BY <1>3, ConnFields DEF ClientInv
<1>5. a.units \in Seq(STRING)
  <2>1. CASE a = NoAnswer
    BY <2>1 DEF NoAnswer
  <2>2. CASE a \in Answers(call.op)
    <3>1. call.op \in Ops
      BY <1>1 DEF PiecesInv
    <3>. QED
      BY <2>2, <3>1, ClientAssumption
  <2>. QED
    BY <2>1, <2>2
<1>6. Fresh /\ conn.got \in Seq(STRING) /\ (handle \in Posts => handle \in Ops)
  BY <1>1 DEF PiecesInv
<1>7. Fresh'
  BY <1>2, <1>4, <1>6 DEF Fresh
<1>. QED
  BY <1>1, <1>2, <1>4, <1>5, <1>6, <1>7 DEF PiecesInv

LEMMA PiecesPost == ASSUME ClientInv, PiecesInv, PostOpens PROVE PiecesInv'
<1>1. call' = Idle /\ conn' = conn /\ handle' = call.op /\ call.pc = "send"
  BY DEF PostOpens, Returns
<1>2. call'.pc = "none"
  BY <1>1 DEF Idle
<1>3. call.op \in Ops /\ conn.got = <<>> /\ conn.wire \in Seq(STRING)
  BY <1>1 DEF PiecesInv, Fresh
<1>. QED
  BY <1>1, <1>2, <1>3, PiecesRest

LEMMA PiecesPeer == ASSUME ClientInv, PiecesInv, PeerCloses PROVE PiecesInv'
<1>1. PICK rest \in {conn.wire, <<>>}, how \in {"closed", "reset"} :
        conn' = [conn EXCEPT !.peer = how, !.wire = IF how = "reset" THEN <<>> ELSE rest]
  BY DEF PeerCloses
<1>2. conn'.wire \in {conn.wire, <<>>} /\ conn'.got = conn.got /\ conn'.p = conn.p
  BY <1>1, ConnFields DEF ClientInv
<1>3. conn'.wire \in Seq(STRING)
  <2>1. conn.wire \in Seq(STRING) /\ <<>> \in Seq(STRING)
    BY DEF PiecesInv
  <2>. QED
    BY <1>2, <2>1
<1>4. UNCHANGED <<call, handle>>
  BY DEF PeerCloses
<1>. QED
  BY <1>2, <1>3, <1>4, PiecesKept

LEMMA PiecesFinish ==
    ASSUME ClientInv, PiecesInv, NEW p, Finishes(p), call.pc = "recv"
    PROVE  PiecesInv'
<1>1. handle' = "none"
  BY DEF Finishes
<1>2. CASE call' = Idle /\ conn' = NoConn
  BY <1>1, <1>2, PiecesEnd
<1>3. CASE ~(call' = Idle /\ conn' = NoConn)
  <2>1. /\ call.op \in Soaps
        /\ call' = [call EXCEPT !.pc = "connect", !.method = "M-POST"]
        /\ conn' = [NoConn EXCEPT !.sent = add_man_header(conn.sent), !.left = call.seconds]
    BY <1>3 DEF Finishes, Returns, Soaps, soap_request_and_response
  <2>2. call'.pc = "connect" /\ call'.op = call.op
    BY <2>1 DEF ClientInv, CallInv
  <2>3. call.op \in Ops
    BY <2>1 DEF ClientInv, CallInv, Soaps
  <2>4. conn'.wire = <<>> /\ conn'.got = <<>>
    BY <2>1 DEF NoConn
  <2>. QED
    BY <1>1, <2>2, <2>3, <2>4 DEF PiecesInv, Posts
<1>. QED
  BY <1>2, <1>3

LEMMA PiecesBreak ==
    ASSUME PiecesInv, NEW ret, NEW code, Breaks(ret, code) PROVE PiecesInv'
  BY PiecesEnd DEF Breaks, Returns

(* The fields of a connection that has received another piece.              *)
LEMMA PieceTaken ==
    ASSUME ClientInv, PiecesInv, NEW n \in 1..MaxUnits, NEW elapsed, SockReads(n, elapsed),
           NEW a, a = AfterRead(n, elapsed)
    PROVE  /\ {"wire", "got", "p", "okclose"} \subseteq DOMAIN a
           /\ a.wire \in Seq(STRING) /\ a.got \in Seq(STRING) /\ a.got # <<>>
           /\ a.got = conn.got \o SubSeq(conn.wire, 1, n)
           /\ SubSeq(conn.wire, 1, n) \in Seq(STRING)
           /\ conn.got = <<>> => a.got = SubSeq(conn.wire, 1, n)
<1>1. a = [conn EXCEPT !.wire = SubSeq(@, n + 1, Len(@)), !.got = @ \o SubSeq(conn.wire, 1, n),
                       !.left = @ - elapsed]
  BY DEF AfterRead
<1>2. /\ DOMAIN a = DOMAIN conn /\ a.wire = SubSeq(conn.wire, n + 1, Len(conn.wire))
      /\ a.got = conn.got \o SubSeq(conn.wire, 1, n)
  BY <1>1, ConnFields DEF ClientInv
<1>3. conn.wire \in Seq(STRING) /\ conn.got \in Seq(STRING)
  BY DEF PiecesInv
<1>4. n \in Nat \ {0} /\ n <= Len(conn.wire)
  BY ClientAssumption DEF SockReads
<1>5. /\ SubSeq(conn.wire, 1, n) \in Seq(STRING)
      /\ SubSeq(conn.wire, n + 1, Len(conn.wire)) \in Seq(STRING)
      /\ conn.got \o SubSeq(conn.wire, 1, n) \in Seq(STRING)
      /\ conn.got \o SubSeq(conn.wire, 1, n) # <<>>
      /\ conn.got = <<>> => conn.got \o SubSeq(conn.wire, 1, n) = SubSeq(conn.wire, 1, n)
  BY <1>3, <1>4, TakenOff
<1>6. {"wire", "got", "p", "okclose"} \subseteq DOMAIN conn
  BY ConnFields DEF ClientInv
<1>. QED
  BY <1>2, <1>5, <1>6

LEMMA PiecesRecv ==
    ASSUME ClientInv, PiecesInv, NEW n \in 1..MaxUnits, NEW elapsed, RecvMessage(n, elapsed)
    PROVE  PiecesInv'
<1>. DEFINE u == SubSeq(conn.wire, 1, n)
            r == parser_append(conn.p, u)
            i == parser_response_init(call.method)
<1>1. /\ call.pc = "recv" /\ call.op \notin Gets /\ SockReads(n, elapsed)
      /\ Received(r, n, elapsed)
  BY DEF RecvMessage
<1>2. PICK a : a = AfterRead(n, elapsed)
  OBVIOUS
<1>3. /\ {"wire", "got", "p", "okclose"} \subseteq DOMAIN a
      /\ a.wire \in Seq(STRING) /\ a.got \in Seq(STRING) /\ a.got # <<>>
      /\ a.got = conn.got \o u /\ u \in Seq(STRING)
      /\ conn.got = <<>> => a.got = u
  BY <1>1, <1>2, PieceTaken
<1>4. Fresh \/ Halfway
  BY <1>1 DEF PiecesInv
<1>5. conn.got \in Seq(STRING)
  BY DEF PiecesInv
<1>. HIDE DEF u
<1>6. /\ r.status \in {"SUCCESS", "FAILURE"} \cup Waits
      /\ r.status \in Waits => parser_append(i, a.got) = R(r.status, r.p)
  <2>1. CASE Fresh
    <3>1. r = parser_append(i, u) /\ a.got = u
      BY <1>3, <2>1 DEF Fresh
    <3>. HIDE DEF r, i
    <3>2. r.status \in {"SUCCESS", "FAILURE"} \cup Waits /\ r = R(r.status, r.p)
      BY <1>3, <3>1, FirstPiece DEF i
    <3>. QED
      BY <3>1, <3>2
  <2>2. CASE Halfway
    <3>1. PICK s \in Waits : parser_append(i, conn.got) = R(s, conn.p)
      BY <2>2 DEF Halfway
    <3>. HIDE DEF r
    <3>2. r = parser_append(conn.p, u)
      BY DEF r
    <3>3. /\ r.status \in {"SUCCESS", "FAILURE"} \cup Waits
          /\ r.status \in Waits => parser_append(i, conn.got \o u) = R(r.status, r.p)
      BY <1>3, <1>5, <3>1, <3>2, NextPiece
    <3>. QED
      BY <1>3, <3>3
  <2>. QED
    BY <1>4, <2>1, <2>2
<1>. HIDE DEF r, i
<1>7. CASE r.status \in {"SUCCESS", "FAILURE"}
  <2>1. Finishes(r.p) \/ \E ret, code : Breaks(ret, code)
    BY <1>1, <1>7 DEF Received
  <2>. QED
    BY <1>1, <2>1, PiecesFinish, PiecesBreak
<1>8. CASE r.status \in Waits
  <2>1. /\ conn' = [a EXCEPT !.p = r.p, !.okclose = @ \/ r.status = "INCOMPLETE_ENTITY"]
        /\ UNCHANGED <<call, handle>>
    BY <1>1, <1>2, <1>8 DEF Received, Waits
  <2>2. conn'.wire = a.wire /\ conn'.got = a.got /\ conn'.p = r.p
    BY <1>3, <2>1
  <2>3. Halfway'
    <3>1. parser_append(parser_response_init(call'.method), conn'.got) = R(r.status, conn'.p)
      BY <1>6, <1>8, <2>1, <2>2 DEF i
    <3>. QED
      BY <1>3, <1>8, <2>2, <3>1 DEF Halfway
  <2>4. handle' \in Posts => handle' \in Ops /\ call'.op # "none"
    BY <1>1, <2>1, OpenOps DEF PiecesInv
  <2>. QED
    BY <1>1, <1>3, <2>1, <2>2, <2>3, <2>4 DEF PiecesInv
<1>. QED
  BY <1>6, <1>7, <1>8

LEMMA PiecesStop == ASSUME ClientInv, PiecesInv, RecvEnds \/ RecvFails PROVE PiecesInv'
<1>1. call.pc = "recv"
  BY DEF RecvEnds, RecvFails
<1>2. Finishes(conn.p) \/ \E ret, code : Breaks(ret, code)
  BY DEF RecvEnds, RecvFails
<1>. QED
  BY <1>1, <1>2, PiecesFinish, PiecesBreak

LEMMA PiecesOpenFail ==
    ASSUME PiecesInv, OpenFails
    PROVE  PiecesInv'
<1>1. call' = Idle /\ handle' \in {handle, "failed"}
  BY DEF OpenFails
<1>2. CASE conn' = NoConn
  BY <1>1, <1>2, PiecesEnd
<1>3. CASE conn' = [NoConn EXCEPT !.sock = conn.sock] /\ handle' = "failed"
  <2>1. conn'.wire = <<>> /\ conn'.got = <<>>
    BY <1>3 DEF NoConn
  <2>2. call'.pc = "none"
    BY <1>1 DEF Idle
  <2>3. handle' \notin Posts
    BY <1>3 DEF Posts
  <2>4. conn'.wire \in Seq(STRING) /\ conn'.got \in Seq(STRING)
    BY <2>1
  <2>. QED
    BY <2>2, <2>3, <2>4, PiecesRest
<1>. QED
  BY <1>2, <1>3 DEF OpenFails, Abandons

LEMMA PiecesHeaders ==
    ASSUME ClientInv, PiecesInv, NEW n \in 1..MaxUnits, NEW elapsed,
           ReadResponseLineAndHeaders(n, elapsed)
    PROVE  PiecesInv'
<1>1. call.op \in Gets /\ call.pc = "recv" /\ SockReads(n, elapsed)
  BY DEF ReadResponseLineAndHeaders
<1>2. PICK r : Heads(n, elapsed, r)
  BY DEF ReadResponseLineAndHeaders
<1>3. PICK a : a = AfterRead(n, elapsed)
  OBVIOUS
<1>4. /\ {"wire", "got", "p", "okclose"} \subseteq DOMAIN a
      /\ a.wire \in Seq(STRING) /\ a.got \in Seq(STRING)
  BY <1>1, <1>3, PieceTaken
<1>5. CASE Opens(n, elapsed, r)
  <2>1. PICK p : conn' = [a EXCEPT !.p = p]
    BY <1>3, <1>5 DEF Opens
  <2>2. call'.pc = "none" /\ handle' = "get"
    BY <1>5 DEF Opens, Returns, Idle
  <2>3. conn'.wire = a.wire /\ conn'.got = a.got
    BY <1>4, <2>1
  <2>. QED
    BY <1>4, <2>2, <2>3, PiecesRest DEF Posts
<1>6. CASE WaitsForHeaders(n, elapsed, r)
  <2>1. conn' = [a EXCEPT !.p = r.p] /\ UNCHANGED <<call, handle>>
    BY <1>3, <1>6 DEF WaitsForHeaders
  <2>2. conn'.wire = a.wire /\ conn'.got = a.got
    BY <1>4, <2>1
  <2>3. call'.op # "none" /\ (handle' \in Posts => handle' \in Ops)
    BY <1>1, <2>1, OpenOps DEF PiecesInv
  <2>. QED
    BY <1>1, <1>4, <2>1, <2>2, <2>3 DEF PiecesInv
<1>. QED
  BY <1>2, <1>5, <1>6, PiecesOpenFail DEF Heads

LEMMA PiecesGetFail == ASSUME PiecesInv, GetOpenFails PROVE PiecesInv'
  BY PiecesOpenFail DEF GetOpenFails

(* The reads of a handle that stays open.                                   *)
LEMMA PiecesRead ==
    ASSUME PiecesInv, handle = "get", handle' = handle, call'.pc \in {"none", "reading"},
           conn'.wire \in Seq(STRING), conn'.got \in Seq(STRING)
    PROVE  PiecesInv'
  BY PiecesRest DEF Posts

LEMMA IdleOrReading ==
    ASSUME call.pc = "reading", call' \in {call, Idle} PROVE call'.pc \in {"none", "reading"}
  BY DEF Idle

LEMMA PiecesReadReceives ==
    ASSUME ClientInv, PiecesInv, NEW n \in 1..MaxUnits, NEW elapsed, ReadReceives(n, elapsed)
    PROVE  PiecesInv'
<1>1. call.pc = "reading" /\ SockReads(n, elapsed) /\ handle' = handle
  BY DEF ReadReceives
<1>2. PICK r : TakesBody(n, elapsed, r)
  BY DEF ReadReceives
<1>3. PICK a : a = AfterRead(n, elapsed)
  OBVIOUS
<1>4. /\ {"wire", "got", "p", "okclose"} \subseteq DOMAIN a
      /\ a.wire \in Seq(STRING) /\ a.got \in Seq(STRING)
  BY <1>1, <1>3, PieceTaken
<1>5. conn' = [a EXCEPT !.p = r.p, !.okclose = @ \/ r.status = "INCOMPLETE_ENTITY"]
  BY <1>2, <1>3 DEF TakesBody
<1>6. conn'.wire = a.wire /\ conn'.got = a.got
  BY <1>4, <1>5
<1>7. call' \in {call, Idle}
  BY <1>2 DEF TakesBody, Returns
<1>8. handle = "get"
  BY <1>1 DEF ClientInv, CallInv
<1>. QED
  BY <1>1, <1>4, <1>6, <1>7, <1>8, IdleOrReading, PiecesRead

LEMMA PiecesReadStops ==
    ASSUME ClientInv, PiecesInv, ReadReachesEnd \/ ReadBreaks \/ ReadEnds PROVE PiecesInv'
<1>1. call.pc = "reading" /\ handle' = handle
  BY DEF ReadReachesEnd, ReadBreaks, ReadEnds
<1>2. call' \in {call, Idle}
  BY DEF ReadReachesEnd, ReadBreaks, ReadEnds, Returns
<1>3. \/ conn' = conn
      \/ conn' = [conn EXCEPT !.p.position = "COMPLETE"]
      \/ \E at, size : conn' = [conn EXCEPT !.p.msg = Deleted(@, at, size),
                                  !.p.cursor = @ - size, !.p.amount_discarded = @ + size]
  <2>1. CASE ReadReachesEnd \/ ReadBreaks
    BY <2>1 DEF ReadReachesEnd, ReadBreaks
  <2>2. CASE ReadEnds
    <3>1. \/ conn' = conn
          \/ \E at, size : conn' = [conn EXCEPT !.p.msg = Deleted(@, at, size),
                                      !.p.cursor = @ - size, !.p.amount_discarded = @ + size]
      BY <2>2 DEF ReadEnds, Returns
    <3>. QED
      BY <3>1, Zenon
  <2>. QED
    BY <2>1, <2>2
<1>4. conn'.wire = conn.wire /\ conn'.got = conn.got
  BY <1>3, ConnFields DEF ClientInv
<1>5. handle = "get"
  BY <1>1 DEF ClientInv, CallInv
<1>6. conn'.wire \in Seq(STRING) /\ conn'.got \in Seq(STRING)
  BY <1>4 DEF PiecesInv
<1>. QED
  BY <1>1, <1>2, <1>5, <1>6, IdleOrReading, PiecesRead

LEMMA PiecesLibrary == ASSUME ClientInv, PiecesInv, Library PROVE PiecesInv'
<1>1. CASE \E n \in 1..MaxUnits : \E e \in 0..Max(Timeouts) :
             \/ RecvMessage(n, e) \/ ReadResponseLineAndHeaders(n, e) \/ ReadReceives(n, e)
  BY <1>1, PiecesRecv, PiecesHeaders, PiecesReadReceives
<1>2. CASE ConnectFails
  BY <1>2, PiecesEnd DEF ConnectFails, Returns
<1>3. CASE private_connect \/ http_SendMessage \/ PostOpens
  BY <1>3, PiecesConnect, PiecesSend, PiecesPost
<1>4. CASE RecvEnds \/ RecvFails \/ GetOpenFails
  BY <1>4, PiecesStop, PiecesGetFail
<1>5. CASE ReadReachesEnd \/ ReadBreaks \/ ReadEnds
  BY <1>5, PiecesReadStops
<1>. QED
  BY <1>1, <1>2, <1>3, <1>4, <1>5 DEF Library

-------------------------------------------------------------------------------
(* The steps of the application                                             *)

LEMMA PiecesHandle ==
    ASSUME ClientInv, PiecesInv, NEW size, NEW seconds,
           ReadBegins(size, seconds) \/ UpnpCancelHttpGet
    PROVE  PiecesInv'
<1>1. CASE UpnpCancelHttpGet
  <2>1. UNCHANGED <<call, conn, handle>>
    BY <1>1 DEF UpnpCancelHttpGet
  <2>. QED
    BY <2>1, PiecesKept DEF PiecesInv
<1>2. CASE ReadBegins(size, seconds)
  <2>1. handle = "get" /\ handle' = handle /\ call.op = "none"
    BY <1>2 DEF ReadBegins
  <2>2. PICK r : Reads(size, seconds, r)
    BY <1>2 DEF ReadBegins
  <2>3. call.pc = "none"
    BY <2>1 DEF ClientInv, CallInv
  <2>4. call'.pc \in {"none", "reading"}
    BY <2>2, <2>3 DEF Reads
  <2>5. \/ conn' = [conn EXCEPT !.p = r.p]
        \/ conn' = [conn EXCEPT !.p = r.p, !.left = seconds,
                                !.okclose = r.status = "INCOMPLETE_ENTITY"]
    BY <2>2 DEF Reads
  <2>6. conn'.wire = conn.wire /\ conn'.got = conn.got
    BY <2>5, ConnFields DEF ClientInv
  <2>7. conn'.wire \in Seq(STRING) /\ conn'.got \in Seq(STRING)
    BY <2>6 DEF PiecesInv
  <2>. QED
    BY <2>1, <2>4, <2>7, PiecesRead
<1>. QED
  BY <1>1, <1>2

LEMMA PiecesDrop ==
    ASSUME ClientInv, PiecesInv, FailedHandleDropped \/ UpnpCloseHttpGet PROVE PiecesInv'
<1>1. call' = call /\ conn' = NoConn /\ handle' = "none" /\ call.op = "none"
  BY DEF FailedHandleDropped, UpnpCloseHttpGet, Abandons
<1>2. call'.pc = "none"
  BY <1>1 DEF ClientInv, CallInv
<1>3. conn'.wire = <<>> /\ conn'.got = <<>>
  BY <1>1, WireOfNoConn
<1>. QED
  BY <1>1, <1>2, <1>3, PiecesRest DEF Posts

LEMMA PiecesWrite ==
    ASSUME ClientInv, PiecesInv, NEW units, http_WriteHttpPost(units) PROVE PiecesInv'
<1>1. UNCHANGED <<call, handle>>
  BY DEF http_WriteHttpPost
<1>2. conn' = conn \/ \E x : conn' = [conn EXCEPT !.sent = @ \o x]
  BY DEF http_WriteHttpPost
<1>3. conn'.wire = conn.wire /\ conn'.got = conn.got /\ conn'.p = conn.p
  BY <1>2, ConnFields DEF ClientInv
<1>. QED
  BY <1>1, <1>3, PiecesKept DEF PiecesInv

LEMMA PiecesClosePost ==
    ASSUME ClientInv, PiecesInv, NEW seconds, http_CloseHttpPost(seconds) PROVE PiecesInv'
<1>1. /\ handle \in Posts /\ call.op = "none" /\ handle' = handle
      /\ call' = [op |-> "closepost", pc |-> "recv", size |-> 0, method |-> "POST",
                  seconds |-> seconds]
  BY DEF http_CloseHttpPost
<1>2. PICK a \in Answers(handle) \cup {NoAnswer} : \E x :
        conn' = [conn EXCEPT !.answer = a, !.wire = a.units, !.left = seconds,
                   !.sent = @ \o x, !.p = parser_response_init("POST")]
  BY DEF http_CloseHttpPost
<1>3. conn'.wire = a.units /\ conn'.got = conn.got /\ conn'.p = parser_response_init("POST")
  BY <1>2, ConnFields DEF ClientInv
<1>4. handle \in Ops /\ conn.got = <<>>
  BY <1>1 DEF PiecesInv
<1>5. a.units \in Seq(STRING)
  <2>1. CASE a = NoAnswer
    BY <2>1 DEF NoAnswer
  <2>2. CASE a \in Answers(handle)
    BY <1>4, <2>2, ClientAssumption
  <2>. QED
    BY <2>1, <2>2
<1>6. call'.pc = "recv" /\ call'.op = "closepost" /\ call'.method = "POST"
  BY <1>1
<1>7. Fresh'
  BY <1>3, <1>4, <1>6 DEF Fresh
<1>. QED
  BY <1>1, <1>3, <1>4, <1>5, <1>6, <1>7 DEF PiecesInv

LEMMA PiecesApp == ASSUME ClientInv, PiecesInv, App PROVE PiecesInv'
<1>1. CASE \E url \in Urls, t \in Timeouts : HttpCall(url, t) \/ SoapCall(url, t)
  <2>1. PICK op, valid, request, method, seconds : Begins(op, valid, request, method, seconds)
    BY <1>1, CallBegins
  <2>. QED
    BY <2>1, PiecesBegin
<1>2. CASE \E size \in Sizes, t \in Timeouts : ReadBegins(size, t)
  BY <1>2, PiecesHandle
<1>3. CASE UpnpCancelHttpGet \/ UpnpCloseHttpGet \/ FailedHandleDropped
  BY <1>3, PiecesHandle, PiecesDrop
<1>4. CASE \E units \in Pieces : http_WriteHttpPost(units)
  BY <1>4, PiecesWrite
<1>5. CASE \E t \in Timeouts : http_CloseHttpPost(t)
  BY <1>5, PiecesClosePost
<1>. QED
  BY <1>1, <1>2, <1>3, <1>4, <1>5 DEF App

LEMMA PiecesNext == AsyncInv /\ PiecesInv /\ [AsyncNext]_allVars => PiecesInv'
<1>. SUFFICES ASSUME AsyncInv, PiecesInv, [AsyncNext]_allVars PROVE PiecesInv'
  OBVIOUS
<1>1. ClientInv
  BY DEF AsyncInv
<1>2. CASE UNCHANGED vars
  <2>1. UNCHANGED <<call, conn, handle>>
    BY <1>2 DEF vars
  <2>. QED
    BY <2>1, PiecesKept DEF PiecesInv
<1>3. CASE JobStarts
  <2>1. PICK url, t : SoapSendAction(url, t) \/ SoapGetServiceVarStatus(url, t)
    BY <1>3 DEF JobStarts
  <2>. QED
    BY <1>1, <2>1, SoapBegins, PiecesBegin
<1>4. CASE App \/ Library \/ PeerCloses
  BY <1>1, <1>4, PiecesApp, PiecesLibrary, PiecesPeer
<1>5. CASE AsyncApp \/ GenaJob \/ JobEnds
  <2>1. UNCHANGED vars
    BY <1>5 DEF AsyncApp, UpnpSendActionAsync, UpnpSendActionExAsync,
         UpnpGetServiceVarStatusAsync, UpnpSubscribeAsync, UpnpUnSubscribeAsync,
         UpnpRenewSubscriptionAsync, UpnpUnRegisterClient, Submits, GenaJob, JobEnds
  <2>. QED
    BY <1>2, <2>1
<1>6. CASE UNCHANGED allVars
  BY <1>2, <1>6 DEF allVars
<1>. QED
  BY <1>3, <1>4, <1>5, <1>6 DEF AsyncNext

LEMMA PiecesInit == AsyncInit => PiecesInv
<1>. SUFFICES ASSUME AsyncInit PROVE PiecesInv
  OBVIOUS
<1>1. call = Idle /\ conn = NoConn /\ handle = "none"
  BY DEF AsyncInit, Init
<1>2. call.pc = "none" /\ conn.wire = <<>> /\ conn.got = <<>>
  BY <1>1, WireOfNoConn DEF Idle
<1>. QED
  BY <1>1, <1>2 DEF PiecesInv, Posts

LEMMA PiecesMeanSplit == PiecesInv => SplitIndependent
<1>. SUFFICES ASSUME PiecesInv, call.pc = "recv", call.op \notin Gets, conn.got # <<>>
              PROVE  SameOutcome(parser_append(parser_response_init(call.method), conn.got))
  BY DEF SplitIndependent
<1>1. Halfway
  BY DEF PiecesInv, Fresh
<1>. DEFINE w == parser_append(parser_response_init(call.method), conn.got)
<1>2. PICK s \in Waits : w = R(s, conn.p)
  BY <1>1 DEF Halfway
<1>. HIDE DEF w
<1>3. w.status = s /\ w.p = conn.p
  BY <1>2 DEF R
<1>4. SameOutcome(w)
  BY <1>3 DEF SameOutcome, Outcome
<1>. QED
  BY <1>4 DEF w

(* SplitIndependent: an answer comes in pieces of any size, and after each  *)
(* piece that leaves the call of http_RecvMessage waiting the parser holds  *)
(* the position, headers, status code and entity that parser_append would   *)
(* have made of all the bytes so far: a match that fails or waits restores  *)
(* the cursor, and no token, line or chunk is read twice or lost.           *)
THEOREM SpecSplitIndependent == AsyncSpec => []SplitIndependent
<1>1. AsyncInit => AsyncInv /\ PiecesInv
  BY InitAsyncInv, PiecesInit
<1>2. (AsyncInv /\ PiecesInv) /\ [AsyncNext]_allVars => (AsyncInv /\ PiecesInv)'
  BY NextAsyncInv, PiecesNext
<1>3. AsyncInv /\ PiecesInv => SplitIndependent
  BY PiecesMeanSplit
<1>. QED
  BY <1>1, <1>2, <1>3, PTL DEF AsyncSpec
===============================================================================
