----------------------------- MODULE LogProofs -----------------------------
(***************************************************************************)
(* Proofs about Log, for any number of logs and any amount of output: what *)
(* reaches a log file is in order and complete, whatever the disk does.    *)
(*                                                                         *)
(* And when the output of a job is lost: as long as no write is cut short, *)
(* no descriptor leaks, no disk was full when data came and the daemon was *)
(* not re-executed, only the disk that is not there at the end can lose    *)
(* it, and never what the list holds.                                      *)
(***************************************************************************)
EXTENDS Log, SequenceTheorems, TLAPS

----------------------------------------------------------------------------
(* Sequences of chunks *)

\* Chunks in order, none of them later than n.
Good(s, n) == \A i \in 1..Len(s) : /\ s[i] <= n
                                   /\ \A j \in 1..Len(s) : i < j => s[i] < s[j]

\* What is left when a part is taken out is still in order.
LEMMA GoodDrop ==
  ASSUME NEW a \in Seq(Chunks), NEW b \in Seq(Chunks), NEW c \in Seq(Chunks), NEW n \in Nat,
         Good((a \o b) \o c, n)
  PROVE  Good(a \o c, n)
<1> DEFINE A == Len(a)  B == Len(b)  C == Len(c)
           s == (a \o b) \o c
           t == a \o c
           At(i) == IF i <= A THEN i ELSE i + B
<1>1. A \in Nat /\ B \in Nat /\ C \in Nat
  BY LenProperties
<1>2. a \o b \in Seq(Chunks) /\ Len(a \o b) = A + B
  BY ConcatProperties
<1>3. Len(s) = A + B + C
  BY <1>1, <1>2, ConcatProperties
<1>4. Len(t) = A + C
  BY <1>1, ConcatProperties
<1>5. ASSUME NEW i \in 1..(A + C)
      PROVE  At(i) \in 1..(A + B + C) /\ s[At(i)] = t[i]
  <2>1. CASE i <= A
    <3>1. t[i] = a[i]
      BY <1>1, <1>5, <2>1, ConcatProperties
    <3>2. i \in 1..(A + B) /\ (a \o b)[i] = a[i]
      BY <1>1, <1>5, <2>1, ConcatProperties
    <3>3. s[i] = (a \o b)[i]
      BY <1>1, <1>2, <3>2, ConcatProperties
    <3> QED BY <1>1, <2>1, <3>1, <3>2, <3>3
  <2>2. CASE ~(i <= A)
    <3>1. t[i] = c[i - A]
      BY <1>1, <1>5, <2>2, ConcatProperties
    <3>2. i + B \in 1..((A + B) + C) /\ ~(i + B <= A + B) /\ (i + B) - (A + B) = i - A
      BY <1>1, <1>5, <2>2
    <3>3. s[i + B] = c[(i + B) - (A + B)]
      BY <1>1, <1>2, <3>2, ConcatProperties
    <3> QED BY <1>1, <2>2, <3>1, <3>2, <3>3
  <2> QED BY <2>1, <2>2
<1>6. ASSUME NEW i \in 1..(A + C), NEW j \in 1..(A + C), i < j
      PROVE  At(i) < At(j)
  BY <1>1, <1>6
<1> HIDE DEF s, t, A, B, C, At
<1>7. ASSUME NEW i \in 1..Len(t), NEW j \in 1..Len(t), i < j
      PROVE  t[i] < t[j]
  BY <1>3, <1>4, <1>5, <1>6, <1>7 DEF Good, s
<1>8. ASSUME NEW i \in 1..Len(t) PROVE t[i] <= n
  BY <1>3, <1>4, <1>5, <1>8 DEF Good, s
<1> QED BY <1>7, <1>8 DEF Good, t

\* A beginning is in order.
LEMMA GoodPrefix ==
  ASSUME NEW a \in Seq(Chunks), NEW b \in Seq(Chunks), NEW n \in Nat, Good(a \o b, n)
  PROVE  Good(a, n)
<1>1. << >> \in Seq(Chunks)
  BY EmptySeq
<1>2. (a \o b) \o << >> = a \o b /\ a \o << >> = a
  BY ConcatProperties, ConcatEmptySeq
<1> QED BY <1>1, <1>2, GoodDrop

\* A chunk that is new comes last.
LEMMA GoodAppend ==
  ASSUME NEW a \in Seq(Chunks), NEW n \in Nat, Good(a, n)
  PROVE  Good(Append(a, n + 1), n + 1)
<1> DEFINE t == Append(a, n + 1)
<1>1. Len(t) = Len(a) + 1 /\ Len(a) \in Nat
      /\ \A i \in 1..Len(t) : t[i] = IF i <= Len(a) THEN a[i] ELSE n + 1
  OBVIOUS
<1>2. \A i \in 1..Len(a) : a[i] \in Nat
  BY ElementOfSeq DEF Chunks
<1> HIDE DEF t
<1> QED BY <1>1, <1>2 DEF Good, t

\* Concatenation of three sequences of chunks.
LEMMA Assoc ==
  ASSUME NEW a \in Seq(Chunks), NEW b \in Seq(Chunks), NEW c \in Seq(Chunks)
  PROVE  (a \o b) \o c = a \o (b \o c)
BY ConcatAssociative

\* Taking a sequence apart and putting it together.
LEMMA Cut ==
  ASSUME NEW a \in Seq(Chunks), NEW s \in Seq(Chunks), NEW k \in 0..Len(s)
  PROVE  /\ SubSeq(s, 1, k) \in Seq(Chunks) /\ SubSeq(s, k + 1, Len(s)) \in Seq(Chunks)
         /\ (a \o SubSeq(s, 1, k)) \o SubSeq(s, k + 1, Len(s)) = a \o s
<1>1. Len(s) \in Nat /\ \A i \in 1..Len(s) : s[i] \in Chunks
  BY LenProperties, ElementOfSeq
<1>2. SubSeq(s, 1, k) \in Seq(Chunks)
  <2>1. \A i \in 1..k : s[i] \in Chunks
    BY <1>1
  <2> QED BY <1>1, <2>1, SubSeqProperties
<1>3. SubSeq(s, k + 1, Len(s)) \in Seq(Chunks)
  <2>1. \A i \in (k + 1)..Len(s) : s[i] \in Chunks
    BY <1>1
  <2> QED BY <1>1, <2>1, SubSeqProperties
<1>4. SubSeq(s, 1, k) \o SubSeq(s, k + 1, Len(s)) = s
  <2>1. SubSeq(s, 1, k) \o SubSeq(s, k + 1, Len(s)) = SubSeq(s, 1, Len(s))
    <3>1. 1 \in 1..(Len(s) + 1) /\ k \in (1 - 1)..Len(s) /\ Len(s) \in k..Len(s)
      BY <1>1
    <3> QED BY <3>1, ConcatAdjacentSubSeq
  <2> QED BY <2>1, SubSeqFull
<1> DEFINE p == SubSeq(s, 1, k)
           q == SubSeq(s, k + 1, Len(s))
<1>5. p \in Seq(Chunks) /\ q \in Seq(Chunks) /\ p \o q = s
  BY <1>2, <1>3, <1>4
<1> HIDE DEF p, q
<1>6. (a \o p) \o q = a \o (p \o q)
  BY <1>5, Assoc
<1> QED BY <1>5, <1>6 DEF p, q

----------------------------------------------------------------------------
(* The functions of log.c *)

Notes == {"full", "reexec", "other"}

LogRec == [place : {"job", "list", "freed"}, fd : {"open", "closed", "unlinked"},
           unflushed : Seq(Chunks), recv : Seq(Chunks), io : BOOLEAN,
           remote_closed : BOOLEAN, open_errno : Errnos]

XRec == [log : LogRec, file : Seq(Chunks), faults : SUBSET Notes]

\* All of a log that has been read from the terminal.
Cat(x) == x.file \o x.log.unflushed \o x.log.recv

\* Data waits in the buffer only while the file is closed.
Sane(x) == x.log.unflushed # << >> => x.log.fd = "closed"

\* What none of the functions touches.
SamePlace(x, y) == /\ y.log.place = x.log.place
                   /\ y.log.io = x.log.io
                   /\ y.log.remote_closed = x.log.remote_closed

\* y is x with data moved on, or discarded for want of space: nothing is out
\* of order, and nothing is missing unless that is noted.
Follows(x, y) ==
  /\ y \in XRec
  /\ SamePlace(x, y)
  /\ x.faults \subseteq y.faults
  /\ \A p \in Seq(Chunks), n \in Nat : Good(Cat(x) \o p, n) => Good(Cat(y) \o p, n)
  /\ "full" \notin y.faults => Cat(y) = Cat(x)

\* The types of the parts of a log.
LEMMA XFields ==
  ASSUME NEW x \in XRec
  PROVE  /\ x.log \in LogRec /\ x.file \in Seq(Chunks) /\ x.faults \in SUBSET Notes
         /\ x.log.unflushed \in Seq(Chunks) /\ x.log.recv \in Seq(Chunks)
         /\ x.log.fd \in {"open", "closed", "unlinked"} /\ x.log.open_errno \in Errnos
         /\ x.log.io \in BOOLEAN /\ x.log.remote_closed \in BOOLEAN
         /\ x.file \o x.log.unflushed \in Seq(Chunks)
         /\ Cat(x) \in Seq(Chunks)
<1>1. /\ x.log \in LogRec /\ x.file \in Seq(Chunks) /\ x.faults \in SUBSET Notes
      /\ x.log.unflushed \in Seq(Chunks) /\ x.log.recv \in Seq(Chunks)
      /\ x.log.fd \in {"open", "closed", "unlinked"} /\ x.log.open_errno \in Errnos
      /\ x.log.io \in BOOLEAN /\ x.log.remote_closed \in BOOLEAN
  BY DEF XRec, LogRec
<1>2. x.file \o x.log.unflushed \in Seq(Chunks)
  BY <1>1, ConcatProperties
<1> QED BY <1>1, <1>2, ConcatProperties DEF Cat

LEMMA FollowsSame ==
  ASSUME NEW x, NEW y \in XRec, SamePlace(x, y), x.faults \subseteq y.faults, Cat(y) = Cat(x)
  PROVE  Follows(x, y)
BY DEF Follows

LEMMA FollowsTrans ==
  ASSUME NEW x, NEW y, NEW z, Follows(x, y), Follows(y, z)
  PROVE  Follows(x, z)
<1>1. SamePlace(x, z)
  BY DEF Follows, SamePlace
<1> QED BY <1>1 DEF Follows

\* The buffer of the reader is discarded.
LEMMA FollowsDrop ==
  ASSUME NEW x \in XRec, NEW y \in XRec, SamePlace(x, y), x.faults \subseteq y.faults,
         y.file = x.file, y.log.unflushed = x.log.unflushed, y.log.recv = << >>,
         "full" \in y.faults
  PROVE  Follows(x, y)
<1> DEFINE a == x.file \o x.log.unflushed
<1>1. a \in Seq(Chunks) /\ x.log.recv \in Seq(Chunks)
  BY XFields
<1>2. Cat(y) = a
  BY <1>1, ConcatEmptySeq DEF Cat
<1>3. Cat(x) = a \o x.log.recv
  BY DEF Cat
<1> HIDE DEF a
<1>4. \A p \in Seq(Chunks), n \in Nat : Good(Cat(x) \o p, n) => Good(Cat(y) \o p, n)
  BY <1>1, <1>2, <1>3, GoodDrop
<1> QED BY <1>4 DEF Follows

\* log_file_open changes nothing but the descriptor and the errno.
LEMMA OpenLemma ==
  ASSUME NEW x \in XRec, NEW e \in Errnos, NEW y \in log_file_open(x, e), disk \in Disks
  PROVE  /\ Follows(x, y)
         /\ y.file = x.file /\ y.log.unflushed = x.log.unflushed /\ y.log.recv = x.log.recv
         /\ y.faults = x.faults
         /\ y.log.fd \in {"open", "closed"}
         /\ x.log.open_errno # "0" /\ (e # "0" \/ x.log.fd # "unlinked") => y.log.open_errno # "0"
<1>1. CASE Opened(x)
  <2>1. y = x
    BY <1>1 DEF log_file_open
  <2> QED BY <2>1, <1>1, FollowsSame DEF SamePlace, Opened
<1>2. CASE ~Opened(x)
  <2>1. PICK r \in OpenResults :
          y = [x EXCEPT !.log.fd = IF r = "success" THEN "open" ELSE "closed",
                        !.log.open_errno = IF r # "success" THEN r
                                           ELSE IF x.log.fd = "unlinked" THEN e ELSE "stale"]
    BY <1>2 DEF log_file_open
  <2>2. r \in {"success", "EROFS", "ENOSPC"}
    BY LogAssumption DEF OpenResults
  <2> DEFINE f == IF r = "success" THEN "open" ELSE "closed"
             g == IF r # "success" THEN r ELSE IF x.log.fd = "unlinked" THEN e ELSE "stale"
  <2>3. f \in {"open", "closed"} /\ g \in Errnos
    BY <2>2 DEF Errnos
  <2>4. y = [x EXCEPT !.log.fd = f, !.log.open_errno = g]
    BY <2>1
  <2>8. e # "0" \/ x.log.fd # "unlinked" => g # "0"
    BY <2>2
  <2> HIDE DEF f, g
  <2>5. /\ y \in XRec /\ y.file = x.file /\ y.faults = x.faults
        /\ y.log.unflushed = x.log.unflushed /\ y.log.recv = x.log.recv
        /\ y.log.fd = f /\ y.log.open_errno = g
        /\ SamePlace(x, y)
    BY <2>3, <2>4 DEF XRec, LogRec, SamePlace
  <2>6. Cat(y) = Cat(x)
    BY <2>5 DEF Cat
  <2>7. Follows(x, y)
    BY <2>5, <2>6, FollowsSame
  <2> QED BY <2>3, <2>5, <2>7, <2>8
<1> QED BY <1>1, <1>2

\* What write(2) may answer.
LEMMA WriteResultsLemma ==
  ASSUME disk \in Disks, NEW n \in Nat \ {0}, NEW w \in WriteResults(n)
  PROVE  /\ w.err \in {"0", "EROFS", "ENOSPC"}
         /\ w.err = "0" => w.n \in 1..n
<1> DEFINE Short == IF "partial" \in Faults THEN 1..(n - 1) ELSE {}
<1>1. Short \subseteq 1..n /\ n \in 1..n
  OBVIOUS
<1>2. disk \in {"ok", "ro", "full"}
  BY LogAssumption
<1> HIDE DEF Short
<1>3. CASE disk = "ok"
  <2>1. w \in [n : {n} \cup Short, err : {"0"}]
    BY <1>3 DEF WriteResults, Short
  <2> QED BY <2>1, <1>1
<1>4. CASE disk = "ro"
  <2>1. w \in [n : {0}, err : {"EROFS"}]
    BY <1>4 DEF WriteResults
  <2> QED BY <2>1
<1>5. CASE disk = "full"
  <2>1. w \in [n : {0}, err : {"ENOSPC"}] \cup [n : Short, err : {"0"}]
    BY <1>5 DEF WriteResults, Short
  <2> QED BY <2>1, <1>1
<1> QED BY <1>2, <1>3, <1>4, <1>5

\* Closing the file moves no data.
LEMMA ClosedLemma ==
  ASSUME NEW x \in XRec
  PROVE  /\ Follows(x, Closed(x))
         /\ Sane(Closed(x)) /\ ~Opened(Closed(x)) /\ Closed(x).log.fd = "closed"
         /\ Closed(x).log.open_errno = x.log.open_errno
<1> DEFINE y == Closed(x)
<1>1. /\ y \in XRec /\ y.file = x.file /\ y.faults = x.faults
      /\ y.log.unflushed = x.log.unflushed /\ y.log.recv = x.log.recv
      /\ y.log.fd = "closed" /\ y.log.open_errno = x.log.open_errno
      /\ SamePlace(x, y)
  BY DEF Closed, XRec, LogRec, SamePlace
<1> HIDE DEF y
<1>2. Cat(y) = Cat(x)
  BY <1>1 DEF Cat
<1>3. Follows(x, y)
  BY <1>1, <1>2, FollowsSame
<1> QED BY <1>1, <1>3 DEF y, Sane, Opened

\* Keeping back what could not be written: it goes behind what is buffered, or
\* is discarded when the disk is full.
LEMMA KeepLemma ==
  ASSUME NEW x \in XRec, NEW buf \in {<< >>, x.log.recv}, NEW err
  PROVE  /\ Follows(x, Consumed(Keep(x, buf, err), buf))
         /\ Consumed(Keep(x, buf, err), buf).log.fd = x.log.fd
         /\ Consumed(Keep(x, buf, err), buf).log.open_errno = x.log.open_errno
<1> DEFINE k == Keep(x, buf, err)
           y == Consumed(k, buf)
<1>1. /\ x.log.unflushed \in Seq(Chunks) /\ x.log.recv \in Seq(Chunks) /\ x.file \in Seq(Chunks)
      /\ buf \in Seq(Chunks) /\ x.faults \in SUBSET Notes /\ << >> \in Seq(Chunks)
      /\ x.file \o x.log.unflushed \in Seq(Chunks)
  BY XFields, EmptySeq
<1>2. CASE buf = << >>
  <2>1. x.log.unflushed \o buf = x.log.unflushed
    BY <1>1, <1>2, ConcatEmptySeq
  <2>2. /\ k \in XRec /\ k.file = x.file /\ k.faults = x.faults
        /\ k.log.unflushed = x.log.unflushed /\ k.log.recv = x.log.recv
        /\ k.log.fd = x.log.fd /\ k.log.open_errno = x.log.open_errno
        /\ SamePlace(x, k)
    <3>1. CASE err = "ENOSPC"
      <4>1. k = [x EXCEPT !.faults = x.faults]
        BY <1>2, <3>1 DEF Keep
      <4> HIDE DEF k
      <4> QED BY <4>1 DEF XRec, LogRec, SamePlace
    <3>2. CASE err # "ENOSPC"
      <4>1. k = [x EXCEPT !.log.unflushed = x.log.unflushed]
        BY <2>1, <3>2 DEF Keep
      <4> HIDE DEF k
      <4> QED BY <4>1 DEF XRec, LogRec, SamePlace
    <3> QED BY <3>1, <3>2
  <2>3. y = [k EXCEPT !.log.recv = k.log.recv]
    BY <1>2 DEF Consumed
  <2> HIDE DEF k, y
  <2>4. /\ y \in XRec /\ y.file = x.file /\ y.faults = x.faults
        /\ y.log.unflushed = x.log.unflushed /\ y.log.recv = x.log.recv
        /\ y.log.fd = x.log.fd /\ y.log.open_errno = x.log.open_errno
        /\ SamePlace(x, y)
    BY <2>2, <2>3 DEF XRec, LogRec, SamePlace
  <2>5. Cat(y) = Cat(x)
    BY <2>4 DEF Cat
  <2>6. Follows(x, y)
    BY <2>4, <2>5, FollowsSame
  <2> QED BY <2>4, <2>6 DEF y, k
<1>3. CASE buf # << >> /\ err = "ENOSPC"
  <2>1. buf = x.log.recv
    BY <1>3
  <2>2. k = [x EXCEPT !.faults = x.faults \cup {"full"}]
    BY <1>3 DEF Keep
  <2>3. y = [k EXCEPT !.log.recv = << >>]
    BY <1>3 DEF Consumed
  <2> HIDE DEF k, y
  <2>4. /\ k \in XRec /\ k.file = x.file /\ k.faults = x.faults \cup {"full"}
        /\ k.log.unflushed = x.log.unflushed /\ k.log.recv = x.log.recv
        /\ k.log.fd = x.log.fd /\ k.log.open_errno = x.log.open_errno
        /\ SamePlace(x, k)
    BY <1>1, <2>2 DEF XRec, LogRec, SamePlace, Notes
  <2>5. /\ y \in XRec /\ y.file = x.file /\ y.faults = x.faults \cup {"full"}
        /\ y.log.unflushed = x.log.unflushed /\ y.log.recv = << >>
        /\ y.log.fd = x.log.fd /\ y.log.open_errno = x.log.open_errno
        /\ SamePlace(x, y)
    BY <1>1, <2>3, <2>4 DEF XRec, LogRec, SamePlace
  <2>6. Follows(x, y)
    BY <2>5, FollowsDrop
  <2> QED BY <2>5, <2>6 DEF y, k
<1>4. CASE buf # << >> /\ err # "ENOSPC"
  <2>1. buf = x.log.recv
    BY <1>4
  <2> DEFINE v == x.log.unflushed \o x.log.recv
  <2>2. k = [x EXCEPT !.log.unflushed = v]
    BY <1>4, <2>1 DEF Keep
  <2>3. y = [k EXCEPT !.log.recv = << >>]
    BY <1>4 DEF Consumed
  <2>4. v \in Seq(Chunks)
    BY <1>1, ConcatProperties
  <2>5. x.file \o v = (x.file \o x.log.unflushed) \o x.log.recv /\ x.file \o v \in Seq(Chunks)
    <3>1. x.file \o v \in Seq(Chunks)
      <4> HIDE DEF v
      <4> QED BY <1>1, <2>4, ConcatProperties
    <3>2. (x.file \o x.log.unflushed) \o x.log.recv = x.file \o (x.log.unflushed \o x.log.recv)
      BY <1>1, Assoc
    <3> QED BY <3>1, <3>2
  <2> HIDE DEF k, y, v
  <2>6. /\ k \in XRec /\ k.file = x.file /\ k.faults = x.faults
        /\ k.log.unflushed = v
        /\ k.log.fd = x.log.fd /\ k.log.open_errno = x.log.open_errno
        /\ SamePlace(x, k)
    BY <2>2, <2>4 DEF XRec, LogRec, SamePlace
  <2>7. /\ y \in XRec /\ y.file = x.file /\ y.faults = x.faults
        /\ y.log.unflushed = v /\ y.log.recv = << >>
        /\ y.log.fd = x.log.fd /\ y.log.open_errno = x.log.open_errno
        /\ SamePlace(x, y)
    BY <1>1, <2>3, <2>6 DEF XRec, LogRec, SamePlace
  <2>8. Cat(y) = Cat(x)
    <3>1. (x.file \o v) \o << >> = x.file \o v
      BY <2>5, ConcatEmptySeq
    <3> QED BY <2>5, <2>7, <3>1 DEF Cat
  <2>9. Follows(x, y)
    BY <2>7, <2>8, FollowsSame
  <2> QED BY <2>7, <2>9 DEF y, k
<1> QED BY <1>2, <1>3, <1>4

\* The first write moves the front of the buffer to the file.
LEMMA WriteUnflushedLemma ==
  ASSUME disk \in Disks, NEW x \in XRec, Opened(x), NEW w \in WriteUnflushed(x)
  PROVE  /\ Follows(x, w.x) /\ Opened(w.x)
         /\ w.x.log.recv = x.log.recv
         /\ w.x.log.open_errno = x.log.open_errno
         /\ w.err \in {"0", "EROFS", "ENOSPC"}
         /\ w.err # "0" => w.x.log.unflushed # << >>
<1>1. /\ x.log.unflushed \in Seq(Chunks) /\ x.log.recv \in Seq(Chunks) /\ x.file \in Seq(Chunks)
      /\ x.faults \in SUBSET Notes /\ x.log.fd = "open"
  BY XFields DEF Opened
<1> DEFINE u == x.log.unflushed
<1>2. Follows(x, x)
  BY FollowsSame DEF SamePlace
<1>3. CASE u = << >>
  <2>1. w = [x |-> x, err |-> "0"]
    BY <1>3 DEF WriteUnflushed
  <2> QED BY <1>2, <2>1
<1>4. CASE u # << >>
  <2>1. Len(u) \in Nat \ {0}
    BY <1>1, <1>4, EmptySeq
  <2>2. PICK v \in WriteResults(Len(u)) :
          w = IF v.err = "0"
              THEN [x |-> [x EXCEPT !.file = Appended(x, SubSeq(u, 1, v.n)),
                                    !.log.unflushed = SubSeq(@, v.n + 1, Len(@)),
                                    !.faults = @ \cup Partly(v.n, Len(u))],
                    err |-> "0"]
              ELSE [x |-> x, err |-> v.err]
    BY <1>4 DEF WriteUnflushed
  <2>3. /\ v.err \in {"0", "EROFS", "ENOSPC"}
        /\ v.err = "0" => v.n \in 1..Len(u)
    BY <2>1, WriteResultsLemma
  <2>4. CASE v.err # "0"
    <3>1. w = [x |-> x, err |-> v.err]
      BY <2>2, <2>4
    <3> QED BY <1>2, <1>4, <2>3, <2>4, <3>1
  <2>5. CASE v.err = "0"
    <3> DEFINE a == SubSeq(u, 1, v.n)
               b == SubSeq(u, v.n + 1, Len(u))
               f == x.faults \cup Partly(v.n, Len(u))
               y == [x EXCEPT !.file = x.file \o a, !.log.unflushed = b, !.faults = f]
    <3>1. w = [x |-> y, err |-> "0"]
      BY <1>1, <2>2, <2>5 DEF Appended
    <3>2. v.n \in 0..Len(u)
      BY <2>1, <2>3, <2>5
    <3>3. a \in Seq(Chunks) /\ b \in Seq(Chunks) /\ (x.file \o a) \o b = x.file \o u
      BY <1>1, <3>2, Cut
    <3>4. f \in SUBSET Notes /\ x.faults \subseteq f
      BY <1>1 DEF Partly, Notes
    <3> HIDE DEF a, b, f
    <3>5. x.file \o a \in Seq(Chunks)
      BY <1>1, <3>3, ConcatProperties
    <3>6. /\ y \in XRec /\ y.file = x.file \o a /\ y.faults = f
          /\ y.log.unflushed = b /\ y.log.recv = x.log.recv
          /\ y.log.fd = x.log.fd /\ y.log.open_errno = x.log.open_errno
          /\ SamePlace(x, y)
      BY <3>3, <3>4, <3>5 DEF XRec, LogRec, SamePlace
    <3> HIDE DEF y
    <3>7. Cat(y) = Cat(x)
      BY <3>3, <3>6 DEF Cat
    <3>8. Follows(x, y)
      BY <3>4, <3>6, <3>7, FollowsSame
    <3> QED BY <1>1, <3>1, <3>6, <3>8 DEF Opened
  <2> QED BY <2>4, <2>5
<1> QED BY <1>3, <1>4

\* The second write moves new data to the file, the buffer being empty.
LEMMA WriteNewLemma ==
  ASSUME disk \in Disks, NEW x \in XRec, Opened(x), x.log.unflushed = << >>,
         NEW buf \in {<< >>, x.log.recv}, NEW y \in WriteNew(x, buf)
  PROVE  /\ Follows(x, y) /\ Sane(y)
         /\ y.log.fd \in {"open", "closed"}
         /\ y.log.open_errno = x.log.open_errno
<1>1. /\ x.log.unflushed \in Seq(Chunks) /\ x.log.recv \in Seq(Chunks) /\ x.file \in Seq(Chunks)
      /\ x.faults \in SUBSET Notes /\ x.log.fd = "open"
  BY XFields DEF Opened
<1>2. CASE buf = << >>
  <2>1. y = x
    BY <1>2 DEF WriteNew
  <2> QED BY <1>1, <2>1, FollowsSame DEF SamePlace, Sane
<1>3. CASE buf # << >>
  <2>1. buf = x.log.recv /\ Len(buf) \in Nat \ {0}
    BY <1>1, <1>3, EmptySeq
  <2>2. PICK v \in WriteResults(Len(buf)) :
          y = IF v.err = "0"
              THEN [x EXCEPT !.file = Appended(x, SubSeq(buf, 1, v.n)),
                             !.log.recv = SubSeq(@, v.n + 1, Len(@)),
                             !.faults = @ \cup Partly(v.n, Len(buf))]
              ELSE Closed(Consumed(Keep(x, buf, v.err), buf))
    BY <1>3 DEF WriteNew
  <2>3. v.err = "0" => v.n \in 1..Len(buf)
    BY <2>1, WriteResultsLemma
  <2>4. CASE v.err # "0"
    <3> DEFINE z == Consumed(Keep(x, buf, v.err), buf)
    <3>1. Follows(x, z) /\ z.log.open_errno = x.log.open_errno
      BY KeepLemma
    <3>2. y = Closed(z)
      BY <2>2, <2>4
    <3> HIDE DEF z
    <3>3. z \in XRec
      BY <3>1 DEF Follows
    <3> QED BY <3>1, <3>2, <3>3, ClosedLemma, FollowsTrans
  <2>5. CASE v.err = "0"
    <3> DEFINE r == x.log.recv
               a == SubSeq(r, 1, v.n)
               b == SubSeq(r, v.n + 1, Len(r))
               f == x.faults \cup Partly(v.n, Len(r))
    <3>1. y = [x EXCEPT !.file = x.file \o a, !.log.recv = b, !.faults = f]
      BY <1>1, <2>1, <2>2, <2>5 DEF Appended
    <3>2. v.n \in 0..Len(r)
      BY <2>1, <2>3, <2>5
    <3>3. a \in Seq(Chunks) /\ b \in Seq(Chunks) /\ (x.file \o a) \o b = x.file \o r
      BY <1>1, <3>2, Cut
    <3>4. f \in SUBSET Notes /\ x.faults \subseteq f
      BY <1>1 DEF Partly, Notes
    <3> HIDE DEF a, b, f
    <3>5. x.file \o a \in Seq(Chunks)
      BY <1>1, <3>3, ConcatProperties
    <3>6. /\ y \in XRec /\ y.file = x.file \o a /\ y.faults = f
          /\ y.log.unflushed = x.log.unflushed /\ y.log.recv = b
          /\ y.log.fd = x.log.fd /\ y.log.open_errno = x.log.open_errno
          /\ SamePlace(x, y)
      BY <3>1, <3>3, <3>4, <3>5 DEF XRec, LogRec, SamePlace
    <3>7. Cat(y) = Cat(x)
      <4>1. (x.file \o a) \o << >> = x.file \o a
        BY <3>5, ConcatEmptySeq
      <4>2. x.file \o << >> = x.file
        BY <1>1, ConcatEmptySeq
      <4> QED BY <3>3, <3>6, <4>1, <4>2 DEF Cat
    <3>8. Follows(x, y)
      BY <3>4, <3>6, <3>7, FollowsSame
    <3> QED BY <1>1, <3>6, <3>8 DEF Sane
  <2> QED BY <2>4, <2>5
<1> QED BY <1>2, <1>3

\* log_file_write keeps the order and loses nothing but what a full disk
\* refuses; data it leaves in the buffer comes with a closed file.
LEMMA WriteLemma ==
  ASSUME disk \in Disks, NEW x \in XRec, Opened(x),
         NEW buf \in {<< >>, x.log.recv}, NEW y \in log_file_write(x, buf)
  PROVE  /\ Follows(x, y) /\ Sane(y)
         /\ y.log.fd \in {"open", "closed"}
         /\ y.log.open_errno = x.log.open_errno
<1>1. PICK w \in WriteUnflushed(x) :
        y \in IF w.err # "0" \/ w.x.log.unflushed # << >>
              THEN {Closed(Consumed(Keep(w.x, buf, w.err), buf))}
              ELSE WriteNew(w.x, buf)
  BY DEF log_file_write
<1>2. /\ Follows(x, w.x) /\ Opened(w.x) /\ w.x.log.recv = x.log.recv
      /\ w.x.log.open_errno = x.log.open_errno
  BY WriteUnflushedLemma
<1>3. w.x \in XRec /\ buf \in {<< >>, w.x.log.recv}
  BY <1>2 DEF Follows
<1>4. CASE w.err # "0" \/ w.x.log.unflushed # << >>
  <2> DEFINE z == Consumed(Keep(w.x, buf, w.err), buf)
  <2>1. Follows(w.x, z) /\ z.log.open_errno = w.x.log.open_errno
    BY <1>3, KeepLemma
  <2>2. y = Closed(z)
    BY <1>1, <1>4
  <2> HIDE DEF z
  <2>3. z \in XRec
    BY <2>1 DEF Follows
  <2>4. Follows(w.x, y)
    BY <2>1, <2>2, <2>3, ClosedLemma, FollowsTrans
  <2> QED BY <1>2, <2>1, <2>2, <2>3, <2>4, ClosedLemma, FollowsTrans
<1>5. CASE ~(w.err # "0" \/ w.x.log.unflushed # << >>)
  <2>1. y \in WriteNew(w.x, buf) /\ w.x.log.unflushed = << >>
    BY <1>1, <1>5
  <2> QED BY <1>2, <1>3, <2>1, WriteNewLemma, FollowsTrans
<1> QED BY <1>4, <1>5

LEMMA ReaderLemma ==
  ASSUME disk \in Disks, NEW x \in XRec, NEW e \in Errnos, NEW y \in log_io_reader(x, e)
  PROVE  /\ Follows(x, y) /\ Sane(y)
         /\ x.log.open_errno # "0" /\ e # "0" => y.log.open_errno # "0"
<1>1. PICK z \in log_file_open(x, e) :
        y \in IF Opened(z) THEN log_file_write(z, z.log.recv)
              ELSE {Consumed(Keep(z, z.log.recv, z.log.open_errno), z.log.recv)}
  BY DEF log_io_reader
<1>2. /\ Follows(x, z) /\ z.log.fd \in {"open", "closed"}
      /\ x.log.open_errno # "0" /\ e # "0" => z.log.open_errno # "0"
  BY OpenLemma
<1>3. z \in XRec
  BY <1>2 DEF Follows
<1>4. CASE Opened(z)
  <2>1. y \in log_file_write(z, z.log.recv)
    BY <1>1, <1>4
  <2>2. Follows(z, y) /\ Sane(y) /\ y.log.open_errno = z.log.open_errno
    BY <1>3, <1>4, <2>1, WriteLemma
  <2> QED BY <1>2, <2>2, FollowsTrans
<1>5. CASE ~Opened(z)
  <2>1. y = Consumed(Keep(z, z.log.recv, z.log.open_errno), z.log.recv)
    BY <1>1, <1>5
  <2>2. Follows(z, y) /\ y.log.fd = z.log.fd /\ y.log.open_errno = z.log.open_errno
    BY <1>3, <2>1, KeepLemma
  <2> QED BY <1>2, <1>5, <2>2, FollowsTrans DEF Sane, Opened
<1> QED BY <1>4, <1>5

LEMMA IfReceivedLemma ==
  ASSUME disk \in Disks, NEW x \in XRec, Sane(x), NEW e \in Errnos, NEW y \in IfReceived(x, e)
  PROVE  /\ Follows(x, y) /\ Sane(y)
         /\ x.log.open_errno # "0" /\ e # "0" => y.log.open_errno # "0"
<1>1. CASE x.log.recv = << >>
  <2>1. y = x
    BY <1>1 DEF IfReceived
  <2> QED BY <2>1, FollowsSame DEF SamePlace
<1>2. CASE x.log.recv # << >>
  <2>1. y \in log_io_reader(x, e)
    BY <1>2 DEF IfReceived
  <2> QED BY <2>1, ReaderLemma
<1> QED BY <1>1, <1>2

\* What has been read from the terminal is received.
LEMMA ReceivedLemma ==
  ASSUME NEW x \in XRec, NEW data \in Seq(Chunks)
  PROVE  LET y == [x EXCEPT !.log.recv = @ \o data]
         IN  /\ y \in XRec /\ SamePlace(x, y) /\ y.faults = x.faults
             /\ Sane(x) => Sane(y)
             /\ y.log.open_errno = x.log.open_errno
             /\ Cat(y) = Cat(x) \o data
<1> DEFINE r == x.log.recv \o data
           y == [x EXCEPT !.log.recv = r]
           a == x.file \o x.log.unflushed
<1>1. r \in Seq(Chunks) /\ a \in Seq(Chunks) /\ x.log.recv \in Seq(Chunks)
  BY XFields, ConcatProperties
<1>2. a \o r = (a \o x.log.recv) \o data
  BY <1>1, Assoc
<1> HIDE DEF r
<1>3. /\ y \in XRec /\ y.file = x.file /\ y.faults = x.faults
      /\ y.log.unflushed = x.log.unflushed /\ y.log.recv = r
      /\ y.log.fd = x.log.fd /\ y.log.open_errno = x.log.open_errno
      /\ SamePlace(x, y)
  BY <1>1 DEF XRec, LogRec, SamePlace
<1> HIDE DEF y
<1>4. Cat(y) = Cat(x) \o data
  BY <1>2, <1>3 DEF Cat
<1> QED BY <1>3, <1>4 DEF y, r, Sane

\* y has at most what x has and data.
Within(x, data, y) ==
  /\ y \in XRec
  /\ x.faults \subseteq y.faults
  /\ \A n \in Nat : Good(Cat(x) \o data, n) => Good(Cat(y), n)

LEMMA WithinLess ==
  ASSUME NEW x \in XRec, NEW y, NEW data \in Seq(Chunks), Follows(x, y)
  PROVE  Within(x, data, y)
<1>1. y \in XRec /\ Cat(y) \in Seq(Chunks)
  BY XFields DEF Follows
<1>2. ASSUME NEW n \in Nat, Good(Cat(x) \o data, n) PROVE Good(Cat(y), n)
  <2>1. Good(Cat(y) \o data, n)
    BY <1>2 DEF Follows
  <2> QED BY <1>1, <2>1, GoodPrefix
<1> QED BY <1>1, <1>2 DEF Within, Follows

LEMMA WithinAfter ==
  ASSUME NEW x \in XRec, NEW y, NEW z, NEW data \in Seq(Chunks), Follows(x, y), Within(y, data, z)
  PROVE  Within(x, data, z)
BY DEF Within, Follows

\* The reader knows whether the terminal is closed.
HungUp(q, closed) == Closed([q EXCEPT !.log.remote_closed = @ \/ closed])

\* More has been received.
Receiving(x, data) == [x EXCEPT !.log.recv = @ \o data]

\* log_read_watch hands over what was received, twice.
LEMMA ReadWatchIs ==
  ASSUME NEW x, x.log.io, NEW data, NEW closed, NEW y \in log_read_watch(x, data, closed)
  PROVE  \E z \in IfReceived(Receiving(x, data), "0") : \E q \in IfReceived(z, "stale") : y = HungUp(q, closed)
<1> DEFINE a == Receiving(x, data)
           U == UNION {IfReceived(z, "stale") : z \in IfReceived(a, "0")}
<1>1. log_read_watch(x, data, closed) = {HungUp(q, closed) : q \in U}
  BY DEF log_read_watch, HungUp, Receiving
<1> HIDE DEF U
<1>2. PICK q \in U : y = HungUp(q, closed)
  BY <1>1
<1>3. PICK z \in IfReceived(a, "0") : q \in IfReceived(z, "stale")
  BY <1>2 DEF U
<1> QED BY <1>2, <1>3

\* log_read_watch reads the rest and closes the file.
LEMMA ReadWatchLemma ==
  ASSUME disk \in Disks, NEW x \in XRec, Sane(x), NEW data \in Seq(Chunks),
         NEW closed \in BOOLEAN, NEW y \in log_read_watch(x, data, closed)
  PROVE  /\ Within(x, data, y) /\ Sane(y)
         /\ y.log.place = x.log.place /\ y.log.io = x.log.io
         /\ x.log.remote_closed => y.log.remote_closed
<1>1. CASE ~x.log.io
  <2>1. y = x
    BY <1>1 DEF log_read_watch
  <2>2. Follows(x, x)
    BY FollowsSame DEF SamePlace
  <2> QED BY <2>1, <2>2, WithinLess
<1>2. CASE x.log.io
  <2> DEFINE a == [x EXCEPT !.log.recv = @ \o data]
  <2>1. /\ a \in XRec /\ SamePlace(x, a) /\ a.faults = x.faults /\ Sane(a)
        /\ Cat(a) = Cat(x) \o data
    BY ReceivedLemma
  <2>0. a = Receiving(x, data)
    BY DEF Receiving
  <2> HIDE DEF a
  <2>2. PICK z \in IfReceived(a, "0") : \E q \in IfReceived(z, "stale") : y = HungUp(q, closed)
    BY <1>2, <2>0, ReadWatchIs
  <2>3. PICK q \in IfReceived(z, "stale") :
            y = Closed([q EXCEPT !.log.remote_closed = @ \/ closed])
    BY <2>2 DEF HungUp
  <2>4. "0" \in Errnos /\ "stale" \in Errnos
    BY DEF Errnos
  <2>5. Follows(a, z) /\ Sane(z)
    BY <2>1, <2>2, <2>4, IfReceivedLemma
  <2>6. z \in XRec
    BY <2>5 DEF Follows
  <2>7. Follows(z, q)
    BY <2>3, <2>4, <2>5, <2>6, IfReceivedLemma
  <2>8. Follows(a, q) /\ q \in XRec
    BY <2>5, <2>7, FollowsTrans DEF Follows
  <2> DEFINE b == q.log.remote_closed \/ closed
             d == [q EXCEPT !.log.remote_closed = b]
  <2>9. b \in BOOLEAN /\ (q.log.remote_closed => b) /\ y = Closed(d)
    BY <2>3
  <2> HIDE DEF b
  <2>10. /\ d \in XRec /\ d.file = q.file /\ d.faults = q.faults
         /\ d.log.unflushed = q.log.unflushed /\ d.log.recv = q.log.recv
         /\ d.log.place = q.log.place /\ d.log.io = q.log.io /\ d.log.remote_closed = b
    BY <2>8, <2>9 DEF XRec, LogRec
  <2> HIDE DEF d
  <2>11. Follows(d, y) /\ Sane(y)
    BY <2>9, <2>10, ClosedLemma
  <2>12. Cat(d) = Cat(q)
    BY <2>10 DEF Cat
  <2>13. Within(x, data, y)
    <3>1. y \in XRec /\ x.faults \subseteq y.faults
      BY <2>1, <2>8, <2>10, <2>11 DEF Follows
    <3>2. ASSUME NEW n \in Nat, Good(Cat(x) \o data, n) PROVE Good(Cat(y), n)
      <4>1. << >> \in Seq(Chunks)
        BY EmptySeq
      <4>2. \A s \in Seq(Chunks) : s \o << >> = s
        BY ConcatEmptySeq
      <4>3. Cat(a) \in Seq(Chunks) /\ Cat(q) \in Seq(Chunks) /\ Cat(y) \in Seq(Chunks)
        BY <2>1, <2>8, <3>1, XFields
      <4>4. Good(Cat(q), n)
        BY <2>1, <2>8, <3>2, <4>1, <4>2, <4>3 DEF Follows
      <4> QED BY <2>11, <2>12, <4>1, <4>2, <4>3, <4>4 DEF Follows
    <3> QED BY <3>1, <3>2 DEF Within
  <2>14. /\ y.log.place = x.log.place /\ y.log.io = x.log.io
         /\ x.log.remote_closed => y.log.remote_closed
    BY <2>1, <2>8, <2>9, <2>10, <2>11 DEF Follows, SamePlace
  <2> QED BY <2>11, <2>13, <2>14
<1> QED BY <1>1, <1>2

\* The last attempt to write.
LEMMA FlushLemma ==
  ASSUME disk \in Disks, NEW x \in XRec, Sane(x), NEW data \in Seq(Chunks),
         NEW closed \in BOOLEAN, NEW y \in log_flush(x, data, closed)
  PROVE  Within(x, data, y)
<1> DEFINE rest(a) == IF a.log.io /\ ~a.log.remote_closed
                      THEN log_read_watch(a, data, closed) ELSE {a}
<1>1. ASSUME NEW a \in XRec, Sane(a), NEW b \in rest(a) PROVE Within(a, data, b)
  <2>1. CASE a.log.io /\ ~a.log.remote_closed
    <3>1. b \in log_read_watch(a, data, closed)
      BY <1>1, <2>1
    <3> QED BY <1>1, <3>1, ReadWatchLemma
  <2>2. CASE ~(a.log.io /\ ~a.log.remote_closed)
    <3>1. b = a
      BY <1>1, <2>2
    <3>2. Follows(a, a)
      BY <1>1, FollowsSame DEF SamePlace
    <3> QED BY <1>1, <3>1, <3>2, WithinLess
  <2> QED BY <2>1, <2>2
<1>2. CASE x.log.unflushed = << >>
  <2>1. y \in rest(x)
    BY <1>2 DEF log_flush
  <2> HIDE DEF rest
  <2> QED BY <1>1, <2>1
<1>3. CASE x.log.unflushed # << >>
  <2>1. PICK a \in log_file_open(x, "0") :
          y \in IF ~Opened(a) THEN {a}
                ELSE UNION {IF Opened(z) THEN rest(z) ELSE {z} : z \in log_file_write(a, << >>)}
    BY <1>3 DEF log_flush
  <2> HIDE DEF rest
  <2>2. Follows(x, a)
    <3>1. "0" \in Errnos
      BY DEF Errnos
    <3> QED BY <2>1, <3>1, OpenLemma
  <2>3. a \in XRec
    BY <2>2 DEF Follows
  <2>4. CASE ~Opened(a)
    <3>1. y = a
      BY <2>1, <2>4
    <3> QED BY <2>2, <3>1, WithinLess
  <2>5. CASE Opened(a)
    <3>1. PICK z \in log_file_write(a, << >>) : y \in IF Opened(z) THEN rest(z) ELSE {z}
      BY <2>1, <2>5
    <3>2. Follows(a, z) /\ Sane(z)
      BY <2>3, <2>5, <3>1, WriteLemma
    <3>3. Follows(x, z) /\ z \in XRec
      BY <2>2, <3>2, FollowsTrans DEF Follows
    <3>4. CASE Opened(z)
      <4>1. Within(z, data, y)
        BY <1>1, <3>1, <3>2, <3>3, <3>4
      <4> QED BY <3>3, <4>1, WithinAfter
    <3>5. CASE ~Opened(z)
      <4>1. y = z
        BY <3>1, <3>5
      <4> QED BY <3>3, <4>1, WithinLess
    <3> QED BY <3>4, <3>5
  <2> QED BY <2>4, <2>5
<1> QED BY <1>2, <1>3

\* A log that is gone.
Gone == [log_new EXCEPT !.place = "freed", !.io = FALSE]

LEMMA GoneLemma ==
  /\ log_new \in LogRec /\ log_new.place = "job" /\ log_new.io /\ log_new.fd = "closed"
  /\ log_new.unflushed = << >> /\ log_new.recv = << >>
  /\ Gone \in LogRec /\ Gone.place = "freed" /\ ~Gone.io /\ Gone.fd = "closed"
  /\ Gone.unflushed = << >> /\ Gone.recv = << >>
<1>1. << >> \in Seq(Chunks)
  BY EmptySeq
<1>2. /\ log_new \in LogRec /\ log_new.place = "job" /\ log_new.io /\ log_new.fd = "closed"
      /\ log_new.unflushed = << >> /\ log_new.recv = << >>
  BY <1>1 DEF log_new, LogRec, Errnos
<1>3. /\ Gone \in LogRec /\ Gone.place = "freed" /\ ~Gone.io /\ Gone.fd = "closed"
      /\ Gone.unflushed = << >> /\ Gone.recv = << >>
  BY <1>2 DEF Gone, LogRec
<1> QED BY <1>2, <1>3

\* Freeing a log: what is in the file is in order.
LEMMA DestroyLemma ==
  ASSUME disk \in Disks, NEW x \in XRec, Sane(x), NEW data \in Seq(Chunks),
         NEW closed \in BOOLEAN, NEW y \in log_destroy(x, data, closed)
  PROVE  /\ y \in XRec /\ y.log = Gone /\ x.faults \subseteq y.faults
         /\ \A n \in Nat : Good(Cat(x) \o data, n) => Good(y.file, n)
<1>1. PICK z \in log_flush(x, data, closed) : y = [z EXCEPT !.log = Gone]
  BY DEF log_destroy, Gone
<1>2. Within(x, data, z)
  BY <1>1, FlushLemma
<1>3. z \in XRec
  BY <1>2 DEF Within
<1>4. y \in XRec /\ y.log = Gone /\ y.file = z.file /\ y.faults = z.faults
  BY <1>1, <1>3, GoneLemma DEF XRec
<1>5. ASSUME NEW n \in Nat, Good(Cat(x) \o data, n) PROVE Good(y.file, n)
  <2>1. Good(Cat(z), n)
    BY <1>2, <1>5 DEF Within
  <2>2. /\ z.file \in Seq(Chunks) /\ z.log.unflushed \in Seq(Chunks) /\ z.log.recv \in Seq(Chunks)
        /\ z.file \o z.log.unflushed \in Seq(Chunks)
    BY <1>3, XFields
  <2>3. Good(z.file \o z.log.unflushed, n)
    BY <2>1, <2>2, GoodPrefix DEF Cat
  <2> QED BY <1>4, <2>2, <2>3, GoodPrefix
<1> QED BY <1>2, <1>4, <1>5 DEF Within

\* One entry of the list: it is freed, or stays with what it has.
LEMMA ClearOneLemma ==
  ASSUME disk \in Disks, NEW l \in Logs, X(l) \in XRec, Sane(X(l)), pty[l] \in Seq(Chunks),
         NEW r \in ClearOne(l)
  PROVE  /\ r.ret \in {0, 1} /\ r.x \in XRec /\ faults \subseteq r.x.faults
         /\ r.ret = 0 => /\ r.x.log = Gone
                         /\ \A n \in Nat : Good(Cat(X(l)) \o pty[l], n) => Good(r.x.file, n)
         /\ r.ret = 1 => /\ Follows(X(l), r.x) /\ Sane(r.x)
                         /\ log[l].open_errno # "0" => r.x.log.open_errno # "0"
<1>1. /\ X(l).log = log[l] /\ X(l).file = file[l] /\ X(l).faults = faults
      /\ RemoteClosed(l) \in BOOLEAN
  BY DEF X, RemoteClosed
<1>2. CASE log[l].unflushed = << >>
  <2> DEFINE a == [X(l) EXCEPT !.log.io = FALSE]
  <2>1. PICK y \in log_destroy(a, << >>, TRUE) : r = [ret |-> 0, x |-> y]
    BY <1>2 DEF ClearOne
  <2>2. /\ a \in XRec /\ a.file = X(l).file /\ a.faults = X(l).faults
        /\ a.log.unflushed = X(l).log.unflushed /\ a.log.recv = X(l).log.recv
        /\ a.log.fd = X(l).log.fd
    BY DEF XRec, LogRec
  <2>3. Sane(a) /\ Cat(a) = Cat(X(l))
    BY <2>2 DEF Sane, Cat
  <2>4. << >> \in Seq(Chunks)
    BY EmptySeq
  <2>5. Cat(X(l)) \in Seq(Chunks)
    BY XFields
  <2> HIDE DEF a
  <2>6. /\ y \in XRec /\ y.log = Gone /\ a.faults \subseteq y.faults
        /\ \A n \in Nat : Good(Cat(a) \o << >>, n) => Good(y.file, n)
    <3> DEFINE P(z) == /\ z \in XRec /\ z.log = Gone /\ a.faults \subseteq z.faults
                       /\ \A n \in Nat : Good(Cat(a) \o << >>, n) => Good(z.file, n)
    <3>1. \A c \in BOOLEAN : \A z \in log_destroy(a, << >>, c) : P(z)
      BY <2>2, <2>3, <2>4, DestroyLemma
    <3> HIDE DEF P
    <3>2. P(y)
      BY <3>1, <2>1, Zenon
    <3> QED BY <3>2 DEF P
  <2>7. ASSUME NEW n \in Nat, Good(Cat(X(l)) \o pty[l], n) PROVE Good(y.file, n)
    <3>1. Good(Cat(X(l)), n)
      BY <2>5, <2>7, GoodPrefix
    <3>2. Cat(a) \o << >> = Cat(X(l))
      BY <2>3, <2>5, ConcatEmptySeq
    <3> QED BY <2>6, <3>1, <3>2
  <2> QED BY <1>1, <2>1, <2>2, <2>6, <2>7
<1>3. CASE log[l].unflushed # << >>
  <2>1. PICK y \in log_file_open(X(l), "0") :
          r \in IF ~Opened(y) THEN {[ret |-> 1, x |-> y]}
                ELSE UNION {IF ~Opened(z) THEN {[ret |-> 1, x |-> z]}
                            ELSE {[ret |-> 0, x |-> d] : d \in log_destroy(z, pty[l], RemoteClosed(l))} :
                              z \in log_file_write(y, << >>)}
    BY <1>3 DEF ClearOne
  <2>2. X(l).log.fd = "closed"
    BY <1>1, <1>3 DEF Sane
  <2>3. /\ Follows(X(l), y) /\ y.log.fd \in {"open", "closed"}
        /\ log[l].open_errno # "0" => y.log.open_errno # "0"
    <3>1. "0" \in Errnos
      BY DEF Errnos
    <3> QED BY <1>1, <2>1, <2>2, <3>1, OpenLemma
  <2>4. y \in XRec
    BY <2>3 DEF Follows
  <2>5. CASE ~Opened(y)
    <3>1. r = [ret |-> 1, x |-> y]
      BY <2>1, <2>5
    <3>2. Sane(y)
      BY <2>3, <2>5 DEF Opened, Sane
    <3> QED BY <1>1, <2>3, <2>4, <3>1, <3>2 DEF Follows
  <2>6. CASE Opened(y)
    <3>1. PICK z \in log_file_write(y, << >>) :
            r \in IF ~Opened(z) THEN {[ret |-> 1, x |-> z]}
                  ELSE {[ret |-> 0, x |-> d] : d \in log_destroy(z, pty[l], RemoteClosed(l))}
      BY <2>1, <2>6
    <3>2. Follows(y, z) /\ Sane(z) /\ z.log.open_errno = y.log.open_errno
      BY <2>4, <2>6, <3>1, WriteLemma
    <3>3. Follows(X(l), z) /\ z \in XRec
      BY <2>3, <3>2, FollowsTrans DEF Follows
    <3>4. CASE ~Opened(z)
      <4>1. r = [ret |-> 1, x |-> z]
        BY <3>1, <3>4
      <4> QED BY <1>1, <2>3, <3>2, <3>3, <4>1 DEF Follows
    <3>5. CASE Opened(z)
      <4>1. PICK d \in log_destroy(z, pty[l], RemoteClosed(l)) : r = [ret |-> 0, x |-> d]
        BY <3>1, <3>5
      <4>2. /\ d \in XRec /\ d.log = Gone /\ z.faults \subseteq d.faults
            /\ \A n \in Nat : Good(Cat(z) \o pty[l], n) => Good(d.file, n)
        BY <1>1, <3>2, <3>3, <4>1, DestroyLemma
      <4> QED BY <1>1, <3>3, <4>1, <4>2 DEF Follows
    <3> QED BY <3>4, <3>5
  <2> QED BY <2>5, <2>6
<1> QED BY <1>2, <1>3

----------------------------------------------------------------------------
(* The inductive invariant *)

\* What is held of each log is in order, and no later than what was written.
OrderInv == \A l \in Logs : Good(Held(l), out[l])

\* A log that is in use and no longer reads knows that its terminal is closed;
\* one on the list has the errno of an attempt to open its file.
EntryInv ==
  \A l \in Logs : /\ log[l].place # "freed" /\ ~log[l].io => log[l].remote_closed
                  /\ log[l].place = "list" => log[l].open_errno # "0"

\* The list holds logs that were put there, each once.
ListInv ==
  /\ \A i \in 1..Len(log_unflushed_files) : log[log_unflushed_files[i]].place = "list"
  /\ \A i, j \in 1..Len(log_unflushed_files) :
        log_unflushed_files[i] = log_unflushed_files[j] => i = j

LogInv ==
  /\ TypeOK /\ out \in [Logs -> Nat]
  /\ OrderInv /\ Complete /\ BufferedIsClosed /\ Faultless /\ EntryInv /\ ListInv

\* A log as the functions see it.
LEMMA XLemma ==
  ASSUME LogInv, NEW l \in Logs
  PROVE  /\ X(l) \in XRec /\ Sane(X(l))
         /\ X(l).log = log[l] /\ X(l).file = file[l] /\ X(l).faults = faults
         /\ pty[l] \in Seq(Chunks) /\ out[l] \in Nat
         /\ Held(l) = Cat(X(l)) \o pty[l] /\ Good(Held(l), out[l])
         /\ disk \in Disks
<1>1. X(l).log = log[l] /\ X(l).file = file[l] /\ X(l).faults = faults
  BY DEF X
<1>2. log[l] \in LogRec /\ file[l] \in Seq(Chunks) /\ pty[l] \in Seq(Chunks) /\ faults \in SUBSET Notes
  BY DEF LogInv, TypeOK, LogRec, Notes
<1>3. X(l) \in XRec
  BY <1>2 DEF X, XRec
<1>4. Held(l) = Cat(X(l)) \o pty[l]
  BY <1>1 DEF Held, Cat
<1> QED BY <1>1, <1>2, <1>3, <1>4 DEF LogInv, Sane, BufferedIsClosed, OrderInv, TypeOK

\* The invariant in parts, with types that are easier to use.
LEMMA Types ==
  ASSUME log \in [Logs -> LogRec], file \in [Logs -> Seq(Chunks)], pty \in [Logs -> Seq(Chunks)],
         \A l \in Logs : out[l] \in 0..MaxOut[l],
         writers \in [Logs -> SUBSET {"main", "child"}],
         disk \in Disks, log_flushed \in BOOLEAN, fault \in BOOLEAN,
         log_unflushed_files \in Seq(Logs), faults \in SUBSET Notes
  PROVE  TypeOK
BY DEF TypeOK, LogRec, Notes

\* A step of one log, after which all of its terminal has been read.
LEMMA OneLogStep ==
  ASSUME LogInv, NEW l \in Logs, NEW x \in XRec, Set(l, x), faults \subseteq x.faults,
         pty' = [pty EXCEPT ![l] = << >>],
         UNCHANGED <<out, writers, disk, log_flushed, fault>>,
         log_unflushed_files' \in Seq(Logs), ListInv',
         Sane(x), Good(Cat(x), out[l]),
         x.log.place = "job" /\ x.log.io /\ {"full", "reexec"} \cap x.faults = {} => Cat(x) = AllOf(l),
         x.log.place # "freed" /\ ~x.log.io => x.log.remote_closed,
         x.log.place = "list" => x.log.open_errno # "0"
  PROVE  LogInv'
<1>1. /\ log \in [Logs -> LogRec] /\ file \in [Logs -> Seq(Chunks)]
      /\ pty \in [Logs -> Seq(Chunks)] /\ faults \in SUBSET Notes /\ << >> \in Seq(Chunks)
  BY EmptySeq DEF LogInv, TypeOK, LogRec, Notes
<1>2. /\ log' = [log EXCEPT ![l] = x.log] /\ file' = [file EXCEPT ![l] = x.file]
      /\ faults' = x.faults
  BY DEF Set
<1>3. x.log \in LogRec /\ x.file \in Seq(Chunks) /\ x.faults \in SUBSET Notes /\ Cat(x) \in Seq(Chunks)
  BY XFields
<1>4. /\ log' \in [Logs -> LogRec] /\ file' \in [Logs -> Seq(Chunks)]
      /\ pty' \in [Logs -> Seq(Chunks)]
      /\ log'[l] = x.log /\ file'[l] = x.file /\ pty'[l] = << >>
      /\ \A k \in Logs \ {l} : log'[k] = log[k] /\ file'[k] = file[k] /\ pty'[k] = pty[k]
  BY <1>1, <1>2, <1>3
<1>5. TypeOK'
  BY <1>2, <1>3, <1>4 DEF LogInv, TypeOK, LogRec, Notes
<1>6. Held(l)' = Cat(x)
  <2>1. Held(l)' = Cat(x) \o << >>
    BY <1>4 DEF Held, Cat
  <2> QED BY <1>3, <2>1, ConcatEmptySeq
<1>7. ASSUME NEW k \in Logs \ {l} PROVE Held(k)' = Held(k)
  BY <1>4 DEF Held
<1>8. OrderInv'
  <2> SUFFICES ASSUME NEW k \in Logs PROVE Good(Held(k)', out[k])
    BY DEF OrderInv
  <2>1. CASE k = l
    BY <1>6, <2>1
  <2>2. CASE k # l
    BY <1>7, <2>2 DEF LogInv, OrderInv
  <2> QED BY <2>1, <2>2
<1>9. Complete'
  <2> SUFFICES ASSUME NEW k \in Logs, log'[k].place = "job", log'[k].io,
                      {"full", "reexec"} \cap x.faults = {}
               PROVE  Held(k)' = AllOf(k)
    BY <1>2 DEF Complete, AllOf
  <2>1. CASE k = l
    BY <1>4, <1>6, <2>1
  <2>2. CASE k # l
    <3>1. {"full", "reexec"} \cap faults = {}
      OBVIOUS
    <3> QED BY <1>4, <1>7, <2>2, <3>1 DEF LogInv, Complete
  <2> QED BY <2>1, <2>2
<1>10. BufferedIsClosed'
  BY <1>4 DEF LogInv, BufferedIsClosed, Sane
<1>11. EntryInv'
  BY <1>4 DEF LogInv, EntryInv
<1> QED BY <1>5, <1>8, <1>9, <1>10, <1>11 DEF LogInv, Faultless

LEMMA InitHolds == Init => LogInv
<1> SUFFICES ASSUME Init PROVE LogInv
  OBVIOUS
<1>1. << >> \in Seq(Chunks) /\ << >> \in Seq(Logs) /\ << >> \o << >> = << >> /\ Len(<< >>) = 0
  BY EmptySeq, ConcatEmptySeq
<1>2. /\ log \in [Logs -> LogRec] /\ file \in [Logs -> Seq(Chunks)] /\ pty \in [Logs -> Seq(Chunks)]
      /\ \A l \in Logs : log[l] = log_new /\ file[l] = << >> /\ pty[l] = << >> /\ out[l] = 0
      /\ writers \in [Logs -> SUBSET {"main", "child"}]
  BY <1>1, GoneLemma DEF Init
<1>3. TypeOK
  <2>1. log_flushed \in BOOLEAN /\ fault \in BOOLEAN
    BY Zenon DEF Init
  <2>2. \A l \in Logs : out[l] \in 0..MaxOut[l]
    BY <1>2, LogAssumption
  <2>3. disk \in Disks /\ log_unflushed_files \in Seq(Logs) /\ faults \in SUBSET Notes
    BY <1>1 DEF Init
  <2> QED BY <1>2, <2>1, <2>2, <2>3, Types
<1>4. \A l \in Logs : Held(l) = << >>
  BY <1>1, <1>2, GoneLemma DEF Held
<1>5. OrderInv
  BY <1>1, <1>4 DEF OrderInv, Good
<1>6. Complete
  <2>1. \A l \in Logs : AllOf(l) = << >>
    BY <1>2 DEF AllOf
  <2> QED BY <1>4, <2>1 DEF Complete
<1>7. BufferedIsClosed /\ EntryInv
  BY <1>2, GoneLemma DEF BufferedIsClosed, EntryInv
<1>8. Faultless /\ ListInv /\ out \in [Logs -> Nat]
  BY <1>1 DEF Init, Faultless, ListInv
<1> QED BY <1>3, <1>5, <1>6, <1>7, <1>8 DEF LogInv

----------------------------------------------------------------------------
(* The steps *)

LEMMA ReadTerminalKeeps ==
  ASSUME LogInv, NEW l \in Logs, ReadTerminal(l)
  PROVE  LogInv'
<1> DEFINE a == [X(l) EXCEPT !.log.recv = @ \o pty[l]]
<1>1. /\ log[l].io
      /\ pty' = [pty EXCEPT ![l] = << >>]
      /\ UNCHANGED <<out, writers, disk, log_unflushed_files, log_flushed, fault>>
  BY DEF ReadTerminal
<1>2. PICK y \in IfReceived(a, "stale") :
        IF RemoteClosed(l)
        THEN Set(l, [y EXCEPT !.log.io = FALSE, !.log.remote_closed = TRUE, !.log.recv = << >>])
        ELSE Set(l, y)
  BY DEF ReadTerminal
<1>3. /\ X(l) \in XRec /\ Sane(X(l)) /\ X(l).log = log[l] /\ X(l).faults = faults
      /\ pty[l] \in Seq(Chunks) /\ out[l] \in Nat /\ disk \in Disks
      /\ Held(l) = Cat(X(l)) \o pty[l] /\ Good(Held(l), out[l])
  BY XLemma
<1>4. /\ a \in XRec /\ SamePlace(X(l), a) /\ a.faults = faults /\ Sane(a)
      /\ a.log.open_errno = log[l].open_errno
      /\ Cat(a) = Held(l)
  BY <1>3, ReceivedLemma
<1> HIDE DEF a
<1>5. /\ Follows(a, y) /\ Sane(y)
      /\ log[l].open_errno # "0" => y.log.open_errno # "0"
  <2>1. "stale" \in Errnos /\ "stale" # "0"
    BY DEF Errnos
  <2> QED BY <1>2, <1>3, <1>4, <2>1, IfReceivedLemma
<1>6. /\ y \in XRec /\ faults \subseteq y.faults
      /\ y.log.place = log[l].place /\ y.log.io
      /\ "full" \notin y.faults => Cat(y) = Held(l)
  BY <1>1, <1>3, <1>4, <1>5 DEF Follows, SamePlace
<1>7. Good(Cat(y), out[l])
  <2>1. << >> \in Seq(Chunks) /\ Cat(a) \in Seq(Chunks) /\ Cat(y) \in Seq(Chunks)
    BY <1>4, <1>6, EmptySeq, XFields
  <2>2. Cat(a) \o << >> = Cat(a) /\ Cat(y) \o << >> = Cat(y)
    BY <2>1, ConcatEmptySeq
  <2> QED BY <1>3, <1>4, <1>5, <2>1, <2>2 DEF Follows
<1>8. log_unflushed_files \in Seq(Logs) /\ log_unflushed_files' = log_unflushed_files
  BY <1>1 DEF LogInv, TypeOK
<1>9. ASSUME NEW x \in XRec, Set(l, x), x.log.place = log[l].place PROVE ListInv'
  <2>1. \A k \in Logs : log'[k].place = log[k].place
    BY <1>9 DEF Set, LogInv, TypeOK
  <2>2. \A i \in 1..Len(log_unflushed_files) : log_unflushed_files[i] \in Logs
    BY <1>8, ElementOfSeq
  <2> QED BY <1>8, <2>1, <2>2 DEF LogInv, ListInv
<1>10. CASE RemoteClosed(l)
  <2> DEFINE x == [y EXCEPT !.log.io = FALSE, !.log.remote_closed = TRUE, !.log.recv = << >>]
  <2>1. Set(l, x)
    BY <1>2, <1>10
  <2>2. << >> \in Seq(Chunks)
    BY EmptySeq
  <2>3. /\ x \in XRec /\ x.file = y.file /\ x.faults = y.faults
        /\ x.log.unflushed = y.log.unflushed /\ x.log.recv = << >> /\ x.log.fd = y.log.fd
        /\ x.log.place = y.log.place /\ ~x.log.io /\ x.log.remote_closed
        /\ x.log.open_errno = y.log.open_errno
    BY <1>6, <2>2 DEF XRec, LogRec
  <2> HIDE DEF x
  <2>4. Sane(x)
    BY <1>5, <2>3 DEF Sane
  <2>5. Good(Cat(x), out[l])
    <3> DEFINE b == y.file \o y.log.unflushed
    <3>1. b \in Seq(Chunks) /\ y.log.recv \in Seq(Chunks)
      BY <1>6, XFields
    <3>2. Cat(x) = b
      BY <2>3, <3>1, ConcatEmptySeq DEF Cat
    <3>3. Good(b \o y.log.recv, out[l])
      BY <1>7 DEF Cat
    <3> HIDE DEF b
    <3> QED BY <1>3, <3>1, <3>2, <3>3, GoodPrefix
  <2>6. ListInv'
    BY <1>6, <1>9, <2>1, <2>3
  <2>7. x.log.place = "list" => x.log.open_errno # "0"
    BY <1>5, <1>6, <2>3 DEF LogInv, EntryInv
  <2> QED BY <1>1, <1>6, <1>8, <2>1, <2>3, <2>4, <2>5, <2>6, <2>7, OneLogStep
<1>11. CASE ~RemoteClosed(l)
  <2>1. Set(l, y)
    BY <1>2, <1>11
  <2>2. ListInv'
    BY <1>6, <1>9, <2>1
  <2>3. y.log.place = "list" => y.log.open_errno # "0"
    BY <1>5, <1>6 DEF LogInv, EntryInv
  <2>4. y.log.place = "job" /\ y.log.io /\ {"full", "reexec"} \cap y.faults = {} => Cat(y) = AllOf(l)
    <3> SUFFICES ASSUME y.log.place = "job", {"full", "reexec"} \cap y.faults = {}
                 PROVE  Cat(y) = AllOf(l)
      OBVIOUS
    <3>1. {"full", "reexec"} \cap faults = {} /\ "full" \notin y.faults
      BY <1>6
    <3> QED BY <1>1, <1>6, <3>1 DEF LogInv, Complete
  <2> QED BY <1>1, <1>5, <1>6, <1>7, <1>8, <2>1, <2>2, <2>3, <2>4, OneLogStep
<1> QED BY <1>10, <1>11

LEMMA TerminatedKeeps ==
  ASSUME LogInv, NEW l \in Logs, Terminated(l)
  PROVE  LogInv'
<1>1. /\ log[l].place = "job"
      /\ pty' = [pty EXCEPT ![l] = << >>]
      /\ UNCHANGED <<out, writers, disk, log_flushed, fault>>
  BY DEF Terminated
<1>2. PICK y \in log_read_watch(X(l), pty[l], RemoteClosed(l)) :
        IF ForLater(y)
        THEN /\ Set(l, [y EXCEPT !.log.place = "list"])
             /\ log_unflushed_files' = <<l>> \o log_unflushed_files
        ELSE /\ \E z \in log_destroy(y, << >>, RemoteClosed(l)) : Set(l, z)
             /\ UNCHANGED log_unflushed_files
  BY DEF Terminated
<1>3. /\ X(l) \in XRec /\ Sane(X(l)) /\ X(l).log = log[l] /\ X(l).faults = faults
      /\ pty[l] \in Seq(Chunks) /\ out[l] \in Nat /\ disk \in Disks
      /\ Held(l) = Cat(X(l)) \o pty[l] /\ Good(Held(l), out[l])
      /\ RemoteClosed(l) \in BOOLEAN
  BY XLemma DEF RemoteClosed
<1>4. /\ Within(X(l), pty[l], y) /\ Sane(y)
      /\ y.log.place = log[l].place /\ y.log.io = log[l].io
      /\ log[l].remote_closed => y.log.remote_closed
  BY <1>2, <1>3, ReadWatchLemma
<1>5. y \in XRec /\ faults \subseteq y.faults /\ Good(Cat(y), out[l]) /\ Cat(y) \in Seq(Chunks)
  BY <1>3, <1>4, XFields DEF Within
<1>6. /\ log_unflushed_files \in Seq(Logs)
      /\ \A i \in 1..Len(log_unflushed_files) :
            log_unflushed_files[i] \in Logs \ {l}
      /\ ListInv
  <2>1. log_unflushed_files \in Seq(Logs) /\ ListInv
    BY DEF LogInv, TypeOK
  <2> QED BY <1>1, <2>1, ElementOfSeq DEF ListInv
<1>7. CASE ForLater(y)
  <2> DEFINE x == [y EXCEPT !.log.place = "list"]
  <2>1. Set(l, x) /\ log_unflushed_files' = <<l>> \o log_unflushed_files
    BY <1>2, <1>7
  <2>2. /\ x \in XRec /\ x.file = y.file /\ x.faults = y.faults
        /\ x.log.unflushed = y.log.unflushed /\ x.log.recv = y.log.recv /\ x.log.fd = y.log.fd
        /\ x.log.place = "list" /\ x.log.io = y.log.io /\ x.log.remote_closed = y.log.remote_closed
        /\ x.log.open_errno = y.log.open_errno
    BY <1>5 DEF XRec, LogRec
  <2> HIDE DEF x
  <2>3. Sane(x) /\ Cat(x) = Cat(y)
    BY <1>4, <2>2 DEF Sane, Cat
  <2>4. x.log.open_errno # "0"
    BY <1>7, <2>2 DEF ForLater
  <2>5. ~x.log.io => x.log.remote_closed
    BY <1>1, <1>4, <2>2 DEF LogInv, EntryInv
  <2>6. /\ log_unflushed_files' \in Seq(Logs)
        /\ Len(log_unflushed_files') = Len(log_unflushed_files) + 1
        /\ log_unflushed_files'[1] = l
        /\ \A i \in 2..(Len(log_unflushed_files) + 1) :
             log_unflushed_files'[i] = log_unflushed_files[i - 1]
    BY <1>6, <2>1
  <2>7. ListInv'
    <3>1. log'[l].place = "list" /\ \A k \in Logs \ {l} : log'[k] = log[k]
      BY <2>1, <2>2 DEF Set, LogInv, TypeOK
    <3>2. Len(log_unflushed_files) \in Nat
      BY <1>6, LenProperties
    <3>3. ASSUME NEW i \in 1..Len(log_unflushed_files')
          PROVE  log'[log_unflushed_files'[i]].place = "list"
      <4>1. CASE i = 1
        BY <2>6, <3>1, <4>1
      <4>2. CASE i # 1
        <5>1. i \in 2..(Len(log_unflushed_files) + 1) /\ i - 1 \in 1..Len(log_unflushed_files)
          BY <2>6, <3>2, <4>2
        <5>2. log_unflushed_files'[i] = log_unflushed_files[i - 1]
          BY <2>6, <5>1
        <5> QED BY <1>6, <3>1, <5>1, <5>2 DEF ListInv
      <4> QED BY <4>1, <4>2
    <3>4. ASSUME NEW i \in 1..Len(log_unflushed_files'), NEW j \in 1..Len(log_unflushed_files'),
                 log_unflushed_files'[i] = log_unflushed_files'[j]
          PROVE  i = j
      <4>1. \A m \in 2..(Len(log_unflushed_files) + 1) :
              m - 1 \in 1..Len(log_unflushed_files) /\ log_unflushed_files'[m] # l
        <5> SUFFICES ASSUME NEW m \in 2..(Len(log_unflushed_files) + 1)
                     PROVE  /\ m - 1 \in 1..Len(log_unflushed_files)
                            /\ log_unflushed_files'[m] # l
          OBVIOUS
        <5>1. m - 1 \in 1..Len(log_unflushed_files)
          BY <3>2
        <5>2. log_unflushed_files[m - 1] # l
          BY <1>6, <5>1
        <5> QED BY <2>6, <5>1, <5>2
      <4>2. CASE i = 1 \/ j = 1
        BY <2>6, <3>2, <3>4, <4>1, <4>2
      <4>3. CASE i # 1 /\ j # 1
        <5>1. /\ i \in 2..(Len(log_unflushed_files) + 1) /\ j \in 2..(Len(log_unflushed_files) + 1)
          BY <2>6, <3>2, <4>3
        <5>2. log_unflushed_files[i - 1] = log_unflushed_files[j - 1]
          BY <2>6, <3>4, <5>1
        <5>3. i - 1 = j - 1
          BY <1>6, <4>1, <5>1, <5>2 DEF ListInv
        <5> QED BY <3>2, <5>1, <5>3
      <4> QED BY <4>2, <4>3
    <3> QED BY <3>3, <3>4 DEF ListInv
  <2> QED BY <1>1, <1>5, <2>1, <2>2, <2>3, <2>4, <2>5, <2>6, <2>7, OneLogStep
<1>8. CASE ~ForLater(y)
  <2>1. PICK z \in log_destroy(y, << >>, RemoteClosed(l)) : Set(l, z)
    BY <1>2, <1>8
  <2>2. log_unflushed_files' = log_unflushed_files
    BY <1>2, <1>8
  <2>3. << >> \in Seq(Chunks) /\ Cat(y) \o << >> = Cat(y)
    BY <1>5, EmptySeq, ConcatEmptySeq
  <2>4. /\ z \in XRec /\ z.log = Gone /\ y.faults \subseteq z.faults
        /\ Good(z.file, out[l])
    BY <1>3, <1>4, <1>5, <2>1, <2>3, DestroyLemma
  <2>5. Cat(z) = z.file
    BY <2>3, <2>4, GoneLemma, XFields, ConcatEmptySeq DEF Cat
  <2>6. ListInv'
    <3>1. \A k \in Logs \ {l} : log'[k] = log[k]
      BY <2>1 DEF Set, LogInv, TypeOK
    <3> QED BY <1>6, <2>2, <3>1 DEF ListInv
  <2>7. Sane(z)
    BY <2>4, GoneLemma DEF Sane
  <2>8. faults \subseteq z.faults /\ z.log.place = "freed"
    BY <1>5, <2>4, GoneLemma
  <2> QED BY <1>1, <1>6, <2>1, <2>2, <2>4, <2>5, <2>6, <2>7, <2>8, OneLogStep
<1> QED BY <1>7, <1>8

LEMMA OutputKeeps ==
  ASSUME LogInv, NEW l \in Logs, Output(l)
  PROVE  LogInv'
<1>1. /\ out[l] < MaxOut[l]
      /\ out' = [out EXCEPT ![l] = @ + 1]
      /\ pty' = [pty EXCEPT ![l] = Append(@, out[l] + 1)]
      /\ UNCHANGED <<log, file, writers, disk, log_unflushed_files, log_flushed, faults, fault>>
  BY DEF Output
<1>2. /\ out \in [Logs -> Nat] /\ pty \in [Logs -> Seq(Chunks)] /\ MaxOut \in [Logs -> Nat]
      /\ TypeOK
  BY LogAssumption DEF LogInv, TypeOK
<1>3. /\ pty[l] \in Seq(Chunks) /\ out[l] \in Nat /\ X(l) \in XRec /\ Cat(X(l)) \in Seq(Chunks)
      /\ Held(l) = Cat(X(l)) \o pty[l] /\ Good(Held(l), out[l])
  BY XLemma, XFields
<1>4. /\ out'[l] = out[l] + 1 /\ pty'[l] = Append(pty[l], out[l] + 1)
      /\ \A k \in Logs \ {l} : out'[k] = out[k] /\ pty'[k] = pty[k]
      /\ out' \in [Logs -> Nat]
  BY <1>1, <1>2
<1>5. out[l] + 1 \in Chunks
  BY <1>3 DEF Chunks
<1>6. pty' \in [Logs -> Seq(Chunks)]
  BY <1>1, <1>2, <1>3, <1>5
<1>7. TypeOK'
  <2>1. \A k \in Logs : out'[k] \in 0..MaxOut[k]
    BY <1>1, <1>2, <1>4 DEF TypeOK
  <2> QED BY <1>1, <1>2, <1>6, <2>1 DEF TypeOK
<1>8. Held(l)' = Append(Held(l), out[l] + 1) /\ Held(l) \in Seq(Chunks)
  <2> DEFINE a == Cat(X(l))
             p == pty[l]
             c == out[l] + 1
  <2>1. Held(l)' = a \o Append(p, c)
    BY <1>1, <1>4 DEF Held, Cat, X
  <2>2. a \in Seq(Chunks) /\ p \in Seq(Chunks) /\ c \in Chunks /\ Held(l) = a \o p
    BY <1>3, <1>5
  <2> HIDE DEF a, p, c
  <2>3. a \o Append(p, c) = Append(a \o p, c)
    BY <2>2
  <2> QED BY <2>1, <2>2, <2>3, ConcatProperties DEF c
<1>9. ASSUME NEW k \in Logs \ {l} PROVE Held(k)' = Held(k)
  BY <1>1, <1>4 DEF Held
<1>10. OrderInv'
  <2> SUFFICES ASSUME NEW k \in Logs PROVE Good(Held(k)', out'[k])
    BY DEF OrderInv
  <2>1. CASE k = l
    BY <1>3, <1>4, <1>8, <2>1, GoodAppend
  <2>2. CASE k # l
    BY <1>4, <1>9, <2>2 DEF LogInv, OrderInv
  <2> QED BY <2>1, <2>2
<1>11. Complete'
  <2> SUFFICES ASSUME NEW k \in Logs, log[k].place = "job", log[k].io,
                      {"full", "reexec"} \cap faults = {}
               PROVE  Held(k)' = AllOf(k)'
    BY <1>1 DEF Complete
  <2>1. Held(k) = AllOf(k)
    BY DEF LogInv, Complete
  <2>2. CASE k = l
    <3> DEFINE n == out[l]
    <3>1. Append([i \in 1..n |-> i], n + 1) = [i \in 1..(n + 1) |-> i]
      <4>1. n \in Nat
        BY <1>3
      <4> HIDE DEF n
      <4> QED BY <4>1
    <3> QED BY <1>4, <1>8, <2>1, <2>2, <3>1 DEF AllOf
  <2>3. CASE k # l
    BY <1>4, <1>9, <2>1, <2>3 DEF AllOf
  <2> QED BY <2>2, <2>3
<1>12. BufferedIsClosed' /\ Faultless' /\ EntryInv' /\ ListInv'
  BY <1>1 DEF LogInv, BufferedIsClosed, Faultless, EntryInv, ListInv
<1> QED BY <1>4, <1>7, <1>10, <1>11, <1>12 DEF LogInv

\* A step that leaves the logs and their output alone.
LEMMA OthersKeep ==
  ASSUME LogInv, UNCHANGED <<log, file, pty, out, log_unflushed_files, log_flushed, fault>>,
         writers' \in [Logs -> SUBSET {"main", "child"}], disk' \in Disks,
         faults' \in SUBSET Notes, faults \subseteq faults'
  PROVE  LogInv'
<1>1. TypeOK'
  BY DEF LogInv, TypeOK, Notes
<1>2. OrderInv' /\ BufferedIsClosed' /\ Faultless' /\ EntryInv' /\ ListInv'
  BY DEF LogInv, OrderInv, Held, BufferedIsClosed, Faultless, EntryInv, ListInv
<1>3. Complete'
  BY DEF LogInv, Complete, Held, AllOf
<1> QED BY <1>1, <1>2, <1>3 DEF LogInv

LEMMA RotateKeeps ==
  ASSUME LogInv, NEW l \in Logs, Rotate(l)
  PROVE  LogInv'
<1>1. /\ log[l].fd = "open" /\ log' = [log EXCEPT ![l].fd = "unlinked"]
      /\ UNCHANGED <<file, pty, out, writers, disk, log_unflushed_files, log_flushed, faults, fault>>
  BY DEF Rotate
<1>2. log \in [Logs -> LogRec] /\ TypeOK
  BY DEF LogInv, TypeOK, LogRec
<1>3. /\ log' \in [Logs -> LogRec]
      /\ \A k \in Logs : /\ log'[k].place = log[k].place /\ log'[k].io = log[k].io
                         /\ log'[k].unflushed = log[k].unflushed /\ log'[k].recv = log[k].recv
                         /\ log'[k].remote_closed = log[k].remote_closed
                         /\ log'[k].open_errno = log[k].open_errno
                         /\ log'[k].fd = IF k = l THEN "unlinked" ELSE log[k].fd
  BY <1>1, <1>2 DEF LogRec
<1>4. TypeOK'
  BY <1>1, <1>2, <1>3 DEF TypeOK, LogRec
<1>5. \A k \in Logs : Held(k)' = Held(k)
  BY <1>1, <1>3 DEF Held
<1>6. OrderInv' /\ Complete'
  BY <1>1, <1>3, <1>5 DEF LogInv, OrderInv, Complete, AllOf
<1>7. BufferedIsClosed'
  BY <1>1, <1>3 DEF LogInv, BufferedIsClosed
<1>8. EntryInv' /\ Faultless'
  BY <1>1, <1>3 DEF LogInv, EntryInv, Faultless
<1>9. ListInv'
  <2>1. \A i \in 1..Len(log_unflushed_files) : log_unflushed_files[i] \in Logs
    BY <1>2, ElementOfSeq DEF TypeOK
  <2> QED BY <1>1, <1>3, <2>1 DEF LogInv, ListInv
<1>10. out' \in [Logs -> Nat]
  BY <1>1 DEF LogInv
<1> QED BY <1>4, <1>6, <1>7, <1>8, <1>9, <1>10 DEF LogInv

\* log_clear_unflushed: the entries up to the first that fails are freed.
LEMMA ClearKeeps ==
  ASSUME LogInv, NotifyDiskWriteable
  PROVE  LogInv'
<1> DEFINE L == log_unflushed_files
<1>1. PICK x \in [Range(L) -> UNION {ClearOne(l) : l \in Range(L)}] :
        /\ \A l \in DOMAIN x : x[l] \in ClearOne(l)
        /\ \E n \in 0..Len(L) : /\ \A i \in 1..n : x[L[i]].ret = 0
                                /\ n < Len(L) => x[L[n + 1]].ret = 1
                                /\ ClearedTo(n, x)
        /\ UNCHANGED <<out, writers, disk>>
  BY DEF NotifyDiskWriteable, log_clear_unflushed
<1>2. PICK n \in 0..Len(L) : /\ n < Len(L) => x[L[n + 1]].ret = 1
                             /\ ClearedTo(n, x)
  BY <1>1
<1> DEFINE seen == {L[i] : i \in {j \in 1..(n + 1) : j <= Len(L)}}
<1>3. /\ log' = [l \in Logs |-> IF l \in seen THEN x[l].x.log ELSE log[l]]
      /\ file' = [l \in Logs |-> IF l \in seen THEN x[l].x.file ELSE file[l]]
      /\ pty' = [l \in Logs |-> IF l \in seen /\ x[l].ret = 0 THEN << >> ELSE pty[l]]
      /\ faults' = UNION ({faults} \cup {x[l].x.faults : l \in seen})
      /\ fault' = (fault \/ \E l \in seen : log[l].unflushed # << >> /\ BadEntry(X(l)))
      /\ L' = SubSeq(L, n + 1, Len(L))
      /\ log_flushed' = (log_flushed \/ n = Len(L))
      /\ UNCHANGED <<out, writers, disk>>
  BY <1>1, <1>2 DEF ClearedTo
<1>4. /\ L \in Seq(Logs) /\ Len(L) \in Nat /\ n \in Nat /\ n <= Len(L)
      /\ \A i \in 1..Len(L) : L[i] \in Logs /\ L[i] \in Range(L) /\ log[L[i]].place = "list"
      /\ \A i, j \in 1..Len(L) : L[i] = L[j] => i = j
  <2>1. L \in Seq(Logs) /\ ListInv
    BY DEF LogInv, TypeOK
  <2>2. Len(L) \in Nat /\ DOMAIN L = 1..Len(L) /\ \A i \in 1..Len(L) : L[i] \in Logs
    BY <2>1, LenProperties, ElementOfSeq
  <2> QED BY <1>2, <2>1, <2>2 DEF ListInv, Range
<1>5. \A l \in seen : l \in Logs /\ l \in Range(L) /\ log[l].place = "list"
  BY <1>4
<1>6. \A m \in (n + 1)..Len(L) : L[m] \in seen <=> m = n + 1
  BY <1>4
<1> HIDE DEF seen, L
<1>7. ASSUME NEW l \in seen
      PROVE  /\ x[l].ret \in {0, 1} /\ x[l].x \in XRec /\ faults \subseteq x[l].x.faults
             /\ x[l].ret = 0 => x[l].x.log = Gone /\ Good(x[l].x.file, out[l])
             /\ x[l].ret = 1 => /\ Follows(X(l), x[l].x) /\ Sane(x[l].x)
                                /\ Good(Cat(x[l].x) \o pty[l], out[l])
                                /\ x[l].x.log.place = "list"
                                /\ x[l].x.log.open_errno # "0"
                                /\ ~x[l].x.log.io => x[l].x.log.remote_closed
  <2>1. l \in Logs /\ x[l] \in ClearOne(l) /\ log[l].place = "list"
    BY <1>1, <1>5
  <2>2. /\ X(l) \in XRec /\ Sane(X(l)) /\ X(l).log = log[l]
        /\ pty[l] \in Seq(Chunks) /\ out[l] \in Nat /\ disk \in Disks
        /\ Good(Cat(X(l)) \o pty[l], out[l])
    BY <2>1, XLemma
  <2>3. /\ log[l].open_errno # "0" /\ (~log[l].io => log[l].remote_closed)
    BY <2>1 DEF LogInv, EntryInv
  <2>4. /\ x[l].ret \in {0, 1} /\ x[l].x \in XRec /\ faults \subseteq x[l].x.faults
        /\ x[l].ret = 0 => /\ x[l].x.log = Gone
                           /\ \A m \in Nat : Good(Cat(X(l)) \o pty[l], m) => Good(x[l].x.file, m)
        /\ x[l].ret = 1 => /\ Follows(X(l), x[l].x) /\ Sane(x[l].x)
                           /\ log[l].open_errno # "0" => x[l].x.log.open_errno # "0"
    BY <2>1, <2>2, ClearOneLemma
  <2>5. x[l].ret = 1 => Good(Cat(x[l].x) \o pty[l], out[l])
    BY <2>2, <2>4 DEF Follows
  <2>6. x[l].ret = 1 => SamePlace(X(l), x[l].x)
    BY <2>4 DEF Follows
  <2> QED BY <2>1, <2>2, <2>3, <2>4, <2>5, <2>6 DEF SamePlace
<1>8. ASSUME NEW l \in Logs, l \notin seen
      PROVE  log'[l] = log[l] /\ file'[l] = file[l] /\ pty'[l] = pty[l] /\ Held(l)' = Held(l)
  BY <1>3, <1>8 DEF Held
<1>9. ASSUME NEW l \in seen, x[l].ret = 0
      PROVE  log'[l] = Gone /\ Held(l)' = x[l].x.file /\ file'[l] \in Seq(Chunks) /\ pty'[l] = << >>
  <2>1. log'[l] = Gone /\ file'[l] = x[l].x.file /\ pty'[l] = << >>
    BY <1>3, <1>5, <1>7, <1>9
  <2>2. x[l].x.file \in Seq(Chunks)
    BY <1>7, XFields
  <2> QED BY <2>1, <2>2, GoneLemma, ConcatEmptySeq DEF Held
<1>10. ASSUME NEW l \in seen, x[l].ret = 1
       PROVE  log'[l] = x[l].x.log /\ Held(l)' = Cat(x[l].x) \o pty[l]
              /\ file'[l] \in Seq(Chunks) /\ pty'[l] = pty[l] /\ log'[l] \in LogRec
  <2>1. log'[l] = x[l].x.log /\ file'[l] = x[l].x.file /\ pty'[l] = pty[l]
    BY <1>3, <1>5, <1>10
  <2>2. x[l].x.file \in Seq(Chunks) /\ x[l].x.log \in LogRec
    BY <1>7, XFields
  <2> QED BY <2>1, <2>2 DEF Held, Cat
<1>11. faults' \in SUBSET Notes /\ faults \subseteq faults'
  <2>1. faults \in SUBSET Notes
    BY DEF LogInv, TypeOK, Notes
  <2>2. \A l \in seen : x[l].x.faults \in SUBSET Notes
    BY <1>7, XFields
  <2> QED BY <1>3, <2>1, <2>2
<1>12. TypeOK' /\ out' \in [Logs -> Nat]
  <2>1. /\ log \in [Logs -> LogRec] /\ file \in [Logs -> Seq(Chunks)]
        /\ pty \in [Logs -> Seq(Chunks)] /\ << >> \in Seq(Chunks)
    BY EmptySeq DEF LogInv, TypeOK, LogRec
  <2>2. \A l \in Logs : log'[l] \in LogRec /\ file'[l] \in Seq(Chunks) /\ pty'[l] \in Seq(Chunks)
    BY <1>7, <1>8, <1>9, <1>10, <2>1, GoneLemma
  <2>3. /\ log' \in [Logs -> LogRec] /\ file' \in [Logs -> Seq(Chunks)]
        /\ pty' \in [Logs -> Seq(Chunks)]
    BY <1>3, <2>2
  <2>4. L' \in Seq(Logs)
    <3>1. \A i \in (n + 1)..Len(L) : L[i] \in Logs
      BY <1>4
    <3> QED BY <1>3, <1>4, <3>1, SubSeqProperties
  <2>5. log_flushed' \in BOOLEAN /\ fault' \in BOOLEAN
    BY <1>3
  <2> QED BY <1>3, <1>11, <2>3, <2>4, <2>5 DEF LogInv, TypeOK, LogRec, Notes, L
<1>13. OrderInv'
  <2> SUFFICES ASSUME NEW l \in Logs PROVE Good(Held(l)', out[l])
    BY <1>3 DEF OrderInv
  <2>1. CASE l \in seen
    BY <1>7, <1>9, <1>10, <2>1
  <2>2. CASE l \notin seen
    BY <1>8, <2>2 DEF LogInv, OrderInv
  <2> QED BY <2>1, <2>2
<1>14. Complete'
  <2> SUFFICES ASSUME NEW l \in Logs, log'[l].place = "job", log'[l].io,
                      {"full", "reexec"} \cap faults' = {}
               PROVE  Held(l)' = AllOf(l)
    BY <1>3 DEF Complete, AllOf
  <2>1. l \notin seen
    BY <1>7, <1>9, <1>10, GoneLemma
  <2>2. {"full", "reexec"} \cap faults = {}
    BY <1>11
  <2> QED BY <1>8, <2>1, <2>2 DEF LogInv, Complete
<1>15. BufferedIsClosed'
  <2> SUFFICES ASSUME NEW l \in Logs, log'[l].unflushed # << >> PROVE log'[l].fd = "closed"
    BY DEF BufferedIsClosed
  <2>1. CASE l \in seen
    BY <1>7, <1>9, <1>10, <2>1, GoneLemma DEF Sane
  <2>2. CASE l \notin seen
    BY <1>8, <2>2 DEF LogInv, BufferedIsClosed
  <2> QED BY <2>1, <2>2
<1>16. EntryInv'
  <2> SUFFICES ASSUME NEW l \in Logs
               PROVE  /\ log'[l].place # "freed" /\ ~log'[l].io => log'[l].remote_closed
                      /\ log'[l].place = "list" => log'[l].open_errno # "0"
    BY DEF EntryInv
  <2>1. CASE l \in seen
    BY <1>7, <1>9, <1>10, <2>1, GoneLemma
  <2>2. CASE l \notin seen
    BY <1>8, <2>2 DEF LogInv, EntryInv
  <2> QED BY <2>1, <2>2
<1>17. Faultless'
  <2>1. ASSUME NEW l \in seen PROVE ~BadEntry(X(l))
    <3>1. l \in Logs /\ log[l].place = "list" /\ X(l).log = log[l]
      BY <1>5, XLemma
    <3> QED BY <3>1 DEF LogInv, EntryInv, BadEntry
  <2> QED BY <1>3, <2>1 DEF LogInv, Faultless
<1>18. ListInv'
  <2> DEFINE M == Len(L) - n
  <2>1. M \in Nat /\ Len(L') = M /\ \A i \in 1..M : L'[i] = L[n + i] /\ n + i \in (n + 1)..Len(L)
    <3>1. \A i \in (n + 1)..Len(L) : L[i] \in Logs
      BY <1>4
    <3>2. /\ Len(SubSeq(L, n + 1, Len(L))) = IF n + 1 <= Len(L) THEN Len(L) - (n + 1) + 1 ELSE 0
          /\ \A i \in 1..(Len(L) - (n + 1) + 1) : SubSeq(L, n + 1, Len(L))[i] = L[(n + 1) + i - 1]
      BY <1>4, <3>1, SubSeqProperties
    <3>3. Len(L) - (n + 1) + 1 = M /\ M \in Nat /\ \A i \in 1..M : (n + 1) + i - 1 = n + i
      BY <1>4
    <3>4. L' = SubSeq(L, n + 1, Len(L))
      BY <1>3
    <3> HIDE DEF M
    <3>5. Len(L') = M
      BY <1>4, <3>2, <3>3, <3>4
    <3>6. ASSUME NEW i \in 1..M PROVE L'[i] = L[n + i] /\ n + i \in (n + 1)..Len(L)
      <4>1. (n + 1) + i - 1 = n + i /\ i \in 1..(Len(L) - (n + 1) + 1)
        BY <3>3
      <4>2. SubSeq(L, n + 1, Len(L))[i] = L[(n + 1) + i - 1]
        BY <3>2, <4>1
      <4>3. n + i \in (n + 1)..Len(L)
        BY <1>4 DEF M
      <4> QED BY <3>4, <4>1, <4>2, <4>3
    <3> QED BY <3>3, <3>5, <3>6
  <2> HIDE DEF M
  <2>2. ASSUME NEW i \in 1..M PROVE log'[L'[i]].place = "list"
    <3>1. L'[i] = L[n + i] /\ n + i \in 1..Len(L) /\ n + i \in (n + 1)..Len(L)
      BY <1>4, <2>1
    <3>2. CASE L[n + i] \in seen
      <4>1. n + i = n + 1
        BY <1>6, <3>1, <3>2
      <4>2. x[L[n + i]].ret = 1
        BY <1>2, <1>4, <3>1, <4>1 DEF L
      <4>3. x[L[n + i]].x.log.place = "list" /\ log'[L[n + i]] = x[L[n + i]].x.log
        BY <1>7, <1>10, <3>2, <4>2
      <4> QED BY <3>1, <4>3
    <3>3. CASE L[n + i] \notin seen
      BY <1>4, <1>8, <3>1, <3>3
    <3> QED BY <3>2, <3>3
  <2>3. ASSUME NEW i \in 1..M, NEW j \in 1..M, L'[i] = L'[j] PROVE i = j
    <3>1. n + i \in 1..Len(L) /\ n + j \in 1..Len(L) /\ L[n + i] = L[n + j]
      BY <1>4, <2>1, <2>3
    <3> QED BY <1>4, <3>1
  <2> QED BY <2>1, <2>2, <2>3 DEF ListInv, L
<1> QED BY <1>12, <1>13, <1>14, <1>15, <1>16, <1>17, <1>18 DEF LogInv

\* log_serialise: one more attempt to write; a log that no longer reads is not
\* carried over.
LEMMA SerialiseLemma ==
  ASSUME disk \in Disks, NEW x \in XRec, Sane(x), NEW y \in log_serialise(x)
  PROVE  /\ y \in XRec /\ Sane(y)
         /\ \A p \in Seq(Chunks), n \in Nat : Good(Cat(x) \o p, n) => Good(Cat(y) \o p, n)
         /\ y.log.place \in {x.log.place, "freed"}
         /\ y.log.place # "freed" => y.log.io
<1> DEFINE Written(a) == IF a.log.fd # "closed" THEN log_file_write(a, << >>) ELSE {a}
           tried == IF x.log.unflushed = << >> THEN {x}
                    ELSE IF x.log.fd = "closed" THEN UNION {Written(a) : a \in log_file_open(x, "0")}
                    ELSE Written(x)
<1>1. PICK z \in tried : y = IF z.log.io THEN z ELSE [z EXCEPT !.log.place = "freed"]
  BY DEF log_serialise
<1>2. Follows(x, z) /\ Sane(z)
  <2>1. CASE x.log.unflushed = << >>
    <3>1. z = x
      BY <1>1, <2>1
    <3> QED BY <3>1, FollowsSame DEF SamePlace
  <2>2. CASE x.log.unflushed # << >>
    <3>1. x.log.fd = "closed"
      BY <2>2 DEF Sane
    <3>2. PICK a \in log_file_open(x, "0") : z \in Written(a)
      BY <1>1, <2>2, <3>1
    <3>3. Follows(x, a) /\ a.log.fd \in {"open", "closed"}
      <4>1. "0" \in Errnos
        BY DEF Errnos
      <4> QED BY <3>2, <4>1, OpenLemma
    <3>4. a \in XRec
      BY <3>3 DEF Follows
    <3>5. CASE a.log.fd = "open"
      <4>1. Opened(a) /\ z \in log_file_write(a, << >>)
        BY <3>2, <3>5 DEF Opened
      <4> QED BY <3>3, <3>4, <4>1, WriteLemma, FollowsTrans
    <3>6. CASE a.log.fd = "closed"
      <4>1. z = a
        BY <3>2, <3>6
      <4> QED BY <3>3, <3>6, <4>1 DEF Sane
    <3> QED BY <3>3, <3>5, <3>6
  <2> QED BY <2>1, <2>2
<1> HIDE DEF tried
<1>3. z \in XRec /\ z.log.place = x.log.place
  BY <1>2 DEF Follows, SamePlace
<1>4. CASE z.log.io
  <2>1. y = z
    BY <1>1, <1>4
  <2> QED BY <1>2, <1>3, <1>4, <2>1 DEF Follows
<1>5. CASE ~z.log.io
  <2>1. y = [z EXCEPT !.log.place = "freed"]
    BY <1>1, <1>5
  <2>2. /\ y \in XRec /\ y.file = z.file /\ y.log.place = "freed"
        /\ y.log.unflushed = z.log.unflushed /\ y.log.recv = z.log.recv /\ y.log.fd = z.log.fd
    BY <1>3, <2>1 DEF XRec, LogRec
  <2>3. Cat(y) = Cat(z) /\ Sane(y)
    BY <1>2, <2>2 DEF Cat, Sane
  <2> QED BY <1>2, <2>2, <2>3 DEF Follows
<1> QED BY <1>4, <1>5

LEMMA ReexecKeeps ==
  ASSUME LogInv, Reexec
  PROVE  LogInv'
<1>1. PICK x \in [Logs -> UNION {log_serialise(X(l)) : l \in Logs}] :
       /\ \A l \in Logs : x[l] \in IF log[l].place = "job" THEN log_serialise(X(l)) ELSE {X(l)}
       /\ log' = [l \in Logs |-> IF log[l].place = "job" THEN log_deserialise(x[l]).log ELSE Gone]
       /\ file' = [l \in Logs |-> x[l].file]
       /\ faults' = UNION ({{"reexec"}} \cup {x[l].faults : l \in Logs})
  BY DEF Reexec, Gone
<1>2. /\ log_unflushed_files' = << >>
      /\ log_flushed' = FALSE
      /\ UNCHANGED <<pty, out, writers, disk, fault>>
  BY DEF Reexec
<1>3. ASSUME NEW l \in Logs
      PROVE  /\ x[l] \in XRec
             /\ file'[l] \in Seq(Chunks) /\ log'[l] \in LogRec
             /\ log'[l].place \in {"job", "freed"}
             /\ log'[l].place = "job" => log'[l].io
             /\ log'[l].unflushed # << >> => log'[l].fd = "closed"
             /\ Good(Held(l)', out[l])
  <2>1. /\ X(l) \in XRec /\ Sane(X(l)) /\ X(l).log = log[l]
        /\ pty[l] \in Seq(Chunks) /\ out[l] \in Nat /\ disk \in Disks
        /\ Good(Cat(X(l)) \o pty[l], out[l])
    BY XLemma
  <2> DEFINE z == x[l]
             Left == /\ log'[l] \in LogRec /\ log'[l].recv = << >>
                     /\ log'[l].unflushed \in {<< >>, z.log.unflushed}
                     /\ log'[l].place \in {"job", "freed"}
                     /\ log'[l].place = "job" => log'[l].io
                     /\ log'[l].unflushed # << >> => log'[l].fd = "closed"
  <2>2. /\ z \in XRec /\ Sane(z) /\ Good(Cat(z) \o pty[l], out[l])
        /\ log[l].place = "job" => /\ z.log.place \in {"job", "freed"}
                                   /\ z.log.place # "freed" => z.log.io
    <3>1. CASE log[l].place = "job"
      <4>1. z \in log_serialise(X(l))
        BY <1>1, <3>1
      <4> HIDE DEF z
      <4> QED BY <2>1, <3>1, <4>1, SerialiseLemma
    <3>2. CASE log[l].place # "job"
      <4>1. z = X(l)
        BY <1>1, <3>2
      <4> QED BY <2>1, <3>2, <4>1
    <3> QED BY <3>1, <3>2
  <2>3. file'[l] = z.file
    BY <1>1
  <2>4. Left
    <3>1. CASE log[l].place # "job"
      <4>1. log'[l] = Gone
        BY <1>1, <3>1
      <4> QED BY <4>1, GoneLemma
    <3>2. CASE log[l].place = "job" /\ z.log.place = "freed"
      <4>1. log'[l] = [z EXCEPT !.log = Gone].log
        BY <1>1, <3>2 DEF log_deserialise, Gone
      <4>2. log'[l] = Gone
        BY <2>2, <4>1 DEF XRec
      <4> QED BY <4>2, GoneLemma
    <3>3. CASE log[l].place = "job" /\ z.log.place # "freed"
      <4> DEFINE d == [z EXCEPT !.log.recv = << >>]
      <4>1. log'[l] = d.log
        BY <1>1, <3>3 DEF log_deserialise
      <4>2. << >> \in Seq(Chunks)
        BY EmptySeq
      <4> HIDE DEF z
      <4>3. /\ d \in XRec /\ d.log.recv = << >> /\ d.log.unflushed = z.log.unflushed
            /\ d.log.place = z.log.place /\ d.log.io = z.log.io /\ d.log.fd = z.log.fd
        BY <2>2, <4>2 DEF XRec, LogRec
      <4> HIDE DEF d
      <4>4. d.log \in LogRec
        BY <4>3, XFields
      <4> QED BY <2>2, <3>3, <4>1, <4>3, <4>4 DEF Sane
    <3> QED BY <3>1, <3>2, <3>3
  <2> HIDE DEF z
  <2>5. Good(Held(l)', out[l])
    <3> DEFINE f == z.file
               u == z.log.unflushed
               r == z.log.recv
               p == pty[l]
    <3>1. /\ f \in Seq(Chunks) /\ u \in Seq(Chunks) /\ r \in Seq(Chunks) /\ p \in Seq(Chunks)
          /\ f \o u \in Seq(Chunks) /\ Good(((f \o u) \o r) \o p, out[l])
      BY <2>1, <2>2, XFields DEF Cat
    <3>2. Held(l)' = ((f \o log'[l].unflushed) \o << >>) \o p
      BY <1>2, <2>3, <2>4 DEF Held
    <3> HIDE DEF f, u, r, p
    <3>3. Good((f \o u) \o p, out[l])
      BY <2>1, <3>1, GoodDrop
    <3>4. Good(f \o p, out[l])
      BY <2>1, <3>1, <3>3, GoodDrop
    <3>5. (f \o u) \o << >> = f \o u /\ f \o << >> = f
      BY <3>1, ConcatEmptySeq
    <3>6. log'[l].unflushed \in {<< >>, u}
      BY <2>4 DEF u
    <3>7. CASE log'[l].unflushed = << >>
      BY <3>2, <3>4, <3>5, <3>7
    <3>8. CASE log'[l].unflushed = u
      BY <3>2, <3>3, <3>5, <3>8
    <3> QED BY <3>6, <3>7, <3>8
  <2>6. z.file \in Seq(Chunks)
    BY <2>2, XFields
  <2> QED BY <2>2, <2>3, <2>4, <2>5, <2>6 DEF z
<1>4. faults' \in SUBSET Notes /\ "reexec" \in faults'
  <2>1. \A l \in Logs : x[l].faults \in SUBSET Notes
    BY <1>3, XFields
  <2> QED BY <1>1, <2>1 DEF Notes
<1>5. TypeOK' /\ out' \in [Logs -> Nat]
  <2>1. log' \in [Logs -> LogRec] /\ file' \in [Logs -> Seq(Chunks)]
    BY <1>1, <1>3
  <2>2. << >> \in Seq(Logs)
    BY EmptySeq
  <2>3. log_flushed' \in BOOLEAN
    BY <1>2, Zenon
  <2>4. log_unflushed_files' \in Seq(Logs)
    BY <1>2, <2>2
  <2> QED BY <1>2, <1>4, <2>1, <2>3, <2>4 DEF LogInv, TypeOK, LogRec, Notes
<1>6. OrderInv'
  BY <1>2, <1>3 DEF OrderInv
<1>7. Complete'
  BY <1>4 DEF Complete
<1>8. BufferedIsClosed' /\ EntryInv'
  BY <1>3 DEF BufferedIsClosed, EntryInv
<1>9. Faultless' /\ ListInv'
  BY <1>2, EmptySeq DEF LogInv, Faultless, ListInv
<1> QED BY <1>5, <1>6, <1>7, <1>8, <1>9 DEF LogInv

----------------------------------------------------------------------------
(* The theorems *)

LEMMA NextKeeps ==
  ASSUME LogInv, [Next]_vars
  PROVE  LogInv'
<1>1. /\ writers \in [Logs -> SUBSET {"main", "child"}] /\ disk \in Disks /\ faults \in SUBSET Notes
  BY DEF LogInv, TypeOK, Notes
<1>2. CASE \E l \in Logs : Exit(l) \/ ChildExits(l)
  <2>1. /\ UNCHANGED <<log, file, pty, out, disk, log_unflushed_files, log_flushed, fault>>
        /\ writers' \in [Logs -> SUBSET {"main", "child"}]
        /\ faults' \in SUBSET Notes /\ faults \subseteq faults'
    BY <1>1, <1>2 DEF Exit, ChildExits, Notes
  <2> QED BY <1>1, <2>1, OthersKeep
<1>3. CASE DiskChanges
  BY <1>1, <1>3, OthersKeep DEF DiskChanges
<1>4. CASE UNCHANGED vars
  BY <1>1, <1>4, OthersKeep DEF vars
<1>5. CASE \E l \in Logs : Output(l) \/ ReadTerminal(l) \/ Terminated(l) \/ Rotate(l)
  BY <1>5, OutputKeeps, ReadTerminalKeeps, TerminatedKeeps, RotateKeeps
<1> QED BY <1>2, <1>3, <1>4, <1>5, ClearKeeps, ReexecKeeps DEF Next

\* The invariant holds whatever the processes write and the disk does.
THEOREM LogInductive == Spec => []LogInv
<1>1. Init => LogInv
  BY InitHolds
<1>2. LogInv /\ [Next]_vars => LogInv'
  BY NextKeeps
<1> QED BY <1>1, <1>2, PTL DEF Spec

\* What reaches a log file is in order, and of a job whose terminal is open
\* nothing is missing, unless the disk was full or the daemon re-executed; a
\* log with data in its buffer has no open file, and no assertion of
\* log_clear_unflushed fails (log_file_write, log_io_reader).
THEOREM LogsAreSound == Spec => []LogsSound
<1>1. LogInv => LogsSound
  <2> SUFFICES ASSUME LogInv PROVE LogsSound
    OBVIOUS
  <2>1. InOrder
    BY DEF LogInv, OrderInv, Good, InOrder
  <2> QED BY <2>1 DEF LogInv, LogsSound
<1> QED BY <1>1, LogInductive, PTL

----------------------------------------------------------------------------
(* The functions of log.c, as long as nothing is noted *)

\* A log whose file was opened or whose data was kept has an errno.
Attempted(x) == x.log.fd # "closed" \/ x.log.unflushed # << >> => x.log.open_errno # "0"

\* Concatenating nothing.
LEMMA NothingMore ==
  ASSUME NEW s \in Seq(Chunks)
  PROVE  << >> \in Seq(Chunks) /\ s \o << >> = s
BY EmptySeq, ConcatEmptySeq

\* What open(2) does to the descriptor and the errno.
LEMMA OpenClean ==
  ASSUME disk \in Disks, NEW x \in XRec, NEW e \in Errnos, NEW y \in log_file_open(x, e)
  PROVE  /\ Opened(x) => y = x
         /\ disk = "ok" => Opened(y)
         /\ disk = "ro" /\ ~Opened(x) => ~Opened(y) /\ y.log.open_errno = "EROFS"
         /\ ~Opened(x) /\ (e # "0" \/ x.log.fd # "unlinked") => y.log.open_errno # "0"
<1>1. CASE Opened(x)
  BY <1>1 DEF log_file_open
<1>2. CASE ~Opened(x)
  <2>1. PICK r \in OpenResults :
          y = [x EXCEPT !.log.fd = IF r = "success" THEN "open" ELSE "closed",
                        !.log.open_errno = IF r # "success" THEN r
                                           ELSE IF x.log.fd = "unlinked" THEN e ELSE "stale"]
    BY <1>2 DEF log_file_open
  <2>2. /\ r \in {"success", "EROFS", "ENOSPC"}
        /\ disk = "ok" => r = "success"
        /\ disk = "ro" => r = "EROFS"
    BY LogAssumption DEF OpenResults
  <2>3. /\ y.log.fd = IF r = "success" THEN "open" ELSE "closed"
        /\ y.log.open_errno = IF r # "success" THEN r
                              ELSE IF x.log.fd = "unlinked" THEN e ELSE "stale"
    BY <2>1 DEF XRec, LogRec
  <2> QED BY <1>2, <2>2, <2>3 DEF Opened
<1> QED BY <1>1, <1>2

\* A write that is not cut short takes all, or fails, and not on a good disk.
LEMMA WriteResultsClean ==
  ASSUME disk \in Disks, NEW n \in Nat \ {0}, NEW w \in WriteResults(n)
  PROVE  /\ w.err = "0" => w.n = n \/ Partly(w.n, n) = {"other"}
         /\ w.err # "0" => disk # "ok"
<1> DEFINE Short == IF "partial" \in Faults THEN 1..(n - 1) ELSE {}
<1>1. \A k \in Short : k < n
  OBVIOUS
<1>2. disk \in {"ok", "ro", "full"}
  BY LogAssumption
<1> HIDE DEF Short
<1>3. CASE disk = "ok"
  <2>1. w \in [n : {n} \cup Short, err : {"0"}]
    BY <1>3 DEF WriteResults, Short
  <2> QED BY <2>1, <1>1 DEF Partly
<1>4. CASE disk = "ro"
  <2>1. w \in [n : {0}, err : {"EROFS"}]
    BY <1>4 DEF WriteResults
  <2> QED BY <2>1, <1>4
<1>5. CASE disk = "full"
  <2>1. w \in [n : {0}, err : {"ENOSPC"}] \cup [n : Short, err : {"0"}]
    BY <1>5 DEF WriteResults, Short
  <2> QED BY <2>1, <1>1, <1>5 DEF Partly
<1> QED BY <1>2, <1>3, <1>4, <1>5

\* The rest of a sequence that was taken whole.
LEMMA NothingLeft ==
  ASSUME NEW s \in Seq(Chunks)
  PROVE  SubSeq(s, Len(s) + 1, Len(s)) = << >>
BY LenProperties, EmptySeq

\* The first write empties the buffer, or fails and changes nothing.
LEMMA WriteUnflushedClean ==
  ASSUME disk \in Disks, NEW x \in XRec, Opened(x), NEW w \in WriteUnflushed(x), w.x.faults = {}
  PROVE  /\ w.err = "0" => w.x.log.unflushed = << >>
         /\ w.err # "0" => w.x = x /\ disk # "ok"
<1> DEFINE u == x.log.unflushed
<1>1. u \in Seq(Chunks) /\ x.faults \in SUBSET Notes
  BY XFields
<1>2. CASE u = << >>
  <2>1. w = [x |-> x, err |-> "0"]
    BY <1>2 DEF WriteUnflushed
  <2> QED BY <1>2, <2>1
<1>3. CASE u # << >>
  <2>1. Len(u) \in Nat \ {0}
    BY <1>1, <1>3, EmptySeq
  <2>2. PICK v \in WriteResults(Len(u)) :
          w = IF v.err = "0"
              THEN [x |-> [x EXCEPT !.file = Appended(x, SubSeq(u, 1, v.n)),
                                    !.log.unflushed = SubSeq(@, v.n + 1, Len(@)),
                                    !.faults = @ \cup Partly(v.n, Len(u))],
                    err |-> "0"]
              ELSE [x |-> x, err |-> v.err]
    BY <1>3 DEF WriteUnflushed
  <2>3. /\ v.err = "0" => v.n = Len(u) \/ Partly(v.n, Len(u)) = {"other"}
        /\ v.err # "0" => disk # "ok"
    BY <2>1, <2>2, WriteResultsClean
  <2>4. CASE v.err # "0"
    <3>1. w = [x |-> x, err |-> v.err]
      BY <2>2, <2>4
    <3> QED BY <2>3, <2>4, <3>1
  <2>5. CASE v.err = "0"
    <3> DEFINE b == SubSeq(u, v.n + 1, Len(u))
               f == x.faults \cup Partly(v.n, Len(u))
               y == [x EXCEPT !.file = Appended(x, SubSeq(u, 1, v.n)), !.log.unflushed = b, !.faults = f]
    <3>1. w = [x |-> y, err |-> "0"]
      BY <2>2, <2>5
    <3>2. y.log.unflushed = b /\ y.faults = f
      BY DEF XRec, LogRec
    <3>3. v.n = Len(u)
      <4>1. f = {}
        BY <3>1, <3>2
      <4> QED BY <2>3, <2>5, <4>1
    <3>4. b = << >>
      BY <1>1, <3>3, NothingLeft
    <3> QED BY <3>1, <3>2, <3>4
  <2> QED BY <2>4, <2>5
<1> QED BY <1>2, <1>3

\* Keeping data back empties the reader's buffer and leaves the file alone.
LEMMA KeepClean ==
  ASSUME NEW x \in XRec, NEW buf \in {<< >>, x.log.recv}, NEW err,
         NEW y, y = Closed(Consumed(Keep(x, buf, err), buf))
  PROVE  /\ ~Opened(y)
         /\ y.log.recv = IF buf = << >> THEN x.log.recv ELSE << >>
         /\ buf = << >> => y.log.unflushed = x.log.unflushed
<1> DEFINE k == Keep(x, buf, err)
           c == Consumed(k, buf)
           r == IF buf = << >> THEN x.log.recv ELSE << >>
<1>1. /\ x.log.unflushed \in Seq(Chunks) /\ x.log.recv \in Seq(Chunks) /\ buf \in Seq(Chunks)
      /\ x.faults \in SUBSET Notes /\ << >> \in Seq(Chunks)
  BY XFields, EmptySeq
<1>2. k \in XRec /\ k.log.recv = x.log.recv /\ (buf = << >> => k.log.unflushed = x.log.unflushed)
  <2>1. CASE err = "ENOSPC"
    <3> DEFINE f == IF buf = << >> THEN x.faults ELSE x.faults \cup {"full"}
    <3>1. k = [x EXCEPT !.faults = f] /\ f \in SUBSET Notes
      BY <1>1, <2>1 DEF Keep, Notes
    <3> HIDE DEF f, k
    <3> QED BY <3>1 DEF XRec
  <2>2. CASE err # "ENOSPC"
    <3> DEFINE v == x.log.unflushed \o buf
    <3>1. k = [x EXCEPT !.log.unflushed = v] /\ v \in Seq(Chunks)
      BY <1>1, <2>2, ConcatProperties DEF Keep
    <3>2. buf = << >> => v = x.log.unflushed
      BY <1>1, NothingMore
    <3> HIDE DEF v, k
    <3> QED BY <3>1, <3>2 DEF XRec, LogRec
  <2> QED BY <2>1, <2>2
<1> HIDE DEF k
<1>3. c \in XRec /\ c.log.recv = r /\ c.log.unflushed = k.log.unflushed
  <2>1. c = [k EXCEPT !.log.recv = r]
    BY <1>2 DEF Consumed
  <2>2. r \in Seq(Chunks)
    BY <1>1
  <2> HIDE DEF c, r
  <2> QED BY <1>2, <2>1, <2>2 DEF XRec, LogRec
<1>4. y = Closed(c)
  BY DEF k
<1> HIDE DEF c
<1>5. ASSUME NEW z \in XRec
      PROVE  /\ Closed(z).log.fd = "closed" /\ Closed(z).log.recv = z.log.recv
             /\ Closed(z).log.unflushed = z.log.unflushed
  BY DEF Closed, XRec, LogRec
<1>6. y.log.fd = "closed" /\ y.log.recv = c.log.recv /\ y.log.unflushed = c.log.unflushed
  BY <1>3, <1>4, <1>5
<1> QED BY <1>2, <1>3, <1>6 DEF Opened

\* The second write empties the reader's buffer in any case.
LEMMA WriteNewClean ==
  ASSUME disk \in Disks, NEW x \in XRec, Opened(x), x.log.unflushed = << >>,
         NEW buf \in {<< >>, x.log.recv}, NEW y \in WriteNew(x, buf), y.faults = {}
  PROVE  /\ Opened(y) => y.log.unflushed = << >>
         /\ ~Opened(y) => disk # "ok" /\ buf # << >>
         /\ y.log.recv = IF buf = << >> THEN x.log.recv ELSE << >>
<1>1. CASE buf = << >>
  <2>1. y = x
    BY <1>1 DEF WriteNew
  <2> QED BY <1>1, <2>1
<1>2. CASE buf # << >>
  <2>1. x.log.recv \in Seq(Chunks) /\ x.faults \in SUBSET Notes
    BY XFields
  <2>2. buf = x.log.recv /\ Len(buf) \in Nat \ {0}
    BY <1>2, <2>1, EmptySeq
  <2>3. PICK v \in WriteResults(Len(buf)) :
          y = IF v.err = "0"
              THEN [x EXCEPT !.file = Appended(x, SubSeq(buf, 1, v.n)),
                             !.log.recv = SubSeq(@, v.n + 1, Len(@)),
                             !.faults = @ \cup Partly(v.n, Len(buf))]
              ELSE Closed(Consumed(Keep(x, buf, v.err), buf))
    BY <1>2 DEF WriteNew
  <2>4. /\ v.err = "0" => v.n = Len(buf) \/ Partly(v.n, Len(buf)) = {"other"}
        /\ v.err # "0" => disk # "ok"
    BY <2>2, <2>3, WriteResultsClean
  <2>5. CASE v.err # "0"
    <3>1. y = Closed(Consumed(Keep(x, buf, v.err), buf))
      BY <2>3, <2>5
    <3>2. ~Opened(y) /\ y.log.recv = IF buf = << >> THEN x.log.recv ELSE << >>
      BY <3>1, KeepClean
    <3> QED BY <1>2, <2>4, <2>5, <3>2
  <2>6. CASE v.err = "0"
    <3> DEFINE b == SubSeq(buf, v.n + 1, Len(buf))
               f == x.faults \cup Partly(v.n, Len(buf))
    <3>1. y = [x EXCEPT !.file = Appended(x, SubSeq(buf, 1, v.n)), !.log.recv = b, !.faults = f]
      BY <2>2, <2>3, <2>6
    <3>2. /\ y.log.recv = b /\ y.faults = f /\ y.log.fd = x.log.fd
          /\ y.log.unflushed = x.log.unflushed
      BY <3>1 DEF XRec, LogRec
    <3>3. v.n = Len(buf)
      <4>1. f = {}
        BY <3>2
      <4> QED BY <2>4, <2>6, <4>1
    <3>4. b = << >>
      BY <2>1, <2>2, <3>3, NothingLeft
    <3> QED BY <1>2, <3>2, <3>4 DEF Opened
  <2> QED BY <2>5, <2>6
<1> QED BY <1>1, <1>2

\* log_file_write leaves nothing behind but on a disk that fails; without new
\* data a failure changes nothing.
LEMMA WriteClean ==
  ASSUME disk \in Disks, NEW x \in XRec, Opened(x),
         NEW buf \in {<< >>, x.log.recv}, NEW y \in log_file_write(x, buf), y.faults = {}
  PROVE  /\ Opened(y) => y.log.unflushed = << >>
         /\ ~Opened(y) => disk # "ok"
         /\ ~Opened(y) /\ buf = << >> => y.log.unflushed = x.log.unflushed
         /\ y.log.recv = IF buf = << >> THEN x.log.recv ELSE << >>
<1>1. PICK w \in WriteUnflushed(x) :
        y \in IF w.err # "0" \/ w.x.log.unflushed # << >>
              THEN {Closed(Consumed(Keep(w.x, buf, w.err), buf))}
              ELSE WriteNew(w.x, buf)
  BY DEF log_file_write
<1>2. Follows(x, w.x) /\ Opened(w.x) /\ w.x.log.recv = x.log.recv
  BY WriteUnflushedLemma
<1>3. w.x \in XRec /\ buf \in {<< >>, w.x.log.recv}
  BY <1>2 DEF Follows
<1>4. w.x.faults = {}
  <2>1. w.x.faults \subseteq y.faults
    <3>1. CASE w.err # "0" \/ w.x.log.unflushed # << >>
      <4> DEFINE z == Consumed(Keep(w.x, buf, w.err), buf)
      <4>1. Follows(w.x, z) /\ y = Closed(z)
        BY <1>1, <1>3, <3>1, KeepLemma
      <4> HIDE DEF z
      <4>2. Follows(z, y)
        BY <4>1, ClosedLemma DEF Follows
      <4> QED BY <4>1, <4>2 DEF Follows
    <3>2. CASE ~(w.err # "0" \/ w.x.log.unflushed # << >>)
      <4>1. y \in WriteNew(w.x, buf) /\ w.x.log.unflushed = << >>
        BY <1>1, <3>2
      <4>2. Follows(w.x, y)
        BY <1>2, <1>3, <4>1, WriteNewLemma
      <4> QED BY <4>2 DEF Follows
    <3> QED BY <3>1, <3>2
  <2> QED BY <2>1
<1>5. /\ w.err = "0" => w.x.log.unflushed = << >>
      /\ w.err # "0" => w.x = x /\ disk # "ok"
  BY <1>1, <1>4, WriteUnflushedClean
<1>6. CASE w.err # "0"
  <2>1. y = Closed(Consumed(Keep(x, buf, w.err), buf))
    BY <1>1, <1>5, <1>6
  <2>2. /\ ~Opened(y)
        /\ y.log.recv = IF buf = << >> THEN x.log.recv ELSE << >>
        /\ buf = << >> => y.log.unflushed = x.log.unflushed
    BY <2>1, KeepClean
  <2> QED BY <1>5, <1>6, <2>2
<1>7. CASE w.err = "0"
  <2>1. y \in WriteNew(w.x, buf) /\ w.x.log.unflushed = << >>
    BY <1>1, <1>5, <1>7
  <2>2. /\ Opened(y) => y.log.unflushed = << >>
        /\ ~Opened(y) => disk # "ok" /\ buf # << >>
        /\ y.log.recv = IF buf = << >> THEN w.x.log.recv ELSE << >>
    BY <1>2, <1>3, <2>1, WriteNewClean
  <2> QED BY <1>2, <2>2
<1> QED BY <1>6, <1>7

\* The reader takes all that was received; on a read-only disk data that is
\* buffered afterwards has the errno of that disk.
LEMMA ReaderClean ==
  ASSUME disk \in Disks, NEW x \in XRec, NEW e \in Errnos, NEW y \in log_io_reader(x, e),
         x.log.recv # << >>, Attempted(x), y.faults = {}
  PROVE  /\ y.log.recv = << >>
         /\ e # "0" => y.log.open_errno # "0"
         /\ disk = "ro" /\ x.log.open_errno \in {"0", "EROFS"} => y.log.open_errno = "EROFS"
<1>1. PICK z \in log_file_open(x, e) :
        y \in IF Opened(z) THEN log_file_write(z, z.log.recv)
              ELSE {Consumed(Keep(z, z.log.recv, z.log.open_errno), z.log.recv)}
  BY DEF log_io_reader
<1>2. Follows(x, z) /\ z.log.recv = x.log.recv
  BY <1>1, OpenLemma
<1>3. z \in XRec
  BY <1>2 DEF Follows
<1>4. /\ Opened(x) => z = x
      /\ disk = "ro" /\ ~Opened(x) => z.log.open_errno = "EROFS"
      /\ ~Opened(x) /\ e # "0" => z.log.open_errno # "0"
  BY <1>1, OpenClean
<1>5. Opened(x) => x.log.open_errno # "0"
  BY DEF Attempted, Opened
<1>6. /\ e # "0" => z.log.open_errno # "0"
      /\ disk = "ro" /\ x.log.open_errno \in {"0", "EROFS"} => z.log.open_errno = "EROFS"
  BY <1>4, <1>5
<1>7. CASE Opened(z)
  <2>1. y \in log_file_write(z, z.log.recv)
    BY <1>1, <1>7
  <2>2. y.log.open_errno = z.log.open_errno
    BY <1>3, <1>7, <2>1, WriteLemma
  <2>3. y.log.recv = IF z.log.recv = << >> THEN z.log.recv ELSE << >>
    BY <1>3, <1>7, <2>1, WriteClean
  <2> QED BY <1>6, <2>2, <2>3
<1>8. CASE ~Opened(z)
  <2> DEFINE c == Consumed(Keep(z, z.log.recv, z.log.open_errno), z.log.recv)
  <2>1. y = c
    BY <1>1, <1>8
  <2>2. c \in XRec /\ c.log.open_errno = z.log.open_errno
    BY <1>3, KeepLemma DEF Follows
  <2>3. Closed(c).log.recv = IF z.log.recv = << >> THEN z.log.recv ELSE << >>
    BY <1>3, KeepClean
  <2> HIDE DEF c
  <2>4. Closed(c).log.recv = c.log.recv
    BY <2>2 DEF Closed, XRec, LogRec
  <2> QED BY <1>6, <2>1, <2>2, <2>3, <2>4
<1> QED BY <1>7, <1>8

LEMMA IfReceivedClean ==
  ASSUME disk \in Disks, NEW x \in XRec, Sane(x), NEW e \in Errnos, NEW y \in IfReceived(x, e),
         Attempted(x), y.faults = {}
  PROVE  /\ y.log.recv = << >>
         /\ e # "0" => Attempted(y)
         /\ disk = "ro" /\ x.log.open_errno \in {"0", "EROFS"} /\ y.log.unflushed # << >>
              => y.log.open_errno = "EROFS"
         /\ x.log.recv = << >> => y = x
<1>1. CASE x.log.recv = << >>
  <2>1. y = x
    BY <1>1 DEF IfReceived
  <2> QED BY <1>1, <2>1 DEF Attempted
<1>2. CASE x.log.recv # << >>
  <2>1. y \in log_io_reader(x, e)
    BY <1>2 DEF IfReceived
  <2> QED BY <1>2, <2>1, ReaderClean DEF Attempted
<1> QED BY <1>1, <1>2

\* log_read_watch reads all; from then on it is known whether the terminal is closed.
LEMMA ReadWatchClean ==
  ASSUME disk \in Disks, NEW x \in XRec, Sane(x), NEW data \in Seq(Chunks), NEW closed \in BOOLEAN,
         NEW y \in log_read_watch(x, data, closed), Attempted(x), y.faults = {},
         x.log.recv = << >>, ~x.log.io => x.log.remote_closed /\ data = << >>
  PROVE  /\ y.log.recv = << >> /\ (closed => y.log.remote_closed)
         /\ Cat(y) = Cat(x) \o data
         /\ disk = "ro" /\ x.log.open_errno \in {"0", "EROFS"} /\ y.log.unflushed # << >>
              => y.log.open_errno = "EROFS"
<1>1. Cat(x) \in Seq(Chunks)
  BY XFields
<1>2. CASE ~x.log.io
  <2>1. y = x
    BY <1>2 DEF log_read_watch
  <2> QED BY <1>1, <1>2, <2>1, NothingMore DEF Attempted
<1>3. CASE x.log.io
  <2> DEFINE a == [x EXCEPT !.log.recv = @ \o data]
  <2>1. /\ a \in XRec /\ a.faults = x.faults /\ Sane(a)
        /\ a.log.open_errno = x.log.open_errno
        /\ Cat(a) = Cat(x) \o data
    BY ReceivedLemma
  <2>2. Attempted(a)
    BY DEF Attempted, XRec, LogRec
  <2>0. a = Receiving(x, data)
    BY DEF Receiving
  <2> HIDE DEF a
  <2>3. PICK z \in IfReceived(a, "0") : \E q \in IfReceived(z, "stale") : y = HungUp(q, closed)
    BY <1>3, <2>0, ReadWatchIs
  <2>4. PICK q \in IfReceived(z, "stale") :
            y = Closed([q EXCEPT !.log.remote_closed = @ \/ closed])
    BY <2>3 DEF HungUp
  <2>5. "0" \in Errnos /\ "stale" \in Errnos
    BY DEF Errnos
  <2>6. Follows(a, z) /\ Sane(z)
    BY <2>1, <2>3, <2>5, IfReceivedLemma
  <2>7. z \in XRec
    BY <2>6 DEF Follows
  <2>8. Follows(z, q)
    BY <2>4, <2>5, <2>6, <2>7, IfReceivedLemma
  <2>9. q \in XRec /\ z.faults \subseteq q.faults
    BY <2>8 DEF Follows
  <2> DEFINE b == q.log.remote_closed \/ closed
             d == [q EXCEPT !.log.remote_closed = b]
  <2>10. b \in BOOLEAN /\ (closed => b) /\ y = Closed(d)
    BY <2>4
  <2> HIDE DEF b
  <2>11. /\ d \in XRec /\ d.file = q.file /\ d.faults = q.faults
         /\ d.log.unflushed = q.log.unflushed /\ d.log.recv = q.log.recv
         /\ d.log.open_errno = q.log.open_errno /\ d.log.remote_closed = b
    BY <2>9, <2>10 DEF XRec, LogRec
  <2> HIDE DEF d
  <2>12. /\ y.file = d.file /\ y.faults = d.faults
         /\ y.log.unflushed = d.log.unflushed /\ y.log.recv = d.log.recv
         /\ y.log.open_errno = d.log.open_errno /\ y.log.remote_closed = d.log.remote_closed
    BY <2>10, <2>11 DEF Closed, XRec, LogRec
  <2>13. z.faults = {}
    BY <2>9, <2>11, <2>12
  <2>14. /\ z.log.recv = << >>
         /\ disk = "ro" /\ x.log.open_errno \in {"0", "EROFS"} /\ z.log.unflushed # << >>
              => z.log.open_errno = "EROFS"
    BY <2>1, <2>2, <2>3, <2>5, <2>13, IfReceivedClean
  <2>15. q = z
    BY <2>4, <2>14 DEF IfReceived
  <2>16. Cat(y) = Cat(x) \o data
    <3>1. Cat(y) = Cat(z)
      BY <2>11, <2>12, <2>15 DEF Cat
    <3>2. Cat(z) = Cat(a)
      BY <2>6, <2>13 DEF Follows
    <3> QED BY <2>1, <3>1, <3>2
  <2> QED BY <2>10, <2>11, <2>12, <2>14, <2>15, <2>16
<1> QED BY <1>2, <1>3

\* The last attempt to write, of a log whose terminal has been read: what is
\* lost was buffered, and the disk failed.
LEMMA DestroyClean ==
  ASSUME disk \in Disks, NEW x \in XRec, Sane(x), NEW closed \in BOOLEAN,
         NEW y \in log_destroy(x, << >>, closed), y.faults = {},
         x.log.recv = << >>, x.log.remote_closed, x.log.unflushed = << >> \/ disk = "ok"
  PROVE  y.file = Cat(x)
<1> DEFINE rest(a) == IF a.log.io /\ ~a.log.remote_closed
                      THEN log_read_watch(a, << >>, closed) ELSE {a}
<1>1. PICK z \in log_flush(x, << >>, closed) : y = [z EXCEPT !.log = Gone]
  BY DEF log_destroy, Gone
<1>2. Within(x, << >>, z)
  BY <1>1, EmptySeq, FlushLemma
<1>3. z \in XRec
  BY <1>2 DEF Within
<1>4. y.file = z.file /\ y.faults = z.faults
  BY <1>1, <1>3 DEF XRec
<1>5. ASSUME NEW a \in XRec, a.log.recv = << >>, a.log.unflushed = << >> PROVE a.file = Cat(a)
  <2>1. a.file \in Seq(Chunks)
    BY XFields
  <2> QED BY <1>5, <2>1, NothingMore DEF Cat
<1>6. CASE x.log.unflushed = << >>
  <2>1. z \in rest(x)
    BY <1>1, <1>6 DEF log_flush
  <2>2. z = x
    BY <2>1
  <2> QED BY <1>4, <1>5, <1>6, <2>2
<1>7. CASE x.log.unflushed # << >>
  <2>1. PICK a \in log_file_open(x, "0") :
          z \in IF ~Opened(a) THEN {a}
                ELSE UNION {IF Opened(q) THEN rest(q) ELSE {q} : q \in log_file_write(a, << >>)}
    BY <1>1, <1>7 DEF log_flush
  <2> HIDE DEF rest
  <2>2. "0" \in Errnos /\ disk = "ok"
    BY <1>7 DEF Errnos
  <2>3. Follows(x, a) /\ a.log.recv = << >> /\ Opened(a)
    BY <2>1, <2>2, OpenLemma, OpenClean
  <2>4. a \in XRec /\ a.log.remote_closed
    BY <2>3 DEF Follows, SamePlace
  <2>5. PICK q \in log_file_write(a, << >>) : z \in IF Opened(q) THEN rest(q) ELSE {q}
    BY <2>1, <2>3
  <2>6. Follows(a, q)
    BY <2>3, <2>4, <2>5, WriteLemma
  <2>7. q \in XRec /\ q.log.remote_closed
    BY <2>4, <2>6 DEF Follows, SamePlace
  <2>8. z = q
    BY <2>5, <2>7 DEF rest
  <2>9. q.faults = {} /\ q.log.recv = << >> /\ q.log.unflushed = << >>
    <3>1. q.faults = {}
      BY <1>4, <2>8
    <3>2. /\ Opened(q) => q.log.unflushed = << >>
          /\ ~Opened(q) => disk # "ok"
          /\ q.log.recv = IF << >> = << >> THEN a.log.recv ELSE << >>
      BY <2>3, <2>4, <2>5, <3>1, WriteClean
    <3> QED BY <2>2, <2>3, <3>1, <3>2
  <2>10. Follows(x, q)
    BY <2>3, <2>6, FollowsTrans
  <2>11. Cat(q) = Cat(x)
    BY <2>9, <2>10 DEF Follows
  <2> QED BY <1>4, <1>5, <2>7, <2>8, <2>9, <2>11
<1> QED BY <1>6, <1>7

\* An entry of the list: freed with all its data in the file, or kept as it was.
LEMMA ClearOneClean ==
  ASSUME disk \in Disks, NEW l \in Logs, X(l) \in XRec, Sane(X(l)), NEW r \in ClearOne(l),
         r.x.faults = {}, pty[l] = << >>, log[l].recv = << >>, log[l].unflushed # << >>,
         log[l].remote_closed
  PROVE  /\ r.ret = 0 => r.x.file = Cat(X(l))
         /\ r.ret = 1 => /\ r.x.log.unflushed = log[l].unflushed
                         /\ r.x.log.recv = << >>
<1>1. X(l).log = log[l] /\ RemoteClosed(l) \in BOOLEAN
  BY DEF X, RemoteClosed
<1>2. PICK y \in log_file_open(X(l), "0") :
        r \in IF ~Opened(y) THEN {[ret |-> 1, x |-> y]}
              ELSE UNION {IF ~Opened(z) THEN {[ret |-> 1, x |-> z]}
                          ELSE {[ret |-> 0, x |-> d] : d \in log_destroy(z, pty[l], RemoteClosed(l))} :
                            z \in log_file_write(y, << >>)}
  BY DEF ClearOne
<1>3. /\ Follows(X(l), y) /\ y.log.recv = << >> /\ y.log.unflushed = log[l].unflushed
      /\ y.faults = X(l).faults
  <2>1. "0" \in Errnos
    BY DEF Errnos
  <2> QED BY <1>1, <1>2, <2>1, OpenLemma
<1>4. y \in XRec /\ y.log.remote_closed
  BY <1>1, <1>3 DEF Follows, SamePlace
<1>5. CASE ~Opened(y)
  <2>1. r = [ret |-> 1, x |-> y]
    BY <1>2, <1>5
  <2> QED BY <1>3, <2>1
<1>6. CASE Opened(y)
  <2>1. PICK z \in log_file_write(y, << >>) :
          r \in IF ~Opened(z) THEN {[ret |-> 1, x |-> z]}
                ELSE {[ret |-> 0, x |-> d] : d \in log_destroy(z, pty[l], RemoteClosed(l))}
    BY <1>2, <1>6
  <2>2. Follows(y, z) /\ Sane(z)
    BY <1>4, <1>6, <2>1, WriteLemma
  <2>3. z \in XRec /\ z.log.remote_closed
    BY <1>4, <2>2 DEF Follows, SamePlace
  <2>4. CASE ~Opened(z)
    <3>1. r = [ret |-> 1, x |-> z]
      BY <2>1, <2>4
    <3>2. /\ ~Opened(z) /\ << >> = << >> => z.log.unflushed = y.log.unflushed
          /\ z.log.recv = IF << >> = << >> THEN y.log.recv ELSE << >>
      BY <1>4, <1>6, <2>1, <3>1, WriteClean
    <3> QED BY <1>3, <2>4, <3>1, <3>2
  <2>5. CASE Opened(z)
    <3>1. PICK d \in log_destroy(z, << >>, RemoteClosed(l)) : r = [ret |-> 0, x |-> d]
      BY <2>1, <2>5
    <3>2. z.faults \subseteq d.faults
      BY <1>1, <2>2, <2>3, <3>1, EmptySeq, DestroyLemma
    <3>3. d.faults = {} /\ z.faults = {}
      BY <3>1, <3>2
    <3>4. /\ Opened(z) => z.log.unflushed = << >>
          /\ z.log.recv = IF << >> = << >> THEN y.log.recv ELSE << >>
      BY <1>4, <1>6, <2>1, <3>3, WriteClean
    <3>5. z.log.unflushed = << >> /\ z.log.recv = << >>
      BY <1>3, <2>5, <3>4
    <3>6. d.file = Cat(z)
      BY <1>1, <2>2, <2>3, <3>1, <3>3, <3>5, DestroyClean
    <3>7. Cat(z) = Cat(X(l))
      <4>1. Follows(X(l), z)
        BY <1>3, <2>2, FollowsTrans
      <4> QED BY <3>3, <4>1 DEF Follows
    <3> QED BY <3>1, <3>6, <3>7
  <2> QED BY <2>4, <2>5
<1> QED BY <1>5, <1>6

----------------------------------------------------------------------------
(* The inductive invariant *)

\* A log in use has all that was written, none of it in the reader's buffer; one
\* that no longer reads has an empty terminal; one of a job whose file was opened
\* or whose data was kept has an errno; and one on the list has data, and a
\* terminal that nobody holds and that has been read to the end.
KeptOf(l) ==
  /\ writers[l] \in {{}, {"main"}}
  /\ log[l].place # "freed" => Held(l) = AllOf(l) /\ log[l].recv = << >>
  /\ log[l].place # "freed" /\ ~log[l].io => pty[l] = << >>
  /\ log[l].place = "job" /\ (log[l].fd # "closed" \/ log[l].unflushed # << >>)
       => log[l].open_errno # "0"
  /\ log[l].place = "list" => /\ log[l].unflushed # << >> /\ log[l].remote_closed
                              /\ pty[l] = << >> /\ writers[l] = {}

\* That is so until a write is cut short, a descriptor leaks, a full disk
\* refuses data or the daemon is re-executed.
KeptInv == faults = {} => \A l \in Logs : KeptOf(l)

\* What EarlyOutputKept says of a step and a log.
LostLate(l) ==
  log[l].place # "freed" /\ log'[l].place = "freed" /\ faults' = {} /\ file'[l] # AllOf(l) =>
    /\ log[l].place = "job"
    /\ disk # "ok"
    /\ log_flushed \/ disk # "ro" \/ log[l].open_errno \notin {"0", "EROFS"}

LEMMA KeptSame ==
  ASSUME NEW l \in Logs, KeptOf(l), log'[l] = log[l], file'[l] = file[l], pty'[l] = pty[l],
         out'[l] = out[l], writers'[l] = writers[l]
  PROVE  KeptOf(l)'
BY DEF KeptOf, Held, AllOf

\* A step of one log, after which all of its terminal has been read.
LEMMA KeptStep ==
  ASSUME LogInv, KeptInv, NEW l \in Logs, NEW x \in XRec, Set(l, x), faults \subseteq x.faults,
         pty' = [pty EXCEPT ![l] = << >>], UNCHANGED <<out, writers>>,
         x.faults = {} =>
           /\ x.log.place # "freed" => Cat(x) = AllOf(l) /\ x.log.recv = << >>
           /\ x.log.place = "job" => Attempted(x)
           /\ x.log.place = "list" => /\ x.log.unflushed # << >> /\ x.log.remote_closed
                                      /\ writers[l] = {}
  PROVE  KeptInv'
<1>1. /\ log \in [Logs -> LogRec] /\ file \in [Logs -> Seq(Chunks)] /\ pty \in [Logs -> Seq(Chunks)]
  BY DEF LogInv, TypeOK, LogRec
<1>2. /\ log' = [log EXCEPT ![l] = x.log] /\ file' = [file EXCEPT ![l] = x.file]
      /\ faults' = x.faults
  BY DEF Set
<1>3. /\ log'[l] = x.log /\ file'[l] = x.file /\ pty'[l] = << >>
      /\ \A k \in Logs \ {l} : log'[k] = log[k] /\ file'[k] = file[k] /\ pty'[k] = pty[k]
  BY <1>1, <1>2
<1> SUFFICES ASSUME x.faults = {}, NEW k \in Logs PROVE KeptOf(k)'
  BY <1>2 DEF KeptInv
<1>4. \A q \in Logs : KeptOf(q)
  BY DEF KeptInv
<1>5. CASE k # l
  BY <1>3, <1>4, <1>5, KeptSame
<1>6. CASE k = l
  <2>1. Held(l)' = Cat(x)
    <3>1. Held(l)' = Cat(x) \o << >> /\ Cat(x) \in Seq(Chunks)
      BY <1>3, XFields DEF Held, Cat
    <3> QED BY <3>1, NothingMore
  <2>2. AllOf(l)' = AllOf(l) /\ writers[l] \in {{}, {"main"}}
    BY <1>4 DEF AllOf, KeptOf
  <2> QED BY <1>3, <1>6, <2>1, <2>2 DEF KeptOf, Attempted
<1> QED BY <1>5, <1>6

LEMMA ReadTerminalKept ==
  ASSUME LogInv, KeptInv, NEW l \in Logs, ReadTerminal(l)
  PROVE  KeptInv' /\ \A k \in Logs : LostLate(k)
<1> DEFINE a == [X(l) EXCEPT !.log.recv = @ \o pty[l]]
<1>1. /\ log[l].io
      /\ pty' = [pty EXCEPT ![l] = << >>]
      /\ UNCHANGED <<out, writers, disk, log_unflushed_files, log_flushed, fault>>
  BY DEF ReadTerminal
<1>2. PICK y \in IfReceived(a, "stale") :
        IF RemoteClosed(l)
        THEN Set(l, [y EXCEPT !.log.io = FALSE, !.log.remote_closed = TRUE, !.log.recv = << >>])
        ELSE Set(l, y)
  BY DEF ReadTerminal
<1>3. /\ X(l) \in XRec /\ Sane(X(l)) /\ X(l).log = log[l] /\ X(l).faults = faults
      /\ pty[l] \in Seq(Chunks) /\ disk \in Disks
      /\ Held(l) = Cat(X(l)) \o pty[l]
  BY XLemma
<1>4. /\ a \in XRec /\ SamePlace(X(l), a) /\ a.faults = faults /\ Sane(a)
      /\ a.log.open_errno = log[l].open_errno
      /\ Cat(a) = Held(l)
  BY <1>3, ReceivedLemma
<1>5. /\ a.log.recv = log[l].recv \o pty[l]
      /\ a.log.fd = log[l].fd /\ a.log.unflushed = log[l].unflushed
  BY <1>3 DEF XRec, LogRec
<1> HIDE DEF a
<1>6. "stale" \in Errnos
  BY DEF Errnos
<1>7. Follows(a, y) /\ Sane(y)
  BY <1>2, <1>3, <1>4, <1>6, IfReceivedLemma
<1>8. /\ y \in XRec /\ faults \subseteq y.faults
      /\ y.log.place = log[l].place /\ y.log.remote_closed = log[l].remote_closed
      /\ "full" \notin y.faults => Cat(y) = Held(l)
  BY <1>3, <1>4, <1>7 DEF Follows, SamePlace
<1> DEFINE Settled ==
             /\ y.log.recv = << >> /\ Cat(y) = AllOf(l)
             /\ y.log.place = "job" => Attempted(y)
             /\ y.log.place = "list" => /\ y.log.unflushed # << >> /\ y.log.remote_closed
                                        /\ writers[l] = {}
<1>9. y.faults = {} /\ y.log.place # "freed" => Settled
  <2> SUFFICES ASSUME y.faults = {}, y.log.place # "freed" PROVE Settled
    OBVIOUS
  <2>1. KeptOf(l)
    BY <1>8 DEF KeptInv
  <2>2. Attempted(a)
    <3>1. log[l].place \in {"job", "list"}
      BY <1>8 DEF LogInv, TypeOK
    <3> QED BY <1>4, <1>5, <2>1, <3>1 DEF LogInv, EntryInv, KeptOf, Attempted
  <2>3. /\ y.log.recv = << >> /\ Attempted(y)
        /\ a.log.recv = << >> => y = a
    BY <1>2, <1>3, <1>4, <1>6, <2>2, IfReceivedClean
  <2>4. Cat(y) = AllOf(l)
    BY <1>8, <2>1 DEF KeptOf
  <2>5. y.log.place = "list" => y.log.unflushed # << >> /\ y.log.remote_closed /\ writers[l] = {}
    <3> SUFFICES ASSUME y.log.place = "list"
                 PROVE  y.log.unflushed # << >> /\ y.log.remote_closed /\ writers[l] = {}
      OBVIOUS
    <3>1. /\ log[l].unflushed # << >> /\ log[l].remote_closed /\ log[l].recv = << >>
          /\ pty[l] = << >> /\ writers[l] = {}
      BY <1>8, <2>1 DEF KeptOf
    <3>2. a.log.recv = << >>
      BY <1>3, <1>5, <3>1, NothingMore
    <3> QED BY <1>5, <1>8, <2>3, <3>1, <3>2
  <2> QED BY <2>3, <2>4, <2>5
<1>10. ASSUME NEW x \in XRec, Set(l, x), x.log.place = log[l].place
       PROVE  \A k \in Logs : LostLate(k)
  <2>1. \A k \in Logs : log'[k].place = log[k].place
    BY <1>10 DEF Set, LogInv, TypeOK
  <2> QED BY <2>1 DEF LostLate
<1>11. CASE RemoteClosed(l)
  <2> DEFINE x == [y EXCEPT !.log.io = FALSE, !.log.remote_closed = TRUE, !.log.recv = << >>]
  <2>1. Set(l, x)
    BY <1>2, <1>11
  <2>2. << >> \in Seq(Chunks)
    BY EmptySeq
  <2>3. /\ x \in XRec /\ x.file = y.file /\ x.faults = y.faults
        /\ x.log.unflushed = y.log.unflushed /\ x.log.recv = << >> /\ x.log.fd = y.log.fd
        /\ x.log.place = y.log.place /\ x.log.remote_closed
        /\ x.log.open_errno = y.log.open_errno
    BY <1>8, <2>2 DEF XRec, LogRec
  <2> HIDE DEF x
  <2>4. y.log.recv = << >> => Cat(x) = Cat(y)
    BY <2>3 DEF Cat
  <2>5. x.faults = {} =>
           /\ x.log.place # "freed" => Cat(x) = AllOf(l) /\ x.log.recv = << >>
           /\ x.log.place = "job" => Attempted(x)
           /\ x.log.place = "list" => /\ x.log.unflushed # << >> /\ x.log.remote_closed
                                      /\ writers[l] = {}
    <3>1. CASE x.log.place = "freed"
      BY <3>1
    <3>2. CASE x.faults = {} /\ x.log.place # "freed"
      <4>1. Settled
        BY <1>9, <2>3, <3>2
      <4> QED BY <2>3, <2>4, <4>1 DEF Attempted
    <3> QED BY <3>1, <3>2
  <2>6. UNCHANGED <<out, writers>> /\ pty' = [pty EXCEPT ![l] = << >>] /\ faults \subseteq x.faults
    BY <1>1, <1>8, <2>3
  <2>7. KeptInv'
    BY <2>1, <2>3, <2>5, <2>6, KeptStep
  <2> QED BY <1>8, <1>10, <2>1, <2>3, <2>7
<1>12. CASE ~RemoteClosed(l)
  <2>1. Set(l, y)
    BY <1>2, <1>12
  <2>2. KeptInv'
    <3>1. UNCHANGED <<out, writers>> /\ pty' = [pty EXCEPT ![l] = << >>]
      BY <1>1
    <3>2. y.faults = {} =>
            /\ y.log.place # "freed" => Cat(y) = AllOf(l) /\ y.log.recv = << >>
            /\ y.log.place = "job" => Attempted(y)
            /\ y.log.place = "list" => /\ y.log.unflushed # << >> /\ y.log.remote_closed
                                       /\ writers[l] = {}
      <4>1. CASE y.log.place = "freed"
        BY <4>1
      <4>2. CASE y.faults = {} /\ y.log.place # "freed"
        <5>1. Settled
          BY <1>9, <4>2
        <5> QED BY <5>1
      <4> QED BY <4>1, <4>2
    <3> QED BY <1>8, <2>1, <3>1, <3>2, KeptStep
  <2> QED BY <1>8, <1>10, <2>1, <2>2
<1> QED BY <1>11, <1>12

\* The end of a process: what is buffered goes to the list if the errno is that of
\* a read-only disk, which it is unless the file had been opened before.
LEMMA TerminatedKept ==
  ASSUME LogInv, KeptInv, NEW l \in Logs, Terminated(l)
  PROVE  KeptInv' /\ \A k \in Logs : LostLate(k)
<1>1. /\ log[l].place = "job" /\ "main" \notin writers[l]
      /\ pty' = [pty EXCEPT ![l] = << >>]
      /\ UNCHANGED <<out, writers, disk, log_flushed, fault>>
  BY DEF Terminated
<1>2. PICK y \in log_read_watch(X(l), pty[l], RemoteClosed(l)) :
        IF ForLater(y)
        THEN /\ Set(l, [y EXCEPT !.log.place = "list"])
             /\ log_unflushed_files' = <<l>> \o log_unflushed_files
        ELSE /\ \E z \in log_destroy(y, << >>, RemoteClosed(l)) : Set(l, z)
             /\ UNCHANGED log_unflushed_files
  BY DEF Terminated
<1>3. /\ X(l) \in XRec /\ Sane(X(l)) /\ X(l).log = log[l] /\ X(l).faults = faults
      /\ pty[l] \in Seq(Chunks) /\ disk \in Disks
      /\ Held(l) = Cat(X(l)) \o pty[l]
      /\ RemoteClosed(l) \in BOOLEAN
  BY XLemma DEF RemoteClosed
<1>4. Within(X(l), pty[l], y) /\ Sane(y) /\ y.log.place = log[l].place
  BY <1>2, <1>3, ReadWatchLemma
<1>5. y \in XRec /\ faults \subseteq y.faults
  BY <1>3, <1>4 DEF Within
<1> DEFINE Ended == /\ y.log.recv = << >> /\ y.log.remote_closed
                    /\ Cat(y) = AllOf(l) /\ writers[l] = {}
                    /\ disk = "ro" /\ log[l].open_errno \in {"0", "EROFS"} /\ y.log.unflushed # << >>
                         => y.log.open_errno = "EROFS"
<1>6. ASSUME y.faults = {} PROVE Ended
  <2>1. KeptOf(l)
    BY <1>5, <1>6 DEF KeptInv
  <2>2. writers[l] = {} /\ RemoteClosed(l)
    BY <1>1, <2>1 DEF KeptOf, RemoteClosed
  <2>3. Attempted(X(l))
    BY <1>1, <1>3, <2>1 DEF KeptOf, Attempted
  <2>4. /\ X(l).log.recv = << >> /\ (~X(l).log.io => X(l).log.remote_closed /\ pty[l] = << >>)
    BY <1>1, <1>3, <2>1 DEF KeptOf, LogInv, EntryInv
  <2>5. /\ y.log.recv = << >> /\ (RemoteClosed(l) => y.log.remote_closed)
        /\ Cat(y) = Cat(X(l)) \o pty[l]
        /\ disk = "ro" /\ X(l).log.open_errno \in {"0", "EROFS"} /\ y.log.unflushed # << >>
             => y.log.open_errno = "EROFS"
    BY <1>2, <1>3, <1>6, <2>3, <2>4, ReadWatchClean
  <2>6. Cat(y) = AllOf(l)
    BY <1>1, <1>3, <2>1, <2>5 DEF KeptOf
  <2> QED BY <1>3, <2>2, <2>5, <2>6
<1> HIDE DEF Ended
<1>7. UNCHANGED <<out, writers>> /\ disk' = disk /\ log_flushed' = log_flushed
  BY <1>1
<1>8. CASE ForLater(y)
  <2> DEFINE x == [y EXCEPT !.log.place = "list"]
  <2>1. Set(l, x)
    BY <1>2, <1>8
  <2>2. /\ x \in XRec /\ x.file = y.file /\ x.faults = y.faults
        /\ x.log.unflushed = y.log.unflushed /\ x.log.recv = y.log.recv
        /\ x.log.place = "list" /\ x.log.remote_closed = y.log.remote_closed
    BY <1>5 DEF XRec, LogRec
  <2> HIDE DEF x
  <2>3. Cat(x) = Cat(y)
    BY <2>2 DEF Cat
  <2>4. x.faults = {} =>
           /\ x.log.place # "freed" => Cat(x) = AllOf(l) /\ x.log.recv = << >>
           /\ x.log.place = "job" => Attempted(x)
           /\ x.log.place = "list" => /\ x.log.unflushed # << >> /\ x.log.remote_closed
                                      /\ writers[l] = {}
    BY <1>6, <1>8, <2>2, <2>3 DEF Ended, ForLater
  <2>5. KeptInv'
    <3>1. faults \subseteq x.faults
      BY <1>5, <2>2
    <3> QED BY <1>1, <1>7, <2>1, <2>2, <2>4, <3>1, KeptStep
  <2>6. \A k \in Logs : log'[k].place # "freed" \/ log'[k] = log[k]
    BY <2>1, <2>2 DEF Set, LogInv, TypeOK
  <2> QED BY <2>5, <2>6 DEF LostLate
<1>9. CASE ~ForLater(y)
  <2>1. PICK z \in log_destroy(y, << >>, RemoteClosed(l)) : Set(l, z)
    BY <1>2, <1>9
  <2>2. z \in XRec /\ z.log = Gone /\ y.faults \subseteq z.faults
    BY <1>3, <1>4, <1>5, <2>1, EmptySeq, DestroyLemma
  <2>3. z.log.place = "freed" /\ faults \subseteq z.faults
    BY <1>5, <2>2, GoneLemma
  <2>4. KeptInv'
    BY <1>1, <1>7, <2>1, <2>2, <2>3, KeptStep
  <2>5. /\ log'[l] = z.log /\ file'[l] = z.file /\ faults' = z.faults
        /\ \A k \in Logs \ {l} : log'[k] = log[k]
    BY <2>1 DEF Set, LogInv, TypeOK
  <2>6. ASSUME z.faults = {}, z.file # AllOf(l)
        PROVE  /\ disk # "ok"
               /\ log_flushed \/ disk # "ro" \/ log[l].open_errno \notin {"0", "EROFS"}
    <3>1. y.faults = {}
      BY <2>2, <2>6
    <3>2. Ended
      BY <1>6, <3>1
    <3>3. y.log.unflushed # << >> /\ disk # "ok"
      <4>1. y.log.recv = << >> /\ y.log.remote_closed /\ Cat(y) = AllOf(l)
        BY <3>2 DEF Ended
      <4>2. y.log.unflushed = << >> \/ disk = "ok" => z.file = Cat(y)
        BY <1>3, <1>4, <1>5, <2>1, <2>6, <4>1, DestroyClean
      <4> QED BY <2>6, <4>1, <4>2
    <3>4. y.log.open_errno = "EROFS" => log_flushed
      BY <1>9, <3>3 DEF ForLater
    <3> QED BY <3>2, <3>3, <3>4 DEF Ended
  <2>7. ASSUME NEW k \in Logs PROVE LostLate(k)
    <3>1. CASE k = l
      BY <1>1, <2>5, <2>6, <3>1 DEF LostLate
    <3>2. CASE k # l
      BY <2>5, <3>2 DEF LostLate
    <3> QED BY <3>1, <3>2
  <2> QED BY <2>4, <2>7
<1> QED BY <1>8, <1>9

\* The process writes.
LEMMA OutputKept ==
  ASSUME LogInv, KeptInv, NEW l \in Logs, Output(l)
  PROVE  KeptInv' /\ \A k \in Logs : LostLate(k)
<1>1. /\ writers[l] # {} /\ log[l].io
      /\ out' = [out EXCEPT ![l] = @ + 1]
      /\ pty' = [pty EXCEPT ![l] = Append(@, out[l] + 1)]
      /\ UNCHANGED <<log, file, writers, disk, log_unflushed_files, log_flushed, faults, fault>>
  BY DEF Output
<1>2. out \in [Logs -> Nat] /\ pty \in [Logs -> Seq(Chunks)]
  BY DEF LogInv, TypeOK
<1>3. /\ pty[l] \in Seq(Chunks) /\ out[l] \in Nat /\ Cat(X(l)) \in Seq(Chunks)
      /\ Held(l) = Cat(X(l)) \o pty[l]
  BY XLemma, XFields
<1>4. /\ out'[l] = out[l] + 1 /\ pty'[l] = Append(pty[l], out[l] + 1)
      /\ \A k \in Logs \ {l} : out'[k] = out[k] /\ pty'[k] = pty[k]
  BY <1>1, <1>2
<1>5. Held(l)' = Append(Held(l), out[l] + 1)
  <2> DEFINE a == Cat(X(l))
             p == pty[l]
             c == out[l] + 1
  <2>1. Held(l)' = a \o Append(p, c)
    BY <1>1, <1>4 DEF Held, Cat, X
  <2>2. a \in Seq(Chunks) /\ p \in Seq(Chunks) /\ c \in Chunks /\ Held(l) = a \o p
    BY <1>3 DEF Chunks
  <2> HIDE DEF a, p, c
  <2>3. a \o Append(p, c) = Append(a \o p, c)
    BY <2>2
  <2> QED BY <2>1, <2>2, <2>3 DEF c
<1>6. Append(AllOf(l), out[l] + 1) = AllOf(l)'
  <2> DEFINE n == out[l]
  <2>1. n \in Nat
    BY <1>3
  <2>2. ASSUME NEW m \in Nat
        PROVE  Append([i \in 1..m |-> i], m + 1) = [i \in 1..(m + 1) |-> i]
    OBVIOUS
  <2> QED BY <1>4, <2>1, <2>2 DEF AllOf
<1>7. KeptInv'
  <2> SUFFICES ASSUME faults = {}, NEW k \in Logs PROVE KeptOf(k)'
    BY <1>1 DEF KeptInv
  <2>1. KeptOf(k)
    BY DEF KeptInv
  <2>2. CASE k # l
    BY <1>1, <1>4, <2>1, <2>2, KeptSame
  <2>3. CASE k = l
    <3>1. log'[l] = log[l] /\ writers'[l] = writers[l]
      BY <1>1
    <3>2. log[l].place # "list"
      BY <1>1, <2>1, <2>3 DEF KeptOf
    <3>3. log[l].place # "freed" => Held(l)' = AllOf(l)' /\ log[l].recv = << >>
      BY <1>5, <1>6, <2>1, <2>3 DEF KeptOf
    <3> QED BY <1>1, <2>1, <2>3, <3>1, <3>2, <3>3 DEF KeptOf
  <2> QED BY <2>2, <2>3
<1> QED BY <1>1, <1>7 DEF LostLate

\* The process, or the child that holds its terminal, ends.
LEMMA ExitKept ==
  ASSUME LogInv, KeptInv, NEW l \in Logs, Exit(l) \/ ChildExits(l)
  PROVE  KeptInv' /\ \A k \in Logs : LostLate(k)
<1>1. UNCHANGED <<log, file, pty, out>>
  BY DEF Exit, ChildExits
<1>2. writers \in [Logs -> SUBSET {"main", "child"}]
  BY DEF LogInv, TypeOK
<1>3. faults' = {} => /\ faults = {} /\ writers' = [writers EXCEPT ![l] = {}]
  BY DEF Exit, ChildExits
<1>4. KeptInv'
  <2> SUFFICES ASSUME faults' = {}, NEW k \in Logs PROVE KeptOf(k)'
    BY DEF KeptInv
  <2>1. KeptOf(k)
    BY <1>3 DEF KeptInv
  <2>2. writers'[k] \in {{}, writers[k]}
    BY <1>2, <1>3
  <2>3. Held(k)' = Held(k) /\ AllOf(k)' = AllOf(k)
    BY <1>1 DEF Held, AllOf
  <2> QED BY <1>1, <2>1, <2>2, <2>3 DEF KeptOf
<1> QED BY <1>1, <1>4 DEF LostLate

\* The file of a job is removed.
LEMMA RotateKept ==
  ASSUME LogInv, KeptInv, NEW l \in Logs, Rotate(l)
  PROVE  KeptInv' /\ \A k \in Logs : LostLate(k)
<1>1. /\ log[l].fd = "open" /\ log' = [log EXCEPT ![l].fd = "unlinked"]
      /\ UNCHANGED <<file, pty, out, writers, faults>>
  BY DEF Rotate
<1>2. log \in [Logs -> LogRec]
  BY DEF LogInv, TypeOK, LogRec
<1>3. \A k \in Logs : /\ log'[k].place = log[k].place /\ log'[k].io = log[k].io
                      /\ log'[k].unflushed = log[k].unflushed /\ log'[k].recv = log[k].recv
                      /\ log'[k].remote_closed = log[k].remote_closed
                      /\ log'[k].open_errno = log[k].open_errno
                      /\ log'[k].fd = IF k = l THEN "unlinked" ELSE log[k].fd
  BY <1>1, <1>2 DEF LogRec
<1>4. KeptInv'
  <2> SUFFICES ASSUME faults = {}, NEW k \in Logs PROVE KeptOf(k)'
    BY <1>1 DEF KeptInv
  <2>1. KeptOf(k)
    BY DEF KeptInv
  <2>2. Held(k)' = Held(k) /\ AllOf(k)' = AllOf(k)
    BY <1>1, <1>3 DEF Held, AllOf
  <2>3. log'[k].fd # "closed" => log[k].fd # "closed"
    BY <1>1, <1>3
  <2> QED BY <1>1, <1>3, <2>1, <2>2, <2>3 DEF KeptOf
<1> QED BY <1>3, <1>4 DEF LostLate

\* log_clear_unflushed frees an entry only when all of it is in the file.
LEMMA ClearKept ==
  ASSUME LogInv, KeptInv, NotifyDiskWriteable
  PROVE  KeptInv' /\ \A k \in Logs : LostLate(k)
<1> DEFINE L == log_unflushed_files
<1>1. PICK x \in [Range(L) -> UNION {ClearOne(l) : l \in Range(L)}] :
        /\ \A l \in DOMAIN x : x[l] \in ClearOne(l)
        /\ \E n \in 0..Len(L) : ClearedTo(n, x)
        /\ UNCHANGED <<out, writers, disk>>
  BY DEF NotifyDiskWriteable, log_clear_unflushed
<1>2. PICK n \in 0..Len(L) : ClearedTo(n, x)
  BY <1>1
<1> DEFINE seen == {L[i] : i \in {j \in 1..(n + 1) : j <= Len(L)}}
<1>3. /\ log' = [l \in Logs |-> IF l \in seen THEN x[l].x.log ELSE log[l]]
      /\ file' = [l \in Logs |-> IF l \in seen THEN x[l].x.file ELSE file[l]]
      /\ pty' = [l \in Logs |-> IF l \in seen /\ x[l].ret = 0 THEN << >> ELSE pty[l]]
      /\ faults' = UNION ({faults} \cup {x[l].x.faults : l \in seen})
      /\ UNCHANGED <<out, writers>>
  BY <1>1, <1>2 DEF ClearedTo
<1>4. \A l \in seen : l \in Logs /\ l \in Range(L) /\ log[l].place = "list"
  <2>1. L \in Seq(Logs) /\ ListInv
    BY DEF LogInv, TypeOK
  <2>2. Len(L) \in Nat /\ DOMAIN L = 1..Len(L) /\ \A i \in 1..Len(L) : L[i] \in Logs
    BY <2>1, LenProperties, ElementOfSeq
  <2>3. \A i \in 1..Len(L) : L[i] \in Range(L) /\ log[L[i]].place = "list"
    BY <2>1, <2>2 DEF ListInv, Range
  <2> QED BY <2>2, <2>3
<1> HIDE DEF seen, L
<1>5. faults' = {} => faults = {} /\ \A l \in seen : x[l].x.faults = {}
  BY <1>3
<1>6. ASSUME NEW l \in Logs, l \notin seen
      PROVE  log'[l] = log[l] /\ file'[l] = file[l] /\ pty'[l] = pty[l]
  BY <1>3, <1>6
<1>7. ASSUME faults' = {}, NEW l \in seen
      PROVE  KeptOf(l)' /\ (log'[l].place = "freed" => file'[l] = AllOf(l))
  <2>1. l \in Logs /\ x[l] \in ClearOne(l) /\ log[l].place = "list"
    BY <1>1, <1>4
  <2>2. /\ X(l) \in XRec /\ Sane(X(l)) /\ X(l).log = log[l]
        /\ disk \in Disks /\ pty[l] \in Seq(Chunks) /\ Held(l) = Cat(X(l)) \o pty[l]
    BY <2>1, XLemma
  <2>3. KeptOf(l) /\ x[l].x.faults = {}
    BY <1>5, <1>7, <2>1 DEF KeptInv
  <2>4. /\ log[l].unflushed # << >> /\ log[l].remote_closed /\ log[l].recv = << >>
        /\ pty[l] = << >> /\ writers[l] = {} /\ Held(l) = AllOf(l)
    BY <2>1, <2>3 DEF KeptOf
  <2>5. Cat(X(l)) = AllOf(l)
    <3>1. Cat(X(l)) \in Seq(Chunks)
      BY <2>2, XFields
    <3> QED BY <2>2, <2>4, <3>1, NothingMore
  <2>6. /\ x[l].ret = 0 => x[l].x.file = Cat(X(l))
        /\ x[l].ret = 1 => /\ x[l].x.log.unflushed = log[l].unflushed
                           /\ x[l].x.log.recv = << >>
    BY <2>1, <2>2, <2>3, <2>4, ClearOneClean
  <2>7. /\ x[l].ret \in {0, 1} /\ x[l].x \in XRec
        /\ x[l].ret = 0 => x[l].x.log = Gone
        /\ x[l].ret = 1 => Follows(X(l), x[l].x)
    BY <2>1, <2>2, ClearOneLemma
  <2>8. /\ log'[l] = x[l].x.log /\ file'[l] = x[l].x.file /\ pty'[l] = << >>
        /\ writers'[l] = {} /\ AllOf(l)' = AllOf(l)
    BY <1>3, <1>7, <2>1, <2>4 DEF AllOf
  <2>9. CASE x[l].ret = 0
    <3>1. log'[l].place = "freed" /\ file'[l] = AllOf(l)
      BY <2>5, <2>6, <2>7, <2>8, <2>9, GoneLemma
    <3> QED BY <2>8, <3>1 DEF KeptOf
  <2>10. CASE x[l].ret = 1
    <3>1. /\ x[l].x.log.place = "list" /\ x[l].x.log.remote_closed
          /\ Cat(x[l].x) = AllOf(l)
      <4>1. SamePlace(X(l), x[l].x) /\ Cat(x[l].x) = Cat(X(l))
        BY <2>3, <2>7, <2>10 DEF Follows
      <4> QED BY <2>1, <2>2, <2>4, <2>5, <4>1 DEF SamePlace
    <3>2. Held(l)' = AllOf(l)
      <4>1. Held(l)' = Cat(x[l].x) \o << >> /\ Cat(x[l].x) \in Seq(Chunks)
        BY <2>7, <2>8, XFields DEF Held, Cat
      <4> QED BY <3>1, <4>1, NothingMore
    <3> QED BY <2>4, <2>6, <2>8, <2>10, <3>1, <3>2 DEF KeptOf
  <2> QED BY <2>7, <2>9, <2>10
<1>8. KeptInv'
  <2> SUFFICES ASSUME faults' = {}, NEW k \in Logs PROVE KeptOf(k)'
    BY DEF KeptInv
  <2>1. CASE k \in seen
    BY <1>7, <2>1
  <2>2. CASE k \notin seen
    <3>1. KeptOf(k)
      BY <1>5 DEF KeptInv
    <3> QED BY <1>3, <1>6, <2>2, <3>1, KeptSame
  <2> QED BY <2>1, <2>2
<1>9. ASSUME NEW k \in Logs PROVE LostLate(k)
  BY <1>6, <1>7 DEF LostLate
<1> QED BY <1>8, <1>9

----------------------------------------------------------------------------
(* The theorems *)

LEMMA KeptInit == Init => KeptInv
<1> SUFFICES ASSUME Init, NEW l \in Logs PROVE KeptOf(l)
  BY DEF KeptInv
<1>1. /\ log[l] = log_new /\ file[l] = << >> /\ pty[l] = << >> /\ out[l] = 0
      /\ writers[l] = {"main"}
  BY DEF Init
<1>2. Held(l) = << >>
  <2>1. << >> \in Seq(Chunks) /\ << >> \o << >> = << >>
    BY EmptySeq, ConcatEmptySeq
  <2> QED BY <1>1, <2>1, GoneLemma DEF Held
<1>3. AllOf(l) = << >>
  BY <1>1 DEF AllOf
<1> QED BY <1>1, <1>2, <1>3, GoneLemma DEF KeptOf

LEMMA KeptNext ==
  ASSUME LogInv, KeptInv, [Next]_vars
  PROVE  KeptInv' /\ \A k \in Logs : LostLate(k)
<1>1. CASE DiskChanges \/ UNCHANGED vars
  <2>1. UNCHANGED <<log, file, pty, out, writers, faults>>
    BY <1>1 DEF DiskChanges, vars
  <2>2. KeptInv'
    BY <2>1, KeptSame DEF KeptInv
  <2> QED BY <2>1, <2>2 DEF LostLate
<1>2. CASE Reexec
  <2>1. faults' # {}
    BY <1>2 DEF Reexec
  <2> QED BY <2>1 DEF KeptInv, LostLate
<1> QED BY <1>1, <1>2, OutputKept, ReadTerminalKept, ExitKept, TerminatedKept, RotateKept, ClearKept
        DEF Next

\* As long as nothing is noted, every log in use has all that was written.
THEOREM KeptInductive == Spec => []KeptInv
<1>1. LogInv /\ KeptInv /\ [Next]_vars => KeptInv'
  BY KeptNext
<1> QED BY <1>1, KeptInit, LogInductive, PTL DEF Spec

\* The output of a process that has ended is lost, without a short write, a leak,
\* a full disk or a re-exec, only if the disk was not writeable then and had been
\* declared writeable, or was full, or the file had been opened before; and what was
\* put on the list is lost never (log_handle_unflushed, log_clear_unflushed).
THEOREM OutputIsKept == Spec => EarlyOutputKept
<1>1. LogInv /\ KeptInv /\ [Next]_vars =>
        [\A l \in Logs :
           log[l].place # "freed" /\ log'[l].place = "freed" /\ faults' = {} /\ file'[l] # AllOf(l) =>
             /\ log[l].place = "job"
             /\ disk # "ok"
             /\ log_flushed \/ disk # "ro" \/ log[l].open_errno \notin {"0", "EROFS"}]_vars
  BY KeptNext DEF LostLate
<1> QED BY <1>1, KeptInductive, LogInductive, PTL DEF Spec, EarlyOutputKept
============================================================================
