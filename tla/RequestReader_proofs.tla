------------------------ MODULE RequestReader_proofs ------------------------
(***************************************************************************)
(* Proofs about the request reader (RequestReader), for any number of      *)
(* clients, any sizes of buffers and any requests: input buffers have one  *)
(* user, requests stay whole and full requests are noticed.                *)
(*                                                                         *)
(* Three invariants, each resting on the one before.  Safe says who has    *)
(* which buffer and what is in range.  Framed says that what a client has  *)
(* left in its buffer, followed by what is in its socket, is the stream of *)
(* its requests from the next one on; the boundaries of the requests are   *)
(* given by a function.  Noticed says which clients are in                 *)
(* ClientsWithInput, also during a turn.                                   *)
(***************************************************************************)
EXTENDS RequestReader, SequenceTheorems, FiniteSetTheorems, TLAPS

Unit == [of : Client, n : Nat, at : Nat, length : Nat]
Room == [size : 0..MAXBUFSIZE, bufptr : Nat, lenLastReq : Nat, data : Seq(Unit)]
Sound(b) == b \in Room /\ Len(b.data) <= b.size /\ b.bufptr + b.lenLastReq <= Len(b.data)

\* What is behind the request being executed.
Rest(b) == SubSeq(b.data, b.bufptr + b.lenLastReq + 1, Len(b.data))
Spent(b) == b.bufptr + b.lenLastReq = Len(b.data)

\* What client c has in its buffer that has not been returned yet.
Left(s, c) == IF s.input[c] = 0 THEN <<>> ELSE Rest(s.buf[s.input[c]])

Buffers(s) ==
    /\ s \in [input : [Client -> Buffer \union {0}], buf : [Buffer -> Room],
              FreeInputs : Seq(Buffer), AvailableInput : Client \union {0}]
    /\ \A b \in Buffer : Sound(s.buf[b])

Owned(s) ==
    /\ \A c, d \in Client : s.input[c] # 0 /\ s.input[c] = s.input[d] => c = d
    /\ \A i, j \in 1..Len(s.FreeInputs) : s.FreeInputs[i] = s.FreeInputs[j] => i = j
    /\ \A b \in Buffer : s.buf[b].size > 0 <=>
         \/ \E i \in 1..Len(s.FreeInputs) : s.FreeInputs[i] = b
         \/ \E c \in Client : s.input[c] = b
    /\ \A c \in Client, i \in 1..Len(s.FreeInputs) : s.input[c] # s.FreeInputs[i]
    /\ \A i \in 1..Len(s.FreeInputs) : Spent(s.buf[s.FreeInputs[i]])

Available(s) ==
    s.AvailableInput # 0 =>
      s.input[s.AvailableInput] # 0 /\ Spent(s.buf[s.input[s.AvailableInput]])

Turns ==
    /\ ClientsWithInput \subseteq Client /\ turn \in Client \union {0}
    /\ req_len \in {-1, MAXCARD32} \union 0..(MAXBUFSIZE \div 2)
    /\ turn = 0 => req_len = -1
    /\ \A c \in Client : Executing(c) =>
         /\ os.input[c] # 0
         /\ LET b == os.buf[os.input[c]] IN IsBig(b.data, b.bufptr) => b.bufptr >= 2

Clients ==
    /\ sent \in [Client -> Seq(Request)]
    /\ socket \in [Client -> Seq(Unit)]
    /\ done \in [Client -> Nat]
    /\ lost \subseteq Client

Safe == Buffers(os) /\ Owned(os) /\ Available(os) /\ Turns /\ Clients

-----------------------------------------------------------------------------
(***************************************************************************)
(* Pieces of sequences.                                                    *)
(***************************************************************************)
\* SubSeq, counted from the number of elements before it.
LEMMA Piece ==
  ASSUME NEW S, NEW s \in Seq(S), NEW m \in Nat, NEW n \in Nat, m <= n, n <= Len(s)
  PROVE  /\ SubSeq(s, m + 1, n) \in Seq(S)
         /\ Len(SubSeq(s, m + 1, n)) = n - m
         /\ \A i \in 1..n - m : SubSeq(s, m + 1, n)[i] = s[m + i]
<1>1. \A i \in m + 1..n : i \in 1..Len(s)
  OBVIOUS
<1>2. n - (m + 1) + 1 = n - m
  OBVIOUS
<1>3. /\ SubSeq(s, m + 1, n) \in Seq(S)
      /\ Len(SubSeq(s, m + 1, n)) = IF m + 1 <= n THEN n - (m + 1) + 1 ELSE 0
      /\ \A i \in 1..n - (m + 1) + 1 : SubSeq(s, m + 1, n)[i] = s[m + 1 + i - 1]
  BY <1>1, SubSeqProperties
<1>4. \A i \in 1..n - m : m + 1 + i - 1 = m + i
  OBVIOUS
<1>5. Len(SubSeq(s, m + 1, n)) = n - m
  BY <1>2, <1>3
<1> QED
  BY <1>2, <1>3, <1>4, <1>5

\* Two sequences with the same elements are the same.
LEMMA Alike ==
  ASSUME NEW S, NEW s \in Seq(S), NEW t \in Seq(S), Len(s) = Len(t),
         \A i \in 1..Len(s) : s[i] = t[i]
  PROVE  s = t
BY SeqEqual

LEMMA Joint ==
  ASSUME NEW S, NEW s \in Seq(S), NEW t \in Seq(S)
  PROVE  /\ s \o t \in Seq(S)
         /\ Len(s \o t) = Len(s) + Len(t)
         /\ \A i \in 1..Len(s) : (s \o t)[i] = s[i]
         /\ \A i \in 1..Len(t) : (s \o t)[Len(s) + i] = t[i]
<1>1. /\ s \o t \in Seq(S) /\ Len(s \o t) = Len(s) + Len(t)
      /\ \A i \in 1..Len(s) + Len(t) : (s \o t)[i] = IF i <= Len(s) THEN s[i] ELSE t[i - Len(s)]
  BY ConcatProperties
<1>2. \A i \in 1..Len(t) : Len(s) + i \in 1..Len(s) + Len(t) /\ ~(Len(s) + i <= Len(s))
                           /\ Len(s) + i - Len(s) = i
  OBVIOUS
<1> QED
  BY <1>1, <1>2

\* The end of a piece that goes on to the end.
LEMMA Grouped ==
  ASSUME NEW S, NEW s \in Seq(S), NEW t \in Seq(S), NEW u \in Seq(S)
  PROVE  (s \o t) \o u = s \o (t \o u)
BY ConcatAssociative

LEMMA Within ==
  ASSUME NEW x \in Nat, NEW y \in Nat, NEW v \in Nat, x + y <= v
  PROVE  \A i \in 1..y : x + i \in 1..v
OBVIOUS

LEMMA PieceOfEnd ==
  ASSUME NEW S, NEW s \in Seq(S), NEW m \in Nat, NEW k \in Nat, m + k <= Len(s)
  PROVE  LET t == SubSeq(s, m + 1, Len(s)) IN
         SubSeq(t, k + 1, Len(t)) = SubSeq(s, m + k + 1, Len(s))
<1> DEFINE t == SubSeq(s, m + 1, Len(s))
           u == SubSeq(t, k + 1, Len(t))
           v == SubSeq(s, m + k + 1, Len(s))
<1>0. Len(s) \in Nat
  OBVIOUS
<1>1. t \in Seq(S) /\ Len(t) = Len(s) - m /\ \A i \in 1..Len(s) - m : t[i] = s[m + i]
  BY <1>0, Piece
<1>2. v \in Seq(S) /\ Len(v) = Len(s) - (m + k) /\ \A i \in 1..Len(s) - (m + k) : v[i] = s[m + k + i]
  BY <1>0, Piece
<1> HIDE DEF t, v
<1>3. u \in Seq(S) /\ Len(u) = Len(t) - k /\ \A i \in 1..Len(t) - k : u[i] = t[k + i]
  BY <1>0, <1>1, Piece
<1> HIDE DEF u
<1>4. \A i \in 1..Len(u) : u[i] = v[i]
  <2> TAKE i \in 1..Len(u)
  <2>1. u[i] = t[k + i]
    BY <1>0, <1>1, <1>3
  <2>2. k + i \in 1..Len(s) - m /\ m + (k + i) = m + k + i
    BY <1>0, <1>1, <1>3
  <2>3. v[i] = s[m + k + i]
    BY <1>0, <1>1, <1>2, <1>3
  <2> QED
    BY <1>1, <2>1, <2>2, <2>3
<1>5. Len(u) = Len(v)
  BY <1>0, <1>1, <1>2, <1>3
<1> QED
  BY <1>2, <1>3, <1>4, <1>5, Alike DEF u, v, t

\* Moving the first elements of one sequence to the end of another.
LEMMA Handed ==
  ASSUME NEW S, NEW s \in Seq(S), NEW t \in Seq(S), NEW n \in 0..Len(t)
  PROVE  (s \o SubSeq(t, 1, n)) \o SubSeq(t, n + 1, Len(t)) = s \o t
<1> DEFINE a == SubSeq(t, 1, n)
           b == SubSeq(t, n + 1, Len(t))
<1>0. Len(t) \in Nat /\ Len(s) \in Nat /\ n \in Nat /\ n <= Len(t)
  OBVIOUS
<1>1. a \in Seq(S) /\ Len(a) = n /\ \A i \in 1..n : a[i] = t[i]
  <2>1. /\ SubSeq(t, 0 + 1, n) \in Seq(S) /\ Len(SubSeq(t, 0 + 1, n)) = n - 0
        /\ \A i \in 1..n - 0 : SubSeq(t, 0 + 1, n)[i] = t[0 + i]
    BY <1>0, Piece
  <2>2. n - 0 = n /\ 0 + 1 = 1 /\ \A i \in 1..n : 0 + i = i
    BY <1>0
  <2> QED
    BY <2>1, <2>2
<1>2. b \in Seq(S) /\ Len(b) = Len(t) - n /\ \A i \in 1..Len(t) - n : b[i] = t[n + i]
  BY <1>0, Piece
<1> HIDE DEF a, b
<1>3. a \o b = t
  <2>1. /\ a \o b \in Seq(S) /\ Len(a \o b) = Len(a) + Len(b)
        /\ \A i \in 1..Len(a) : (a \o b)[i] = a[i]
        /\ \A i \in 1..Len(b) : (a \o b)[Len(a) + i] = b[i]
    <3>1. a \in Seq(S) /\ b \in Seq(S)
      BY <1>1, <1>2
    <3> QED
      BY <3>1, Joint
  <2> DEFINE w == a \o b
  <2> HIDE DEF w
  <2>2. Len(w) = Len(t)
    BY <1>0, <1>1, <1>2, <2>1 DEF w
  <2>3. ASSUME NEW i \in 1..Len(w) PROVE w[i] = t[i]
    <3>1. CASE i <= n
      BY <1>0, <1>1, <2>1, <3>1 DEF w
    <3>2. CASE ~(i <= n)
      <4>1. i - n \in 1..Len(b) /\ n + (i - n) = i
        BY <1>0, <1>2, <2>2, <3>2
      <4>2. w[n + (i - n)] = b[i - n] /\ b[i - n] = t[n + (i - n)]
        BY <1>1, <1>2, <2>1, <4>1 DEF w
      <4> QED
        BY <4>1, <4>2
    <3> QED
      BY <3>1, <3>2
  <2>4. w = t
    BY <2>1, <2>2, <2>3, Alike DEF w
  <2> QED
    BY <2>4 DEF w
<1>4. (s \o a) \o b = s \o (a \o b)
  <2>1. a \in Seq(S) /\ b \in Seq(S)
    BY <1>1, <1>2
  <2> QED
    BY <2>1, Grouped
<1> QED
  BY <1>3, <1>4 DEF a, b

LEMMA PieceOfBoth ==
  ASSUME NEW S, NEW s \in Seq(S), NEW t \in Seq(S), NEW m \in Nat, m <= Len(s)
  PROVE  SubSeq(s \o t, m + 1, Len(s \o t)) = SubSeq(s, m + 1, Len(s)) \o t
<1> DEFINE st == s \o t
           a == SubSeq(s, m + 1, Len(s))
           l == SubSeq(st, m + 1, Len(st))
           v == a \o t
<1>1. Len(s) \in Nat /\ Len(t) \in Nat
  OBVIOUS
<1>2. /\ st \in Seq(S) /\ Len(st) = Len(s) + Len(t)
      /\ \A i \in 1..Len(s) : st[i] = s[i]
      /\ \A i \in 1..Len(t) : st[Len(s) + i] = t[i]
  BY Joint
<1>3. /\ a \in Seq(S) /\ Len(a) = Len(s) - m
      /\ \A i \in 1..Len(s) - m : a[i] = s[m + i]
  BY <1>1, Piece
<1> HIDE DEF st, a
<1>4. /\ v \in Seq(S) /\ Len(v) = Len(a) + Len(t)
      /\ \A i \in 1..Len(a) : v[i] = a[i]
      /\ \A i \in 1..Len(t) : v[Len(a) + i] = t[i]
  <2>1. a \in Seq(S) /\ t \in Seq(S)
    BY <1>3
  <2> QED
    BY <2>1, Joint
<1>5. /\ l \in Seq(S) /\ Len(l) = Len(st) - m
      /\ \A i \in 1..Len(st) - m : l[i] = st[m + i]
  <2>1. Len(st) \in Nat /\ m <= Len(st)
    BY <1>1, <1>2
  <2> QED
    BY <1>2, <2>1, Piece
<1> HIDE DEF l, v
<1>6. Len(l) = Len(v)
  BY <1>1, <1>2, <1>3, <1>4, <1>5
<1>7. ASSUME NEW i \in 1..Len(l) PROVE l[i] = v[i]
  <2>1. l[i] = st[m + i]
    BY <1>5, <1>7
  <2>2. CASE i <= Len(a)
    <3>1. i \in 1..Len(a) /\ i \in 1..Len(s) - m /\ m + i \in 1..Len(s)
      BY <1>1, <1>3, <1>7, <2>2
    <3> QED
      BY <1>2, <1>3, <1>4, <2>1, <3>1
  <2>3. CASE ~(i <= Len(a))
    <3> DEFINE j == i - Len(a)
    <3>1. j \in 1..Len(t) /\ i = Len(a) + j /\ m + i = Len(s) + j
      BY <1>1, <1>2, <1>3, <1>5, <1>7, <2>3
    <3> HIDE DEF j
    <3> QED
      BY <1>2, <1>4, <2>1, <3>1
  <2> QED
    BY <2>2, <2>3
<1> QED
  <2>1. l = v
    BY <1>4, <1>5, <1>6, <1>7, Alike
  <2> QED
    BY <2>1 DEF l, v, st, a

-----------------------------------------------------------------------------
(***************************************************************************)
(* Looking at requests.                                                    *)
(***************************************************************************)
\* What is needed of the data behind p depends on nothing before p.
LEMMA LookedAt ==
  ASSUME NEW data \in Seq(Unit), NEW p \in Nat, p <= Len(data)
  PROVE  LET r == SubSeq(data, p + 1, Len(data)) IN
         /\ r \in Seq(Unit) /\ Len(r) = Len(data) - p
         /\ \A i \in 1..Len(r) : r[i] = data[p + i]
         /\ Needed(data, p) = Needed(r, 0)
         /\ IsBig(data, p) <=> IsBig(r, 0)
         /\ FullRequest(data, p) <=> FullRequest(r, 0)
<1> DEFINE r == SubSeq(data, p + 1, Len(data))
<1>0. Len(data) \in Nat
  OBVIOUS
<1>1. r \in Seq(Unit) /\ Len(r) = Len(data) - p /\ \A i \in 1..Len(data) - p : r[i] = data[p + i]
  BY <1>0, Piece
<1> HIDE DEF r
<1>2. ASSUME Len(r) >= 2 PROVE get_req_len(data, p) = get_req_len(r, 0)
  <2>1. r[2] = data[p + 2]
    BY <1>0, <1>1, <1>2
  <2>2. 0 + 2 = 2
    OBVIOUS
  <2> QED
    BY <2>1, <2>2 DEF get_req_len
<1>3. ASSUME Len(r) >= 4 PROVE get_big_req_len(data, p) = get_big_req_len(r, 0)
  <2>1. r[3] = data[p + 3]
    BY <1>0, <1>1, <1>3
  <2>2. 0 + 3 = 3
    OBVIOUS
  <2> QED
    BY <2>1, <2>2 DEF get_big_req_len
<1>4. Len(data) - p = Len(r) /\ Len(r) - 0 = Len(r) /\ Len(r) \in Nat
  BY <1>0, <1>1
<1>5. IsBig(data, p) <=> IsBig(r, 0)
  BY <1>2, <1>4 DEF IsBig
<1>6. Needed(data, p) = Needed(r, 0)
  BY <1>2, <1>3, <1>4, <1>5 DEF Needed
<1>7. FullRequest(data, p) <=> FullRequest(r, 0)
  BY <1>2, <1>3, <1>4 DEF FullRequest
<1> QED
  BY <1>1, <1>4, <1>5, <1>6, <1>7 DEF r

\* What is needed is an even number of units, and more than a header's.
LEMMA NeededFits ==
  ASSUME NEW r \in Seq(Unit)
  PROVE  /\ Needed(r, 0) \in Nat /\ Needed(r, 0) \div 2 \in Nat
         /\ 2 * (Needed(r, 0) \div 2) = Needed(r, 0)
         /\ Len(r) >= Needed(r, 0) => Len(r) >= 2 /\ (IsBig(r, 0) => Len(r) >= 4)
         /\ Len(r) >= Needed(r, 0) /\ Needed(r, 0) = 0 /\ Big # {} => IsBig(r, 0)
<1>0. Len(r) \in Nat /\ Len(r) - 0 = Len(r) /\ 0 + 2 = 2 /\ 0 + 3 = 3
  OBVIOUS
<1>2. ASSUME NEW k \in Nat, Needed(r, 0) = 2 * k
      PROVE  /\ Needed(r, 0) \in Nat /\ Needed(r, 0) \div 2 \in Nat
             /\ 2 * (Needed(r, 0) \div 2) = Needed(r, 0)
  <2>1. (2 * k) \div 2 = k
    OBVIOUS
  <2> QED
    BY <1>2, <2>1
<1>3. CASE Len(r) < 2
  <2>1. Needed(r, 0) = 2 * 1
    BY <1>0, <1>3 DEF Needed
  <2> QED
    BY <1>0, <1>2, <1>3, <2>1
<1>4. CASE Len(r) >= 2 /\ ~IsBig(r, 0)
  <2>1. Needed(r, 0) = 2 * r[2].length
    BY <1>0, <1>4 DEF Needed, get_req_len
  <2>2. r[2] \in Unit
    BY <1>0, <1>4
  <2>3. r[2].length \in Nat
    BY <2>2 DEF Unit
  <2>4. Needed(r, 0) # 0 \/ Big = {}
    BY <1>0, <1>4, <2>1 DEF IsBig, big_requests, get_req_len
  <2> QED
    BY <1>0, <1>2, <1>4, <2>1, <2>3, <2>4
<1>5. CASE Len(r) >= 2 /\ Len(r) < 4 /\ IsBig(r, 0)
  <2>1. Needed(r, 0) = 2 * 2
    BY <1>0, <1>5 DEF Needed
  <2> QED
    BY <1>0, <1>2, <1>5, <2>1
<1>6. CASE Len(r) >= 4 /\ IsBig(r, 0)
  <2>1. Needed(r, 0) = 2 * r[3].length
    BY <1>0, <1>6 DEF Needed, get_big_req_len
  <2>2. r[3] \in Unit
    BY <1>0, <1>6
  <2>3. r[3].length \in Nat
    BY <2>2 DEF Unit
  <2> QED
    BY <1>0, <1>2, <1>6, <2>1, <2>3
<1> QED
  BY <1>0, <1>3, <1>4, <1>5, <1>6

\* The two tests for a whole request agree, but for a request whose length
\* is 0 where there are no Big Requests.
LEMMA TestsAgree ==
  ASSUME NEW r \in Seq(Unit), Len(r) >= Needed(r, 0),
         Big # {} \/ r[2].length # 0
  PROVE  FullRequest(r, 0)
<1>0. Len(r) \in Nat /\ Len(r) - 0 = Len(r) /\ 0 + 2 = 2 /\ 0 + 3 = 3
  OBVIOUS
<1>1. Len(r) >= 2
  BY NeededFits
<1>2. r[2] \in Unit /\ r[2].length \in Nat
  <2>1. r[2] \in Unit
    BY <1>0, <1>1
  <2> QED
    BY <2>1 DEF Unit
<1>3. CASE IsBig(r, 0)
  <2>1. get_req_len(r, 0) = 0 /\ Big # {}
    BY <1>3 DEF IsBig, big_requests
  <2>2. Len(r) >= 4
    BY <1>0, <1>1, <1>3 DEF Needed
  <2>3. Needed(r, 0) = get_big_req_len(r, 0)
    BY <1>0, <1>1, <1>3, <2>2 DEF Needed
  <2> QED
    BY <1>0, <1>1, <2>1, <2>2, <2>3 DEF FullRequest, big_requests
<1>4. CASE ~IsBig(r, 0)
  <2>1. get_req_len(r, 0) # 0
    BY <1>0, <1>1, <1>2, <1>4 DEF IsBig, big_requests, get_req_len
  <2>2. Needed(r, 0) = get_req_len(r, 0)
    BY <1>0, <1>1, <1>4 DEF Needed
  <2> QED
    BY <1>0, <1>1, <2>1, <2>2 DEF FullRequest
<1> QED
  BY <1>3, <1>4

-----------------------------------------------------------------------------
(***************************************************************************)
(* What is done to one buffer.                                             *)
(***************************************************************************)
LEMMA SoundParts ==
  ASSUME NEW b, Sound(b)
  PROVE  /\ b.size \in 0..MAXBUFSIZE /\ b.size \in Nat /\ b.bufptr \in Nat
         /\ b.lenLastReq \in Nat /\ b.data \in Seq(Unit) /\ Len(b.data) \in Nat
         /\ Len(b.data) <= b.size /\ b.bufptr + b.lenLastReq \in Nat
         /\ b.bufptr + b.lenLastReq <= Len(b.data)
<1>1. b \in Room
  BY DEF Sound
<1>2. b.size \in 0..MAXBUFSIZE /\ b.bufptr \in Nat /\ b.lenLastReq \in Nat /\ b.data \in Seq(Unit)
  BY <1>1 DEF Room
<1>3. MAXBUFSIZE \in Nat
  BY ReaderAssumption
<1> QED
  BY <1>2, <1>3 DEF Sound

\* What is behind the request.
LEMMA RestFacts ==
  ASSUME NEW b, Sound(b)
  PROVE  /\ Rest(b) \in Seq(Unit)
         /\ Len(Rest(b)) = Len(b.data) - (b.bufptr + b.lenLastReq)
         /\ \A i \in 1..Len(Rest(b)) : Rest(b)[i] = b.data[b.bufptr + b.lenLastReq + i]
         /\ Spent(b) <=> Rest(b) = <<>>
<1> DEFINE p == b.bufptr + b.lenLastReq
<1>1. b.data \in Seq(Unit) /\ p \in Nat /\ p <= Len(b.data) /\ Len(b.data) \in Nat
  BY SoundParts
<1>2. Rest(b) = SubSeq(b.data, p + 1, Len(b.data))
  BY DEF Rest
<1> HIDE DEF p
<1>3. /\ Rest(b) \in Seq(Unit) /\ Len(Rest(b)) = Len(b.data) - p
      /\ \A i \in 1..Len(b.data) - p : Rest(b)[i] = b.data[p + i]
  BY <1>1, <1>2, Piece
<1>4. Rest(b) = <<>> <=> Len(Rest(b)) = 0
  BY <1>3
<1>5. Spent(b) <=> p = Len(b.data)
  BY DEF Spent, p
<1> QED
  BY <1>1, <1>3, <1>4, <1>5 DEF p

LEMMA Advanced ==
  ASSUME NEW b, Sound(b)
  PROVE  LET a == Advance(b) IN
         /\ Sound(a) /\ a.lenLastReq = 0 /\ a.size = b.size /\ a.data = b.data
         /\ a.bufptr = b.bufptr + b.lenLastReq
         /\ Rest(a) = Rest(b)
         /\ Len(a.data) - a.bufptr = Len(Rest(b))
         /\ Needed(a.data, a.bufptr) = Needed(Rest(b), 0)
         /\ HasRequest(a) <=> Len(Rest(b)) >= Needed(Rest(b), 0)
<1> DEFINE a == Advance(b)
<1>1. b \in Room
  BY DEF Sound
<1>2. /\ a.size = b.size /\ a.bufptr = b.bufptr + b.lenLastReq
      /\ a.lenLastReq = 0 /\ a.data = b.data
  BY <1>1 DEF Advance, Room
<1>3. a \in Room
  BY <1>1, SoundParts DEF Advance, Room
<1> HIDE DEF a
<1>4. a.bufptr + 0 = a.bufptr /\ a.bufptr \in Nat /\ a.bufptr <= Len(a.data)
  BY <1>2, SoundParts
<1>5. Sound(a)
  BY <1>2, <1>3, <1>4, SoundParts DEF Sound
<1>6. Rest(a) = Rest(b) /\ Rest(b) = SubSeq(a.data, a.bufptr + 1, Len(a.data))
  BY <1>2, <1>4 DEF Rest
<1>7. Len(a.data) - a.bufptr = Len(Rest(b))
  BY <1>2, RestFacts
<1>8. Needed(a.data, a.bufptr) = Needed(Rest(b), 0)
  <2>1. a.data \in Seq(Unit)
    BY <1>2, SoundParts
  <2> QED
    BY <1>4, <1>6, <2>1, LookedAt
<1>9. HasRequest(a) <=> Len(Rest(b)) >= Needed(Rest(b), 0)
  BY <1>7, <1>8 DEF HasRequest
<1> QED
  BY <1>2, <1>5, <1>6, <1>7, <1>8, <1>9 DEF a

\* Making room keeps what is in the buffer, and there is a buffer after it.
LEMMA Roomy ==
  ASSUME NEW b, Sound(b), b.lenLastReq = 0, ~TooBig(b)
  PROVE  LET m == MakeRoom(b) IN
         /\ Sound(m) /\ m.lenLastReq = 0 /\ m.size >= b.size /\ Rest(m) = Rest(b)
<1> DEFINE got == SubSeq(b.data, b.bufptr + 1, Len(b.data))
           needed == Needed(b.data, b.bufptr)
           m == [b EXCEPT !.data = got, !.bufptr = 0, !.size = IF needed > @ THEN needed ELSE @]
<1>1. /\ b \in Room /\ b.size \in Nat /\ b.size \in 0..MAXBUFSIZE /\ b.bufptr \in Nat
      /\ b.data \in Seq(Unit) /\ b.bufptr <= Len(b.data) /\ Len(b.data) <= b.size /\ Len(b.data) \in Nat
  <2>1. b.bufptr + 0 = b.bufptr
    BY SoundParts
  <2> QED
    BY <2>1, SoundParts DEF Sound
<1>2. /\ got \in Seq(Unit) /\ Len(got) = Len(b.data) - b.bufptr
      /\ needed = Needed(got, 0)
  BY <1>1, LookedAt
<1>5. MAXBUFSIZE \in Nat
  BY ReaderAssumption
<1>3. needed \in 0..MAXBUFSIZE
  <2>1. needed \in Nat
    <3> HIDE DEF got, needed
    <3> QED
      BY <1>2, NeededFits
  <2>2. ~(needed > MAXBUFSIZE)
    BY DEF TooBig
  <2> HIDE DEF needed
  <2> QED
    BY <1>5, <2>1, <2>2
<1> HIDE DEF got, needed
<1>4. /\ m.data = got /\ m.bufptr = 0 /\ m.lenLastReq = 0
      /\ m.size = IF needed > b.size THEN needed ELSE b.size
  BY <1>1 DEF Room
<1>6. m.size \in 0..MAXBUFSIZE /\ m.size >= b.size
  BY <1>1, <1>3, <1>4, <1>5
<1>7. m \in Room
  BY <1>1, <1>2, <1>6, <1>4 DEF Room
<1> HIDE DEF m
<1>8. Sound(m)
  BY <1>1, <1>2, <1>4, <1>5, <1>6, <1>7 DEF Sound
<1>9. Rest(m) = got /\ Rest(b) = got
  <2>1. SubSeq(got, 1, Len(got)) = got
    BY <1>2, SubSeqFull
  <2>2. m.bufptr + m.lenLastReq + 1 = 1 /\ b.bufptr + b.lenLastReq + 1 = b.bufptr + 1
    BY <1>1, <1>4
  <2> QED
    BY <1>4, <2>1, <2>2 DEF Rest, got
<1>10. CASE MakeRoom(b) = m
  BY <1>4, <1>6, <1>8, <1>9, <1>10
<1>11. CASE MakeRoom(b) = b
  BY <1>1, <1>11
<1> QED
  BY <1>10, <1>11 DEF MakeRoom, m, got, needed

LEMMA Filling ==
  ASSUME NEW b, Sound(b), b.lenLastReq = 0,
         NEW u \in Seq(Unit), Len(u) <= b.size - Len(b.data)
  PROVE  LET f == Filled(b, u) IN
         /\ Sound(f) /\ f.lenLastReq = 0 /\ (b.size > 0 => f.size > 0)
         /\ Rest(f) = Rest(b) \o u
<1> DEFINE data == b.data \o u
           size == IF b.size > BUFWATERMARK /\ Len(data) < BUFSIZE
                          /\ Needed(b.data, b.bufptr) < BUFSIZE THEN BUFSIZE ELSE b.size
           f == [b EXCEPT !.data = data, !.size = size]
<1>1. /\ b \in Room /\ b.size \in Nat /\ b.size \in 0..MAXBUFSIZE /\ b.bufptr \in Nat
      /\ b.data \in Seq(Unit) /\ b.bufptr <= Len(b.data) /\ Len(b.data) <= b.size /\ Len(b.data) \in Nat
  <2>1. b.bufptr + 0 = b.bufptr
    BY SoundParts
  <2> QED
    BY <2>1, SoundParts DEF Sound
<1>2. /\ data \in Seq(Unit) /\ Len(data) = Len(b.data) + Len(u)
      /\ \A i \in 1..Len(b.data) : data[i] = b.data[i]
      /\ \A i \in 1..Len(u) : data[Len(b.data) + i] = u[i]
  <2> DEFINE d == b.data
  <2>1. d \in Seq(Unit) /\ u \in Seq(Unit)
    BY <1>1
  <2> HIDE DEF d
  <2>2. /\ d \o u \in Seq(Unit) /\ Len(d \o u) = Len(d) + Len(u)
        /\ \A i \in 1..Len(d) : (d \o u)[i] = d[i]
        /\ \A i \in 1..Len(u) : (d \o u)[Len(d) + i] = u[i]
    BY <2>1, Joint
  <2> QED
    BY <2>2 DEF d
<1> HIDE DEF data
<1>3. /\ BUFSIZE \in 0..MAXBUFSIZE /\ BUFSIZE > 0 /\ MAXBUFSIZE \in Nat
      /\ Len(u) \in Nat
  BY ReaderAssumption
<1>4. size \in 0..MAXBUFSIZE /\ Len(data) <= size /\ (b.size > 0 => size > 0)
  BY <1>1, <1>2, <1>3
<1> HIDE DEF size
<1>5. /\ f.data = data /\ f.size = size /\ f.bufptr = b.bufptr /\ f.lenLastReq = 0
      /\ f \in Room
  BY <1>1, <1>2, <1>4 DEF Room
<1>6. f = Filled(b, u)
  BY DEF Filled, f, data, size
<1> HIDE DEF f
<1>7. f.bufptr + f.lenLastReq = b.bufptr /\ b.bufptr + b.lenLastReq = b.bufptr
  BY <1>1, <1>5
<1>8. Sound(f)
  <2>1. Len(f.data) <= f.size
    BY <1>4, <1>5
  <2>2. b.bufptr <= Len(b.data) /\ Len(data) = Len(b.data) + Len(u)
    BY <1>1, <1>2
  <2>3. f.bufptr + f.lenLastReq <= Len(f.data)
    BY <1>1, <1>3, <1>5, <1>7, <2>2
  <2> QED
    BY <1>5, <2>1, <2>3 DEF Sound
<1>9. Rest(f) = Rest(b) \o u
  <2> DEFINE v == Rest(b)
             w == Rest(f)
  <2>1. /\ v \in Seq(Unit) /\ Len(v) = Len(b.data) - b.bufptr
        /\ \A i \in 1..Len(v) : v[i] = b.data[b.bufptr + i]
    BY <1>7, RestFacts
  <2>2. /\ w \in Seq(Unit) /\ Len(w) = Len(data) - b.bufptr
        /\ \A i \in 1..Len(w) : w[i] = data[b.bufptr + i]
    BY <1>5, <1>7, <1>8, RestFacts
  <2> HIDE DEF v, w
  <2>3. /\ v \o u \in Seq(Unit) /\ Len(v \o u) = Len(v) + Len(u)
        /\ \A i \in 1..Len(v) : (v \o u)[i] = v[i]
        /\ \A i \in 1..Len(u) : (v \o u)[Len(v) + i] = u[i]
    <3>1. v \in Seq(Unit)
      BY <2>1
    <3> QED
      BY <3>1, Joint
  <2> DEFINE x == v \o u
  <2> HIDE DEF x
  <2>4. Len(w) = Len(x)
    BY <1>1, <1>2, <1>3, <2>1, <2>2, <2>3 DEF x
  <2>5. ASSUME NEW i \in 1..Len(w) PROVE w[i] = x[i]
    <3>1. CASE i <= Len(v)
      <4>1. b.bufptr + i \in 1..Len(b.data) /\ i \in 1..Len(v)
        BY <1>1, <2>1, <3>1
      <4> QED
        BY <1>2, <2>1, <2>2, <2>3, <4>1 DEF x
    <3>2. CASE ~(i <= Len(v))
      <4>1. /\ i - Len(v) \in 1..Len(u) /\ Len(v) + (i - Len(v)) = i
            /\ b.bufptr + i = Len(b.data) + (i - Len(v))
        <5>1. \A l, p, n \in Nat : p <= l =>
                \A k \in 1..(l + n) - p : ~(k <= l - p) =>
                  k - (l - p) \in 1..n /\ (l - p) + (k - (l - p)) = k /\ p + k = l + (k - (l - p))
          OBVIOUS
        <5>2. Len(v) = Len(b.data) - b.bufptr /\ Len(w) = (Len(b.data) + Len(u)) - b.bufptr
          BY <1>2, <2>1, <2>2
        <5>3. i \in 1..(Len(b.data) + Len(u)) - b.bufptr /\ ~(i <= Len(b.data) - b.bufptr)
          BY <3>2, <5>2
        <5>4. Len(b.data) \in Nat /\ b.bufptr \in Nat /\ Len(u) \in Nat /\ b.bufptr <= Len(b.data)
          BY <1>1, <1>3
        <5>5. LET z == Len(b.data) - b.bufptr IN
              i - z \in 1..Len(u) /\ z + (i - z) = i /\ b.bufptr + i = Len(b.data) + (i - z)
          BY <5>1, <5>3, <5>4
        <5> QED
          BY <5>2, <5>5
      <4>2. x[Len(v) + (i - Len(v))] = u[i - Len(v)]
        BY <2>3, <4>1 DEF x
      <4>3. data[Len(b.data) + (i - Len(v))] = u[i - Len(v)]
        BY <1>2, <4>1
      <4> QED
        BY <2>2, <4>1, <4>2, <4>3
    <3> QED
      BY <3>1, <3>2
  <2>6. w = x
    BY <2>2, <2>3, <2>4, <2>5, Alike DEF x
  <2> QED
    BY <2>6 DEF w, x, v
<1> QED
  BY <1>4, <1>5, <1>6, <1>8, <1>9

\* How long a request is that is returned, in units.
Size(r) ==
    LET words == Needed(r, 0) \div 2
    IN IF words > 0 THEN 2 * words ELSE IF big_requests THEN 4 ELSE 2

\* A buffer whose next request is returned.
Handing(b) == MoveHeader([b EXCEPT !.lenLastReq = Size(Rest(b))])

LEMMA SizeFits ==
  ASSUME NEW r \in Seq(Unit), Len(r) >= Needed(r, 0)
  PROVE  Size(r) \in Nat /\ Size(r) >= 2 /\ Size(r) <= Len(r)
<1> DEFINE words == Needed(r, 0) \div 2
<1>1. words \in Nat /\ 2 * words = Needed(r, 0) /\ Len(r) >= 2
  BY NeededFits
<1>2. words = 0 /\ Big # {} => Len(r) >= 4
  BY <1>1, NeededFits
<1>3. Size(r) = IF words > 0 THEN 2 * words ELSE IF Big # {} THEN 4 ELSE 2
  BY DEF Size, big_requests
<1> HIDE DEF words
<1> QED
  BY <1>1, <1>2, <1>3

LEMMA Moved ==
  ASSUME NEW b, Sound(b), b.lenLastReq >= 2
  PROVE  LET m == MoveHeader(b) IN
         /\ Sound(m) /\ m.size = b.size
         /\ m.bufptr + m.lenLastReq = b.bufptr + b.lenLastReq
         /\ Len(m.data) = Len(b.data)
         /\ ~IsBig(b.data, b.bufptr) => m = b
         /\ IsBig(b.data, b.bufptr) =>
              /\ m.bufptr = b.bufptr + 2 /\ m.lenLastReq = b.lenLastReq - 2
              /\ \A i \in 1..Len(b.data) :
                   m.data[i] = IF i \in {b.bufptr + 3, b.bufptr + 4} THEN b.data[i - 2] ELSE b.data[i]
<1>1. CASE ~IsBig(b.data, b.bufptr)
  BY <1>1 DEF MoveHeader
<1>2. CASE IsBig(b.data, b.bufptr)
  <2> DEFINE data == [i \in DOMAIN b.data |-> IF i \in {b.bufptr + 3, b.bufptr + 4} THEN b.data[i - 2] ELSE b.data[i]]
             m == [b EXCEPT !.data = data, !.bufptr = @ + 2, !.lenLastReq = @ - 2]
  <2>1. /\ b \in Room /\ b.data \in Seq(Unit) /\ Len(b.data) \in Nat /\ b.bufptr \in Nat
        /\ b.lenLastReq \in Nat /\ b.bufptr + b.lenLastReq <= Len(b.data) /\ Len(b.data) <= b.size
    BY SoundParts DEF Sound
  <2>2. DOMAIN b.data = 1..Len(b.data)
    BY <2>1
  <2>3. \A i \in 1..Len(b.data) : data[i] \in Unit
    <3> TAKE i \in 1..Len(b.data)
    <3>1. b.data[i] \in Unit
      BY <2>1
    <3>2. i \in {b.bufptr + 3, b.bufptr + 4} => i - 2 \in 1..Len(b.data)
      BY <2>1
    <3>3. i \in {b.bufptr + 3, b.bufptr + 4} => b.data[i - 2] \in Unit
      BY <2>1, <3>2
    <3> QED
      BY <2>2, <3>1, <3>3
  <2>4. data \in Seq(Unit) /\ Len(data) = Len(b.data)
    <3>1. data \in [1..Len(b.data) -> Unit]
      BY <2>2, <2>3
    <3> HIDE DEF data
    <3> QED
      BY <2>1, <3>1
  <2>5. \A i \in 1..Len(b.data) :
          data[i] = IF i \in {b.bufptr + 3, b.bufptr + 4} THEN b.data[i - 2] ELSE b.data[i]
    BY <2>2
  <2>6. MoveHeader(b) = m
    BY <1>2 DEF MoveHeader
  <2> HIDE DEF data
  <2>7. /\ m.data = data /\ m.bufptr = b.bufptr + 2 /\ m.lenLastReq = b.lenLastReq - 2
        /\ m.size = b.size
    BY <2>1 DEF Room
  <2>8. m.bufptr \in Nat /\ m.lenLastReq \in Nat /\ m.bufptr + m.lenLastReq = b.bufptr + b.lenLastReq
    BY <2>1, <2>7
  <2>9. m \in Room
    BY <2>1, <2>4, <2>7, <2>8 DEF Room
  <2> HIDE DEF m
  <2>10. Sound(m)
    BY <2>1, <2>4, <2>7, <2>8, <2>9 DEF Sound
  <2> QED
    BY <1>2, <2>4, <2>5, <2>6, <2>7, <2>8, <2>10
<1> QED
  BY <1>1, <1>2

LEMMA HandedOut ==
  ASSUME NEW b, Sound(b), b.lenLastReq = 0, Len(Rest(b)) >= Needed(Rest(b), 0)
  PROVE  LET x == Handing(b)
             r == Rest(b)
             next == b.bufptr + Size(r)
         IN /\ Sound(x) /\ x.size = b.size
            /\ x.bufptr + x.lenLastReq = next /\ Len(x.data) = Len(b.data)
            /\ IsBig(x.data, x.bufptr) => x.bufptr >= 2
            /\ IsBig(b.data, b.bufptr) <=> IsBig(r, 0)
            /\ ~IsBig(r, 0) =>
                 /\ x.lenLastReq = Size(r)
                 /\ \A i \in 1..Size(r) : x.data[x.bufptr + i] = r[i]
            /\ IsBig(r, 0) =>
                 /\ x.lenLastReq = Size(r) - 2
                 /\ \A i \in 1..Size(r) - 2 : x.data[x.bufptr + i] = IF i <= 2 THEN r[i] ELSE r[i + 2]
            /\ (IsBig(r, 0) => Size(r) >= 4) =>
                 /\ Rest(x) = SubSeq(r, Size(r) + 1, Len(r))
                 /\ FullRequest(b.data, next) <=> FullRequest(Rest(x), 0)
<1> DEFINE r == Rest(b)
           n == Size(r)
           y == [b EXCEPT !.lenLastReq = n]
           x == MoveHeader(y)
           p == b.bufptr
<1>1. /\ b \in Room /\ b.size \in Nat /\ b.data \in Seq(Unit) /\ Len(b.data) \in Nat
      /\ p \in Nat /\ p + b.lenLastReq = p /\ p <= Len(b.data) /\ Len(b.data) <= b.size
  <2>1. b.bufptr + 0 = b.bufptr
    BY SoundParts
  <2> QED
    BY <2>1, SoundParts DEF Sound
<1>2. /\ r \in Seq(Unit) /\ Len(r) = Len(b.data) - p
      /\ \A i \in 1..Len(r) : r[i] = b.data[p + i]
      /\ r = SubSeq(b.data, p + 1, Len(b.data))
  <2>1. /\ r \in Seq(Unit) /\ Len(r) = Len(b.data) - (p + b.lenLastReq)
        /\ \A i \in 1..Len(r) : r[i] = b.data[p + b.lenLastReq + i]
    BY RestFacts
  <2>2. r = SubSeq(b.data, p + b.lenLastReq + 1, Len(b.data))
    BY DEF Rest
  <2> HIDE DEF r
  <2> QED
    BY <1>1, <2>1, <2>2
<1>3. n \in Nat /\ n >= 2 /\ n <= Len(r)
  BY <1>2, SizeFits
<1>0. Len(r) \in Nat /\ p + n \in Nat /\ p + n <= Len(b.data)
  <2> HIDE DEF r, n, p
  <2>1. Len(r) \in Nat /\ Len(r) = Len(b.data) - p
    BY <1>2
  <2>2. Len(b.data) \in Nat /\ p \in Nat
    BY <1>1
  <2> QED
    BY <1>3, <2>1, <2>2
<1>4. IsBig(b.data, p) <=> IsBig(r, 0)
  <2> DEFINE data == b.data
  <2>1. data \in Seq(Unit) /\ p \in Nat /\ p <= Len(data) /\ r = SubSeq(data, p + 1, Len(data))
    BY <1>1, <1>2
  <2> HIDE DEF data, p, r
  <2>2. IsBig(data, p) <=> IsBig(SubSeq(data, p + 1, Len(data)), 0)
    BY <2>1, LookedAt
  <2> QED
    BY <2>1, <2>2 DEF data
<1>5. x = Handing(b)
  BY DEF Handing
<1> HIDE DEF r, n
<1>6. y \in Room /\ y.lenLastReq = n /\ y.data = b.data /\ y.bufptr = p /\ y.size = b.size
  BY <1>1, <1>3 DEF Room
<1> HIDE DEF y
<1>7. Sound(y) /\ y.lenLastReq >= 2
  <2>1. Len(b.data) <= b.size /\ p + n <= Len(b.data) /\ n >= 2
    BY <1>0, <1>1, <1>3
  <2> HIDE DEF p
  <2> QED
    BY <1>6, <2>1 DEF Sound
<1>8. /\ Sound(x) /\ x.size = b.size /\ x.bufptr + x.lenLastReq = p + n
      /\ Len(x.data) = Len(b.data)
      /\ ~IsBig(b.data, p) => x = y
      /\ IsBig(b.data, p) =>
           /\ x.bufptr = p + 2 /\ x.lenLastReq = n - 2
           /\ \A i \in 1..Len(b.data) :
                x.data[i] = IF i \in {p + 3, p + 4} THEN b.data[i - 2] ELSE b.data[i]
  <2>1. /\ Sound(x) /\ x.size = y.size
        /\ x.bufptr + x.lenLastReq = y.bufptr + y.lenLastReq /\ Len(x.data) = Len(y.data)
        /\ ~IsBig(y.data, y.bufptr) => x = y
        /\ IsBig(y.data, y.bufptr) =>
             /\ x.bufptr = y.bufptr + 2 /\ x.lenLastReq = y.lenLastReq - 2
             /\ \A i \in 1..Len(y.data) :
                  x.data[i] = IF i \in {y.bufptr + 3, y.bufptr + 4} THEN y.data[i - 2] ELSE y.data[i]
    BY <1>7, Moved
  <2> HIDE DEF x, p
  <2> QED
    BY <1>6, <2>1
<1> HIDE DEF x
<1>9. IsBig(x.data, x.bufptr) => x.bufptr >= 2
  BY <1>1, <1>6, <1>8
<1>10. ASSUME ~IsBig(r, 0)
       PROVE x.lenLastReq = n /\ \A i \in 1..n : x.data[x.bufptr + i] = r[i]
  <2>1. x.lenLastReq = n /\ x.data = b.data /\ x.bufptr = p
    BY <1>4, <1>6, <1>8, <1>10
  <2>2. \A i \in 1..n : i \in 1..Len(r)
    BY <1>0, <1>3
  <2> QED
    BY <1>2, <2>1, <2>2
<1>11. ASSUME IsBig(r, 0)
       PROVE /\ x.lenLastReq = n - 2
             /\ \A i \in 1..n - 2 : x.data[x.bufptr + i] = IF i <= 2 THEN r[i] ELSE r[i + 2]
  <2>1. ASSUME NEW i \in 1..n - 2
        PROVE x.data[x.bufptr + i] = IF i <= 2 THEN r[i] ELSE r[i + 2]
    <3>1. /\ p + 2 + i \in 1..Len(b.data) /\ i \in 1..Len(r) /\ i + 2 \in 1..Len(r)
          /\ p + 2 + i - 2 = p + i /\ p + 2 + i = p + (i + 2)
          /\ p + 2 + i \in {p + 3, p + 4} <=> i <= 2
      <4> HIDE DEF p
      <4>1. Len(r) \in Nat /\ Len(r) = Len(b.data) - p /\ Len(b.data) \in Nat /\ p \in Nat
        BY <1>0, <1>1, <1>2
      <4>2. \A l, k \in Nat : l = Len(b.data) - p /\ k >= 2 /\ k <= l =>
               \A j \in 1..k - 2 :
                 /\ p + 2 + j \in 1..Len(b.data) /\ j \in 1..l /\ j + 2 \in 1..l
                 /\ p + 2 + j - 2 = p + j /\ p + 2 + j = p + (j + 2)
                 /\ p + 2 + j \in {p + 3, p + 4} <=> j <= 2
        BY <4>1
      <4> QED
        BY <1>3, <4>1, <4>2
    <3>2. x.data[p + 2 + i] = IF i <= 2 THEN b.data[p + i] ELSE b.data[p + (i + 2)]
      <4>1. \A j \in 1..Len(b.data) :
              x.data[j] = IF j \in {p + 3, p + 4} THEN b.data[j - 2] ELSE b.data[j]
        BY <1>4, <1>8, <1>11
      <4> DEFINE j == p + 2 + i
      <4>2. /\ j \in 1..Len(b.data) /\ (j \in {p + 3, p + 4} <=> i <= 2)
            /\ j - 2 = p + i /\ j = p + (i + 2)
        <5>1. p \in Nat /\ i \in Nat
          BY <1>1
        <5> HIDE DEF p
        <5> QED
          BY <3>1, <5>1
      <4> HIDE DEF j
      <4>3. x.data[j] = IF i <= 2 THEN b.data[p + i] ELSE b.data[p + (i + 2)]
        BY <4>1, <4>2
      <4>4. j = p + 2 + i
        BY DEF j
      <4> QED
        BY <4>3, <4>4
    <3>3. r[i] = b.data[p + i] /\ r[i + 2] = b.data[p + (i + 2)]
      BY <1>2, <3>1
    <3>4. x.bufptr + i = p + 2 + i
      BY <1>4, <1>8, <1>11
    <3> QED
      BY <3>1, <3>2, <3>3, <3>4
  <2> QED
    BY <1>4, <1>8, <1>11, <2>1
<1>12. ASSUME IsBig(r, 0) => n >= 4
       PROVE /\ Rest(x) = SubSeq(r, n + 1, Len(r))
             /\ FullRequest(b.data, p + n) <=> FullRequest(Rest(x), 0)
  <2> DEFINE t == SubSeq(b.data, p + n + 1, Len(b.data))
             w == Rest(x)
  <2>1. p + n \in Nat /\ p + n <= Len(b.data)
    BY <1>0
  <2>2. /\ t \in Seq(Unit) /\ Len(t) = Len(b.data) - (p + n)
        /\ \A i \in 1..Len(t) : t[i] = b.data[p + n + i]
        /\ FullRequest(b.data, p + n) <=> FullRequest(t, 0)
    <3>1. b.data \in Seq(Unit)
      BY <1>1
    <3> QED
      BY <2>1, <3>1, LookedAt
  <2>3. SubSeq(r, n + 1, Len(r)) = t
    <3>1. b.data \in Seq(Unit) /\ p \in Nat /\ n \in Nat
      BY <1>1, <1>3
    <3>2. r = SubSeq(b.data, p + 1, Len(b.data))
      BY <1>2
    <3> QED
      BY <2>1, <3>1, <3>2, PieceOfEnd
  <2>4. /\ w \in Seq(Unit) /\ Len(w) = Len(x.data) - (p + n)
        /\ \A i \in 1..Len(w) : w[i] = x.data[p + n + i]
    <3>1. /\ w \in Seq(Unit) /\ Len(w) = Len(x.data) - (x.bufptr + x.lenLastReq)
          /\ \A i \in 1..Len(w) : w[i] = x.data[x.bufptr + x.lenLastReq + i]
      BY <1>8, RestFacts
    <3> HIDE DEF w, x, p
    <3> QED
      BY <1>8, <3>1
  <2> HIDE DEF t, w
  <2>5. ASSUME NEW i \in 1..Len(w) PROVE w[i] = t[i]
    <3>1. p + n + i \in 1..Len(b.data) /\ i \in 1..Len(t)
      BY <1>1, <1>8, <2>1, <2>2, <2>4
    <3>2. IsBig(r, 0) => p + n + i \notin {p + 3, p + 4}
      <4>1. p \in Nat /\ n \in Nat /\ i \in Nat /\ i >= 1 /\ (IsBig(r, 0) => n >= 4)
        BY <1>1, <1>3, <1>12, <3>1
      <4> HIDE DEF p
      <4> QED
        BY <4>1
    <3>3. x.data[p + n + i] = b.data[p + n + i]
      BY <1>4, <1>6, <1>8, <3>1, <3>2
    <3> QED
      BY <2>2, <2>4, <3>1, <3>3
  <2>6. Len(w) = Len(t)
    BY <1>8, <2>2, <2>4
  <2>7. w = t
    BY <2>2, <2>4, <2>5, <2>6, Alike
  <2> QED
    BY <2>2, <2>3, <2>7 DEF w
<1> QED
  BY <1>4, <1>5, <1>8, <1>9, <1>10, <1>11, <1>12 DEF n, r

LEMMA PuttingBack ==
  ASSUME NEW b, Sound(b), req_len \in Nat,
         IsBig(b.data, b.bufptr) => b.bufptr >= 2
  PROVE  /\ Sound(PutBack(b)) /\ PutBack(b).size = b.size
         /\ ~IsBig(b.data, b.bufptr) => PutBack(b) = [b EXCEPT !.lenLastReq = 0]
<1>1. /\ b \in Room /\ b.data \in Seq(Unit) /\ Len(b.data) \in Nat /\ b.bufptr \in Nat
      /\ b.lenLastReq \in Nat /\ b.bufptr + b.lenLastReq <= Len(b.data) /\ Len(b.data) <= b.size
  BY SoundParts DEF Sound
<1>2. CASE ~IsBig(b.data, b.bufptr)
  <2> DEFINE x == [b EXCEPT !.lenLastReq = 0]
  <2>1. /\ x \in Room /\ x.data = b.data /\ x.bufptr = b.bufptr /\ x.lenLastReq = 0
        /\ x.size = b.size
    BY <1>1 DEF Room
  <2>2. PutBack(b) = x
    BY <1>2 DEF PutBack
  <2> HIDE DEF x
  <2>3. Sound(x)
    BY <1>1, <2>1 DEF Sound
  <2> QED
    BY <2>1, <2>2, <2>3 DEF x
<1>3. CASE IsBig(b.data, b.bufptr)
  <2> DEFINE p == b.bufptr - 2
             data == [i \in DOMAIN b.data |->
                        IF i \in {p + 1, p + 2} THEN b.data[i + 2]
                        ELSE IF i = p + 3 THEN [b.data[i] EXCEPT !.length = req_len]
                        ELSE b.data[i]]
             x == [b EXCEPT !.data = data, !.bufptr = p, !.lenLastReq = 0]
  <2>1. p \in Nat /\ b.bufptr = p + 2 /\ p + 4 <= Len(b.data)
    <3>1. Len(b.data) - b.bufptr >= 2 /\ b.bufptr >= 2
      BY <1>3 DEF IsBig
    <3>2. \A l, k \in Nat : k >= 2 /\ l - k >= 2 => k - 2 \in Nat /\ k = k - 2 + 2 /\ k - 2 + 4 <= l
      OBVIOUS
    <3>3. Len(b.data) \in Nat /\ b.bufptr \in Nat
      BY <1>1
    <3> QED
      BY <3>1, <3>2, <3>3
  <2>2. DOMAIN b.data = 1..Len(b.data)
    BY <1>1
  <2>4. ASSUME NEW i \in 1..Len(b.data) PROVE data[i] \in Unit
    <3>1. b.data[i] \in Unit
      BY <1>1
    <3>2. i \in {p + 1, p + 2} => i + 2 \in 1..Len(b.data)
      BY <1>1, <2>1
    <3>3. i \in {p + 1, p + 2} => b.data[i + 2] \in Unit
      BY <1>1, <3>2
    <3>4. [b.data[i] EXCEPT !.length = req_len] \in Unit
      BY <3>1 DEF Unit
    <3> QED
      BY <2>2, <3>1, <3>3, <3>4
  <2>5. data \in Seq(Unit) /\ Len(data) = Len(b.data)
    <3> DEFINE n == Len(b.data)
    <3>1. data \in [1..n -> Unit]
      BY <2>2, <2>4
    <3>2. n \in Nat
      BY <1>1
    <3> HIDE DEF data, n
    <3>3. data \in Seq(Unit) /\ Len(data) = n
      BY <3>1, <3>2
    <3> QED
      BY <3>3 DEF n
  <2>6. PutBack(b) = x
    BY <1>3 DEF PutBack
  <2> HIDE DEF data, p
  <2>7. x.data = data /\ x.bufptr = p /\ x.lenLastReq = 0 /\ x.size = b.size /\ x \in Room
    BY <1>1, <2>1, <2>5 DEF Room
  <2> HIDE DEF x
  <2>8. Sound(x)
    BY <1>1, <2>1, <2>5, <2>7 DEF Sound
  <2> QED
    BY <1>3, <2>6, <2>7, <2>8
<1> QED
  BY <1>2, <1>3

-----------------------------------------------------------------------------
(***************************************************************************)
(* Who has which buffer.                                                   *)
(***************************************************************************)
Record == [input : [Client -> Buffer \union {0}], buf : [Buffer -> Room],
           FreeInputs : Seq(Buffer), AvailableInput : Client \union {0}]

LEMMA BufferNotZero == \A b \in Buffer : b # 0
BY DEF Buffer

\* Nothing has changed for client d.
Same(s, t, d) ==
    /\ t.input[d] = s.input[d]
    /\ t.input[d] # 0 => t.buf[t.input[d]] = s.buf[t.input[d]]

LEMMA SameLeft ==
  ASSUME NEW s, NEW t, NEW d, Same(s, t, d)
  PROVE  Left(t, d) = Left(s, d)
BY DEF Same, Left

LEMMA ClosedIsSound == Sound(Closed) /\ Closed.size = 0 /\ Spent(Closed)
<1>1. MAXBUFSIZE \in Nat
  BY ReaderAssumption
<1>2. <<>> \in Seq(Unit) /\ Len(<<>>) = 0
  OBVIOUS
<1>3. Closed.size = 0 /\ Closed.bufptr = 0 /\ Closed.lenLastReq = 0 /\ Closed.data = <<>>
  BY DEF Closed
<1>4. Closed \in Room
  BY <1>1, <1>2 DEF Closed, Room
<1> QED
  BY <1>2, <1>3, <1>4 DEF Sound, Spent

\* An emptied buffer of size n.
LEMMA EmptyIsSound ==
  ASSUME NEW n \in 0..MAXBUFSIZE
  PROVE  LET x == [Closed EXCEPT !.size = n] IN Sound(x) /\ x.size = n /\ Spent(x)
<1> DEFINE x == [Closed EXCEPT !.size = n]
<1>1. MAXBUFSIZE \in Nat
  BY ReaderAssumption
<1>2. <<>> \in Seq(Unit) /\ Len(<<>>) = 0
  OBVIOUS
<1>3. x.size = n /\ x.bufptr = 0 /\ x.lenLastReq = 0 /\ x.data = <<>>
  BY DEF Closed
<1>4. x \in Room
  BY <1>1, <1>2 DEF Closed, Room
<1> HIDE DEF x
<1>5. Sound(x) /\ Spent(x)
  BY <1>1, <1>2, <1>3, <1>4 DEF Sound, Spent
<1> QED
  BY <1>3, <1>5 DEF x

\* A client gives its buffer up, to nobody or to the free ones.
LEMMA GivenUp ==
  ASSUME NEW s, NEW t, NEW c \in Client, NEW x, Buffers(s), Owned(s),
         s.input[c] # 0, Sound(x),
         t \in Record,
         t.input = [s.input EXCEPT ![c] = 0],
         t.buf = [s.buf EXCEPT ![s.input[c]] = x],
         \/ x.size = 0 /\ t.FreeInputs = s.FreeInputs
         \/ x.size > 0 /\ Spent(x) /\ t.FreeInputs = <<s.input[c]>> \o s.FreeInputs
  PROVE  Buffers(t) /\ Owned(t) /\ t.input[c] = 0 /\ \A d \in Client \ {c} : Same(s, t, d)
<1> DEFINE b == s.input[c]
<1>1. /\ s.input \in [Client -> Buffer \union {0}] /\ s.buf \in [Buffer -> Room]
      /\ s.FreeInputs \in Seq(Buffer) /\ b \in Buffer
  BY DEF Buffers
<1>2. \A d \in Client : t.input[d] = IF d = c THEN 0 ELSE s.input[d]
  BY <1>1
<1>3. \A a \in Buffer : t.buf[a] = IF a = b THEN x ELSE s.buf[a]
  BY <1>1
<1>4. \A d \in Client \ {c} : s.input[d] # b
  BY <1>1 DEF Owned
<1>5. \A d \in Client \ {c} : s.input[d] # 0 => s.input[d] \in Buffer
  BY <1>1
<1>6. \A i \in 1..Len(s.FreeInputs) : s.FreeInputs[i] \in Buffer /\ s.FreeInputs[i] # b
  BY <1>1 DEF Owned
<1> HIDE DEF b
<1>7. \A d \in Client \ {c} : Same(s, t, d)
  BY <1>2, <1>3, <1>4, <1>5 DEF Same
<1>8. Buffers(t)
  <2>1. \A a \in Buffer : Sound(t.buf[a])
    BY <1>3 DEF Buffers
  <2> QED
    BY <2>1 DEF Buffers, Record
<1>9. CASE x.size = 0 /\ t.FreeInputs = s.FreeInputs
  <2>1. \A d, e \in Client : t.input[d] # 0 /\ t.input[d] = t.input[e] => d = e
    BY <1>2 DEF Owned
  <2>2. \A i, j \in 1..Len(t.FreeInputs) : t.FreeInputs[i] = t.FreeInputs[j] => i = j
    BY <1>9 DEF Owned
  <2>3. ASSUME NEW a \in Buffer
        PROVE  t.buf[a].size > 0 <=>
                 \/ \E i \in 1..Len(t.FreeInputs) : t.FreeInputs[i] = a
                 \/ \E d \in Client : t.input[d] = a
    <3>1. CASE a = b
      <4>1. ~(t.buf[a].size > 0)
        BY <1>3, <1>9, <3>1
      <4>2. \A d \in Client : t.input[d] # a
        BY <1>2, <1>4, <3>1, BufferNotZero
      <4> QED
        BY <1>6, <1>9, <3>1, <4>1, <4>2
    <3>2. CASE a # b
      <4>1. t.buf[a] = s.buf[a]
        BY <1>3, <3>2
      <4>2. \A d \in Client : t.input[d] = a <=> s.input[d] = a
        BY <1>2, <3>2, BufferNotZero DEF b
      <4>3. s.buf[a].size > 0 <=>
                 \/ \E i \in 1..Len(s.FreeInputs) : s.FreeInputs[i] = a
                 \/ \E d \in Client : s.input[d] = a
        BY DEF Owned
      <4> QED
        BY <1>9, <4>1, <4>2, <4>3
    <3> QED
      BY <3>1, <3>2
  <2>4. \A d \in Client, i \in 1..Len(t.FreeInputs) : t.input[d] # t.FreeInputs[i]
    BY <1>2, <1>6, <1>9, BufferNotZero DEF Owned
  <2>5. \A i \in 1..Len(t.FreeInputs) : Spent(t.buf[t.FreeInputs[i]])
    BY <1>3, <1>6, <1>9 DEF Owned
  <2>6. Owned(t)
    BY <2>1, <2>2, <2>3, <2>4, <2>5 DEF Owned
  <2> QED
    BY <1>2, <1>7, <1>8, <2>6
<1>10. CASE x.size > 0 /\ Spent(x) /\ t.FreeInputs = <<b>> \o s.FreeInputs
  <2> DEFINE f == s.FreeInputs
             g == t.FreeInputs
  <2>1. /\ Len(g) = Len(f) + 1 /\ g[1] = b /\ \A i \in 1..Len(f) : g[1 + i] = f[i]
    <3>1. /\ <<b>> \in Seq(Buffer) /\ Len(<<b>>) = 1 /\ <<b>>[1] = b
      BY <1>1 DEF b
    <3>2. /\ Len(<<b>> \o f) = Len(<<b>>) + Len(f)
          /\ \A i \in 1..Len(<<b>>) : (<<b>> \o f)[i] = <<b>>[i]
          /\ \A i \in 1..Len(f) : (<<b>> \o f)[Len(<<b>>) + i] = f[i]
      BY <1>1, <3>1, Joint
    <3> QED
      BY <1>1, <1>10, <3>1, <3>2
  <2>2. \A i \in 1..Len(g) : i # 1 => i - 1 \in 1..Len(f) /\ g[i] = f[i - 1]
    <3>1. Len(f) \in Nat /\ Len(g) = Len(f) + 1
      BY <1>1, <2>1
    <3>2. \A n \in Nat : \A i \in 1..n + 1 : i # 1 => i - 1 \in 1..n /\ 1 + (i - 1) = i
      OBVIOUS
    <3> QED
      BY <2>1, <3>1, <3>2
  <2>3. 1 \in 1..Len(g) /\ \A i \in 1..Len(f) : 1 + i \in 1..Len(g)
    BY <1>1, <2>1
  <2>4. \A i \in 1..Len(f) : f[i] \in Buffer /\ f[i] # b
    BY <1>6
  <2>5. \A i, j \in 1..Len(f) : f[i] = f[j] => i = j
    BY DEF Owned
  <2>6. \A d \in Client, i \in 1..Len(f) : s.input[d] # f[i]
    BY DEF Owned
  <2>7. \A i \in 1..Len(f) : Spent(s.buf[f[i]])
    BY DEF Owned
  <2> HIDE DEF f, g
  <2>8. \A d, e \in Client : t.input[d] # 0 /\ t.input[d] = t.input[e] => d = e
    BY <1>2 DEF Owned
  <2>9. \A i, j \in 1..Len(g) : g[i] = g[j] => i = j
    <3> TAKE i, j \in 1..Len(g)
    <3>1. i # 1 /\ j # 1 /\ g[i] = g[j] => i - 1 = j - 1
      <4>1. i # 1 => i - 1 \in 1..Len(f) /\ g[i] = f[i - 1]
        BY <2>2
      <4>2. j # 1 => j - 1 \in 1..Len(f) /\ g[j] = f[j - 1]
        BY <2>2
      <4> QED
        BY <2>5, <4>1, <4>2
    <3>2. i # 1 => g[i] # b
      BY <2>2, <2>4
    <3>3. j # 1 => g[j] # b
      BY <2>2, <2>4
    <3> QED
      BY <2>1, <3>1, <3>2, <3>3
  <2>10. ASSUME NEW a \in Buffer
         PROVE  t.buf[a].size > 0 <=>
                  \/ \E i \in 1..Len(g) : g[i] = a
                  \/ \E d \in Client : t.input[d] = a
    <3>1. CASE a = b
      BY <1>3, <1>10, <2>1, <2>3, <3>1
    <3>2. CASE a # b
      <4>1. t.buf[a] = s.buf[a]
        BY <1>3, <3>2
      <4>2. \A d \in Client : t.input[d] = a <=> s.input[d] = a
        BY <1>2, <3>2, BufferNotZero DEF b
      <4>3. s.buf[a].size > 0 <=>
                 \/ \E i \in 1..Len(f) : f[i] = a
                 \/ \E d \in Client : s.input[d] = a
        BY DEF Owned, f
      <4>4. (\E i \in 1..Len(g) : g[i] = a) <=> \E i \in 1..Len(f) : f[i] = a
        <5>1. ASSUME NEW i \in 1..Len(g), g[i] = a PROVE \E j \in 1..Len(f) : f[j] = a
          BY <2>1, <2>2, <3>2, <5>1
        <5>2. ASSUME NEW i \in 1..Len(f), f[i] = a PROVE \E j \in 1..Len(g) : g[j] = a
          BY <2>1, <2>3, <5>2
        <5> QED
          BY <5>1, <5>2
      <4> QED
        BY <4>1, <4>2, <4>3, <4>4
    <3> QED
      BY <3>1, <3>2
  <2>11. \A d \in Client, i \in 1..Len(g) : t.input[d] # g[i]
    <3> TAKE d \in Client, i \in 1..Len(g)
    <3>1. g[i] # 0
      BY <1>1, <2>1, <2>2, <2>4, BufferNotZero DEF b
    <3>2. d # c => s.input[d] # g[i]
      BY <1>4, <2>1, <2>2, <2>6
    <3> QED
      BY <1>2, <3>1, <3>2
  <2>12. \A i \in 1..Len(g) : Spent(t.buf[g[i]])
    <3> TAKE i \in 1..Len(g)
    <3>1. CASE i = 1
      BY <1>1, <1>3, <1>10, <2>1, <3>1 DEF b
    <3>2. CASE i # 1
      BY <1>3, <2>2, <2>4, <2>7, <3>2
    <3> QED
      BY <3>1, <3>2
  <2>13. Owned(t)
    BY <2>8, <2>9, <2>10, <2>11, <2>12 DEF Owned, g
  <2> QED
    BY <1>2, <1>7, <1>8, <2>13
<1> QED
  BY <1>9, <1>10 DEF b

\* What a client may be given: a free buffer, or one that was not allocated.
LEMMA Taken ==
  ASSUME NEW s, NEW t, NEW c \in Client, NEW b \in Buffer, Buffers(s), Owned(s),
         s.input[c] = 0, t \in Record,
         t.input = [s.input EXCEPT ![c] = b],
         \/ /\ s.FreeInputs # <<>> /\ b = Head(s.FreeInputs)
            /\ t.FreeInputs = Tail(s.FreeInputs) /\ t.buf = s.buf
         \/ /\ s.FreeInputs = <<>> /\ s.buf[b].size = 0
            /\ t.FreeInputs = <<>> /\ t.buf = [s.buf EXCEPT ![b] = NewBuffer]
  PROVE  /\ Buffers(t) /\ Owned(t) /\ t.input[c] = b /\ Spent(t.buf[b])
         /\ \A d \in Client \ {c} : Same(s, t, d)
<1>1. /\ s.input \in [Client -> Buffer \union {0}] /\ s.buf \in [Buffer -> Room]
      /\ s.FreeInputs \in Seq(Buffer) /\ b # 0
  BY BufferNotZero DEF Buffers
<1>2. \A d \in Client : t.input[d] = IF d = c THEN b ELSE s.input[d]
  BY <1>1
<1>3. \A a \in Buffer : s.buf[a].size > 0 <=>
         \/ \E i \in 1..Len(s.FreeInputs) : s.FreeInputs[i] = a
         \/ \E d \in Client : s.input[d] = a
  BY DEF Owned
<1>4. CASE /\ s.FreeInputs # <<>> /\ b = Head(s.FreeInputs)
           /\ t.FreeInputs = Tail(s.FreeInputs) /\ t.buf = s.buf
  <2> DEFINE f == s.FreeInputs
             g == t.FreeInputs
  <2>1. /\ Len(f) \in Nat /\ Len(f) >= 1 /\ Len(g) = Len(f) - 1 /\ f[1] = b
        /\ \A i \in 1..Len(g) : g[i] = f[i + 1]
    BY <1>1, <1>4
  <2>2. \A i, j \in 1..Len(f) : f[i] = f[j] => i = j
    BY DEF Owned
  <2>3. \A d \in Client, i \in 1..Len(f) : s.input[d] # f[i]
    BY DEF Owned
  <2>4. \A i \in 1..Len(f) : Spent(s.buf[f[i]])
    BY DEF Owned
  <2> HIDE DEF f, g
  <2>5. 1 \in 1..Len(f) /\ \A i \in 1..Len(g) : i + 1 \in 1..Len(f) /\ i + 1 # 1
    BY <2>1
  <2>6. \A i \in 1..Len(f) : i # 1 => i - 1 \in 1..Len(g) /\ g[i - 1] = f[i]
    BY <2>1
  <2>7. \A d \in Client : s.input[d] # b
    BY <2>1, <2>3, <2>5
  <2>8. \A i \in 1..Len(g) : g[i] # b
    BY <2>1, <2>2, <2>5
  <2>9. Owned(t)
    <3>1. \A d, e \in Client : t.input[d] # 0 /\ t.input[d] = t.input[e] => d = e
      BY <1>2, <2>7 DEF Owned
    <3>2. \A i, j \in 1..Len(g) : g[i] = g[j] => i = j
      BY <2>1, <2>2, <2>5
    <3>3. ASSUME NEW a \in Buffer
          PROVE  t.buf[a].size > 0 <=>
                   \/ \E i \in 1..Len(g) : g[i] = a
                   \/ \E d \in Client : t.input[d] = a
      <4>1. s.buf[a].size > 0 <=>
              \/ \E i \in 1..Len(f) : f[i] = a
              \/ \E d \in Client : s.input[d] = a
        BY <1>3 DEF f
      <4>2. CASE a = b
        <5>1. s.buf[a].size > 0
          BY <2>1, <2>5, <4>1, <4>2
        <5>2. t.input[c] = a
          BY <1>2, <4>2
        <5> QED
          BY <1>4, <5>1, <5>2
      <4>3. CASE a # b
        <5>1. (\E i \in 1..Len(g) : g[i] = a) <=> \E i \in 1..Len(f) : f[i] = a
          <6>1. ASSUME NEW i \in 1..Len(g), g[i] = a PROVE \E j \in 1..Len(f) : f[j] = a
            BY <2>1, <2>5, <6>1
          <6>2. ASSUME NEW i \in 1..Len(f), f[i] = a PROVE \E j \in 1..Len(g) : g[j] = a
            BY <2>1, <2>6, <4>3, <6>2
          <6> QED
            BY <6>1, <6>2
        <5>2. (\E d \in Client : t.input[d] = a) <=> \E d \in Client : s.input[d] = a
          <6>1. a # 0
            BY BufferNotZero
          <6> QED
            BY <1>2, <4>3, <6>1
        <5> QED
          BY <1>4, <4>1, <5>1, <5>2
      <4> QED
        BY <4>2, <4>3
    <3>4. \A d \in Client, i \in 1..Len(g) : t.input[d] # g[i]
      BY <1>2, <2>1, <2>3, <2>5, <2>8
    <3>5. \A i \in 1..Len(g) : Spent(t.buf[g[i]])
      BY <1>4, <2>1, <2>4, <2>5
    <3> QED
      BY <3>1, <3>2, <3>3, <3>4, <3>5 DEF Owned, g
  <2>10. Buffers(t)
    BY <1>4 DEF Buffers, Record
  <2>11. \A d \in Client \ {c} : Same(s, t, d)
    BY <1>2, <1>4 DEF Same
  <2>12. Spent(t.buf[b])
    BY <1>4, <2>1, <2>4, <2>5
  <2> QED
    BY <1>2, <2>9, <2>10, <2>11, <2>12
<1>5. CASE /\ s.FreeInputs = <<>> /\ s.buf[b].size = 0
           /\ t.FreeInputs = <<>> /\ t.buf = [s.buf EXCEPT ![b] = NewBuffer]
  <2>1. Sound(NewBuffer) /\ NewBuffer.size > 0 /\ Spent(NewBuffer)
    <3>1. BUFSIZE \in 0..MAXBUFSIZE /\ BUFSIZE > 0
      BY ReaderAssumption
    <3> QED
      BY <3>1, EmptyIsSound DEF NewBuffer
  <2>2. \A a \in Buffer : t.buf[a] = IF a = b THEN NewBuffer ELSE s.buf[a]
    BY <1>1, <1>5
  <2>3. Len(s.FreeInputs) = 0 /\ Len(t.FreeInputs) = 0
    BY <1>5
  <2>4. 1..Len(s.FreeInputs) = {} /\ 1..Len(t.FreeInputs) = {}
    BY <2>3
  <2>5. \A d \in Client : s.input[d] # b
    BY <1>3, <1>5
  <2>6. Buffers(t)
    <3>1. \A a \in Buffer : Sound(t.buf[a])
      BY <2>1, <2>2 DEF Buffers
    <3> QED
      BY <3>1 DEF Buffers, Record
  <2>7. Owned(t)
    <3>1. \A d, e \in Client : t.input[d] # 0 /\ t.input[d] = t.input[e] => d = e
      BY <1>2, <2>5 DEF Owned
    <3>3. ASSUME NEW a \in Buffer
          PROVE  t.buf[a].size > 0 <=> \E d \in Client : t.input[d] = a
      <4>1. CASE a = b
        BY <1>2, <2>1, <2>2, <4>1
      <4>2. CASE a # b
        <5>1. s.buf[a].size > 0 <=> \E d \in Client : s.input[d] = a
          BY <1>3, <2>4
        <5>2. a # 0
          BY BufferNotZero
        <5>3. (\E d \in Client : t.input[d] = a) <=> \E d \in Client : s.input[d] = a
          <6>1. \A d \in Client : t.input[d] = a => d # c
            BY <1>2, <4>2
          <6>2. \A d \in Client : s.input[d] = a => d # c
            BY <5>2
          <6> QED
            BY <1>2, <6>1, <6>2
        <5> QED
          BY <2>2, <4>2, <5>1, <5>3
      <4> QED
        BY <4>1, <4>2
    <3> QED
      BY <2>4, <3>1, <3>3 DEF Owned
  <2>8. \A d \in Client \ {c} : Same(s, t, d)
    <3>1. \A d \in Client \ {c} : t.input[d] = s.input[d]
      BY <1>2
    <3>2. \A d \in Client \ {c} : s.input[d] # 0 => s.input[d] \in Buffer /\ s.input[d] # b
      BY <1>1, <2>5
    <3> QED
      BY <2>2, <3>1, <3>2 DEF Same
  <2> QED
    BY <1>2, <2>1, <2>2, <2>6, <2>7, <2>8
<1> QED
  BY <1>4, <1>5

\* A client keeps its buffer, with other contents.
LEMMA Kept ==
  ASSUME NEW s, NEW t, NEW c \in Client, NEW x, Buffers(s), Owned(s),
         s.input[c] # 0, Sound(x), x.size > 0, t \in Record,
         t.input = s.input, t.buf = [s.buf EXCEPT ![s.input[c]] = x],
         t.FreeInputs = s.FreeInputs
  PROVE  /\ Buffers(t) /\ Owned(t) /\ t.buf[t.input[c]] = x
         /\ \A d \in Client \ {c} : Same(s, t, d)
<1> DEFINE b == s.input[c]
<1>1. /\ s.input \in [Client -> Buffer \union {0}] /\ s.buf \in [Buffer -> Room]
      /\ s.FreeInputs \in Seq(Buffer) /\ b \in Buffer
  BY DEF Buffers
<1>2. \A a \in Buffer : t.buf[a] = IF a = b THEN x ELSE s.buf[a]
  BY <1>1
<1>3. \A d \in Client \ {c} : s.input[d] # b
  BY <1>1 DEF Owned
<1>4. \A d \in Client \ {c} : s.input[d] # 0 => s.input[d] \in Buffer
  BY <1>1
<1>5. \A i \in 1..Len(s.FreeInputs) : s.FreeInputs[i] \in Buffer /\ s.FreeInputs[i] # b
  BY <1>1 DEF Owned
<1>6. s.buf[b].size > 0
  BY <1>1 DEF Owned
<1> HIDE DEF b
<1>7. \A d \in Client \ {c} : Same(s, t, d)
  BY <1>2, <1>3, <1>4 DEF Same
<1>8. Buffers(t)
  <2>1. \A a \in Buffer : Sound(t.buf[a])
    BY <1>2 DEF Buffers
  <2> QED
    BY <2>1 DEF Buffers, Record
<1>9. \A a \in Buffer : t.buf[a].size > 0 <=> s.buf[a].size > 0
  BY <1>2, <1>6
<1>10. \A i \in 1..Len(s.FreeInputs) : Spent(t.buf[s.FreeInputs[i]])
  BY <1>2, <1>5 DEF Owned
<1>11. Owned(t)
  BY <1>9, <1>10 DEF Owned
<1> QED
  BY <1>1, <1>2, <1>7, <1>8, <1>11 DEF b

\* There is a buffer for everybody: whoever has none finds one, free or not
\* yet allocated.
LEMMA BufferLeft ==
  ASSUME NEW s, NEW c \in Client, Buffers(s), Owned(s), s.input[c] = 0, s.FreeInputs = <<>>
  PROVE  \E b \in Buffer : s.buf[b].size = 0
<1> SUFFICES ASSUME \A b \in Buffer : s.buf[b].size # 0
             PROVE  FALSE
  OBVIOUS
<1> DEFINE T == {d \in Client \ {c} : s.input[d] # 0}
           f == [d \in T |-> s.input[d]]
<1>1. /\ s.input \in [Client -> Buffer \union {0}] /\ s.buf \in [Buffer -> Room]
  BY DEF Buffers
<1>2. IsFiniteSet(Client)
  BY ReaderAssumption
<1>3. IsFiniteSet(Client \ {c}) /\ Cardinality(Client \ {c}) = Cardinality(Client) - 1
  BY <1>2, FS_RemoveElement
<1>4. IsFiniteSet(T) /\ Cardinality(T) <= Cardinality(Client \ {c})
  <2>1. T \subseteq Client \ {c}
    OBVIOUS
  <2> QED
    BY <1>3, <2>1, FS_Subset
<1>5. \A b \in Buffer : \E d \in T : s.input[d] = b
  <2> TAKE b \in Buffer
  <2>1. s.buf[b].size \in Nat
    <3>1. Sound(s.buf[b])
      BY DEF Buffers
    <3> QED
      BY <3>1, SoundParts
  <2>2. s.buf[b].size > 0
    BY <2>1
  <2>3. 1..Len(s.FreeInputs) = {}
    BY SMT
  <2>4. PICK d \in Client : s.input[d] = b
    BY <2>2, <2>3 DEF Owned
  <2>5. b # 0
    BY BufferNotZero
  <2> QED
    BY <2>4, <2>5
<1>6. f \in Surjection(T, Buffer)
  <2>1. f \in [T -> Buffer]
    BY <1>1
  <2>2. \A b \in Buffer : \E d \in T : f[d] = b
    BY <1>5
  <2> QED
    BY <2>1, <2>2 DEF Surjection
<1>7. Cardinality(Buffer) <= Cardinality(T)
  <2> HIDE DEF f, T
  <2> QED
    BY <1>4, <1>6, FS_Surjection
<1>8. Cardinality(Buffer) = Cardinality(Client)
  <2>1. Cardinality(Client) \in Nat
    BY <1>2, FS_CardinalityType
  <2> QED
    BY <2>1, FS_Interval DEF Buffer
<1>9. Cardinality(Client) \in Nat /\ Cardinality(T) \in Nat
  BY <1>2, <1>4, FS_CardinalityType
<1> QED
  BY <1>3, <1>4, <1>7, <1>8, <1>9

\* ReleaseAvailable takes a buffer only from a client with nothing left in it.
LEMMA Released ==
  ASSUME NEW s, NEW c \in Client, Buffers(s), Owned(s), Available(s)
  PROVE  LET t == ReleaseAvailable(s, c) IN
         /\ Buffers(t) /\ Owned(t) /\ t.AvailableInput = 0
         /\ Same(s, t, c)
         /\ \A d \in Client : Left(t, d) = Left(s, d)
<1> DEFINE t == ReleaseAvailable(s, c)
           a == s.AvailableInput
           b == s.input[a]
<1>1. s \in Record /\ a \in Client \union {0}
  BY DEF Buffers, Record
<1>2. 0 \notin Client
  BY ReaderAssumption
<1>3. CASE a \in {0, c}
  <2>1. t = [s EXCEPT !.AvailableInput = 0]
    BY <1>3 DEF ReleaseAvailable
  <2> HIDE DEF t
  <2>2. /\ t.input = s.input /\ t.buf = s.buf /\ t.FreeInputs = s.FreeInputs
        /\ t.AvailableInput = 0 /\ t \in Record
    BY <1>1, <2>1 DEF Record
  <2>3. Buffers(t)
    BY <2>2 DEF Buffers, Record
  <2>4. Owned(t)
    BY <2>2 DEF Owned
  <2>5. \A d \in Client : Same(s, t, d)
    BY <2>2 DEF Same
  <2> QED
    BY <2>2, <2>3, <2>4, <2>5, SameLeft DEF t
<1>4. ASSUME a \notin {0, c}, NEW x, Sound(x), t \in Record, t.AvailableInput = 0,
             t.input = [s.input EXCEPT ![a] = 0], t.buf = [s.buf EXCEPT ![b] = x],
             \/ x.size = 0 /\ t.FreeInputs = s.FreeInputs
             \/ x.size > 0 /\ Spent(x) /\ t.FreeInputs = <<b>> \o s.FreeInputs
      PROVE  /\ Buffers(t) /\ Owned(t) /\ Same(s, t, c)
             /\ \A d \in Client : Left(t, d) = Left(s, d)
  <2>1. a \in Client /\ c # a
    BY <1>1, <1>4
  <2>2. b # 0 /\ Spent(s.buf[b])
    BY <1>4 DEF Available
  <2> HIDE DEF t
  <2>3. Buffers(t) /\ Owned(t) /\ t.input[a] = 0 /\ \A d \in Client \ {a} : Same(s, t, d)
    BY <1>4, <2>1, <2>2, GivenUp
  <2>4. Left(t, a) = <<>> /\ Left(s, a) = <<>>
    <3>1. b \in Buffer
      BY <1>1, <2>1, <2>2 DEF Record
    <3>2. Sound(s.buf[b])
      BY <3>1 DEF Buffers
    <3> QED
      BY <2>2, <2>3, <3>2, RestFacts DEF Left
  <2>5. \A d \in Client \ {a} : Left(t, d) = Left(s, d)
    BY <2>3, SameLeft
  <2> QED
    BY <2>1, <2>3, <2>4, <2>5
<1>5. CASE a \notin {0, c} /\ s.buf[b].size > BUFWATERMARK
  <2>1. t = [s EXCEPT !.AvailableInput = 0, !.input[a] = 0, !.buf[b] = Closed]
    BY <1>5 DEF ReleaseAvailable
  <2>2. /\ t.input = [s.input EXCEPT ![a] = 0] /\ t.buf = [s.buf EXCEPT ![b] = Closed]
        /\ t.FreeInputs = s.FreeInputs /\ t.AvailableInput = 0
    BY <1>1, <2>1 DEF Record
  <2>3. t \in Record
    <3>1. Closed \in Room
      BY ClosedIsSound DEF Sound
    <3>2. /\ [s.input EXCEPT ![a] = 0] \in [Client -> Buffer \union {0}]
          /\ [s.buf EXCEPT ![b] = Closed] \in [Buffer -> Room]
      BY <1>1, <3>1 DEF Record
    <3> HIDE DEF t
    <3> QED
      BY <1>1, <2>1, <3>2 DEF Record
  <2> QED
    BY <1>4, <1>5, <2>2, <2>3, ClosedIsSound
<1>6. CASE a \notin {0, c} /\ ~(s.buf[b].size > BUFWATERMARK)
  <2>1. t = [s EXCEPT !.AvailableInput = 0, !.input[a] = 0, !.FreeInputs = <<b>> \o @]
    BY <1>6 DEF ReleaseAvailable
  <2>2. b # 0 /\ Spent(s.buf[b]) /\ a \in Client
    BY <1>1, <1>6 DEF Available
  <2>3. b \in Buffer
    BY <1>1, <2>2 DEF Record
  <2>4. Sound(s.buf[b])
    BY <2>3 DEF Buffers
  <2>5. s.buf[b].size > 0
    BY <2>2, <2>3 DEF Owned
  <2>6. s.buf = [s.buf EXCEPT ![b] = s.buf[b]]
    BY <1>1, <2>3 DEF Record
  <2>7. /\ t.input = [s.input EXCEPT ![a] = 0] /\ t.buf = s.buf
        /\ t.FreeInputs = <<b>> \o s.FreeInputs /\ t.AvailableInput = 0
    BY <1>1, <2>1 DEF Record
  <2>8. t.FreeInputs \in Seq(Buffer)
    <3>1. <<b>> \in Seq(Buffer) /\ s.FreeInputs \in Seq(Buffer)
      BY <1>1, <2>3 DEF Record
    <3> QED
      BY <2>7, <3>1, Joint
  <2>9. t \in Record
    <3>1. [s.input EXCEPT ![a] = 0] \in [Client -> Buffer \union {0}]
      BY <1>1, <2>2 DEF Record
    <3>2. <<b>> \o s.FreeInputs \in Seq(Buffer)
      BY <2>7, <2>8
    <3> QED
      BY <1>1, <2>1, <3>1, <3>2 DEF Record
  <2> QED
    BY <1>4, <1>6, <2>2, <2>4, <2>5, <2>6, <2>7, <2>9
<1> QED
  BY <1>1, <1>2, <1>3, <1>5, <1>6, <1>4

LEMMA Given ==
  ASSUME NEW s, NEW c \in Client, Buffers(s), Owned(s), s.AvailableInput = 0
  PROVE  LET t == TakeBuffer(s, c) IN
         /\ Buffers(t) /\ Owned(t) /\ t.AvailableInput = 0 /\ t.input[c] \in Buffer
         /\ \A d \in Client : Left(t, d) = Left(s, d)
         /\ \A d \in Client \ {c} : Same(s, t, d)
         /\ s.input[c] # 0 => t = s
<1> DEFINE t == TakeBuffer(s, c)
<1>1. s \in Record
  BY DEF Buffers, Record
<1>2. CASE s.input[c] # 0
  <2>1. t = s
    BY <1>2 DEF TakeBuffer
  <2>2. s.input[c] \in Buffer
    BY <1>1, <1>2 DEF Record
  <2> HIDE DEF t
  <2>3. \A d \in Client : Same(s, s, d)
    BY DEF Same
  <2> QED
    BY <2>1, <2>2, <2>3 DEF t
<1>3. ASSUME s.input[c] = 0, NEW b \in Buffer, t \in Record, t.AvailableInput = 0,
             t.input = [s.input EXCEPT ![c] = b],
             \/ /\ s.FreeInputs # <<>> /\ b = Head(s.FreeInputs)
                /\ t.FreeInputs = Tail(s.FreeInputs) /\ t.buf = s.buf
             \/ /\ s.FreeInputs = <<>> /\ s.buf[b].size = 0
                /\ t.FreeInputs = <<>> /\ t.buf = [s.buf EXCEPT ![b] = NewBuffer]
      PROVE  /\ Buffers(t) /\ Owned(t) /\ t.AvailableInput = 0 /\ t.input[c] \in Buffer
             /\ \A d \in Client : Left(t, d) = Left(s, d)
             /\ \A d \in Client \ {c} : Same(s, t, d)
  <2> HIDE DEF t
  <2>1. /\ Buffers(t) /\ Owned(t) /\ t.input[c] = b /\ Spent(t.buf[b])
        /\ \A d \in Client \ {c} : Same(s, t, d)
    BY <1>3, Taken
  <2>2. Left(t, c) = <<>> /\ Left(s, c) = <<>>
    <3>1. Sound(t.buf[b])
      BY <2>1 DEF Buffers
    <3>2. b # 0
      BY BufferNotZero
    <3> QED
      BY <1>3, <2>1, <3>1, <3>2, RestFacts DEF Left
  <2>3. \A d \in Client \ {c} : Left(t, d) = Left(s, d)
    BY <2>1, SameLeft
  <2> QED
    BY <1>3, <2>1, <2>2, <2>3
<1>4. CASE s.input[c] = 0 /\ s.FreeInputs # <<>>
  <2> DEFINE b == Head(s.FreeInputs)
  <2>1. t = [s EXCEPT !.input[c] = b, !.FreeInputs = Tail(@)]
    BY <1>4 DEF TakeBuffer
  <2>2. b \in Buffer /\ Tail(s.FreeInputs) \in Seq(Buffer)
    <3>1. s.FreeInputs \in Seq(Buffer) /\ s.FreeInputs # <<>>
      BY <1>1, <1>4 DEF Record
    <3> QED
      BY <3>1
  <2> HIDE DEF b
  <2>3. [s.input EXCEPT ![c] = b] \in [Client -> Buffer \union {0}]
    BY <1>1, <2>2 DEF Record
  <2> HIDE DEF t
  <2>4. t \in Record
    BY <1>1, <2>1, <2>2, <2>3 DEF Record
  <2>5. /\ t.input = [s.input EXCEPT ![c] = b] /\ t.buf = s.buf
        /\ t.FreeInputs = Tail(s.FreeInputs) /\ t.AvailableInput = 0
    BY <1>1, <2>1 DEF Record
  <2> QED
    BY <1>3, <1>4, <2>2, <2>4, <2>5 DEF b, t
<1>5. CASE s.input[c] = 0 /\ s.FreeInputs = <<>>
  <2> DEFINE b == CHOOSE x \in Buffer : s.buf[x].size = 0
  <2>1. t = [s EXCEPT !.input[c] = b, !.buf[b] = NewBuffer]
    BY <1>5 DEF TakeBuffer
  <2>2. b \in Buffer /\ s.buf[b].size = 0
    BY <1>5, BufferLeft
  <2>3. NewBuffer \in Room
    <3>1. BUFSIZE \in 0..MAXBUFSIZE
      BY ReaderAssumption
    <3> QED
      BY <3>1, EmptyIsSound DEF NewBuffer, Sound
  <2> HIDE DEF b
  <2>4. /\ [s.input EXCEPT ![c] = b] \in [Client -> Buffer \union {0}]
        /\ [s.buf EXCEPT ![b] = NewBuffer] \in [Buffer -> Room]
    BY <1>1, <2>2, <2>3 DEF Record
  <2> HIDE DEF t
  <2>5. t \in Record
    BY <1>1, <2>1, <2>4 DEF Record
  <2>6. /\ t.input = [s.input EXCEPT ![c] = b] /\ t.buf = [s.buf EXCEPT ![b] = NewBuffer]
        /\ t.FreeInputs = <<>> /\ t.AvailableInput = 0
    BY <1>1, <1>5, <2>1 DEF Record
  <2> QED
    BY <1>3, <1>5, <2>2, <2>5, <2>6 DEF t
<1> QED
  BY <1>2, <1>4, <1>5

\* What a client looks at when it is its turn is what it had left.
LEMMA Begun ==
  ASSUME NEW c \in Client, Buffers(os), Owned(os), Available(os)
  PROVE  LET s == WithBuffer(c)
             b == Current(c)
         IN /\ Buffers(s) /\ Owned(s) /\ s.AvailableInput = 0
            /\ s.input[c] \in Buffer /\ Sound(s.buf[s.input[c]])
            /\ \A d \in Client : Left(s, d) = Left(os, d)
            /\ Sound(b) /\ b.lenLastReq = 0 /\ b.size > 0
            /\ Rest(b) = Left(os, c)
            /\ HasRequest(b) <=> Len(Left(os, c)) >= Needed(Left(os, c), 0)
<1> DEFINE s == WithBuffer(c)
           b == Current(c)
           r == ReleaseAvailable(os, c)
           x == s.buf[s.input[c]]
<1>1. /\ Buffers(r) /\ Owned(r) /\ r.AvailableInput = 0
      /\ \A d \in Client : Left(r, d) = Left(os, d)
  BY Released
<1>2. s = TakeBuffer(r, c)
  BY DEF WithBuffer
<1> HIDE DEF r, s
<1>3. /\ Buffers(s) /\ Owned(s) /\ s.AvailableInput = 0 /\ s.input[c] \in Buffer
      /\ \A d \in Client : Left(s, d) = Left(os, d)
  BY <1>1, <1>2, Given
<1>4. b = Advance(x)
  BY DEF Current, s
<1>5. Sound(x) /\ x.size > 0
  <2>1. Sound(x)
    BY <1>3 DEF Buffers
  <2>2. x.size > 0
    BY <1>3 DEF Owned
  <2> QED
    BY <2>1, <2>2
<1>6. Rest(x) = Left(os, c)
  BY <1>3, BufferNotZero DEF Left
<1> HIDE DEF b, x
<1>7. /\ Sound(b) /\ b.lenLastReq = 0 /\ b.size > 0 /\ Rest(b) = Rest(x)
      /\ HasRequest(b) <=> Len(Rest(x)) >= Needed(Rest(x), 0)
  BY <1>4, <1>5, Advanced
<1> QED
  BY <1>3, <1>5, <1>6, <1>7 DEF s, b, x

\* A client's buffer is left with these contents, for others to take or not.
Leaving(c, b, a) == [Keep(c, b) EXCEPT !.AvailableInput = a]

LEMMA Keeping ==
  ASSUME NEW c \in Client, Buffers(os), Owned(os), Available(os),
         NEW b, Sound(b), b.size > 0,
         NEW a \in {0, c}, a = c => Spent(b)
  PROVE  LET t == Leaving(c, b, a) IN
         /\ Buffers(t) /\ Owned(t) /\ Available(t)
         /\ t.input[c] # 0 /\ t.buf[t.input[c]] = b
         /\ Left(t, c) = Rest(b)
         /\ \A d \in Client \ {c} : Left(t, d) = Left(os, d)
<1> DEFINE s == WithBuffer(c)
           t == Leaving(c, b, a)
<1>1. /\ Buffers(s) /\ Owned(s) /\ s.AvailableInput = 0
      /\ s.input[c] \in Buffer
      /\ \A d \in Client : Left(s, d) = Left(os, d)
  BY Begun
<1>2. t = [s EXCEPT !.buf[s.input[c]] = b, !.AvailableInput = a]
  <2>1. Keep(c, b) = [s EXCEPT !.buf[s.input[c]] = b]
    BY DEF Keep
  <2>2. s \in Record
    BY <1>1 DEF Buffers, Record
  <2> HIDE DEF s
  <2> QED
    BY <2>1, <2>2 DEF Record, Leaving
<1> HIDE DEF s, t
<1>3. /\ t \in Record /\ t.input = s.input /\ t.buf = [s.buf EXCEPT ![s.input[c]] = b]
      /\ t.FreeInputs = s.FreeInputs /\ t.AvailableInput = a
  <2>1. s \in Record /\ b \in Room /\ a \in Client \union {0}
    BY <1>1 DEF Buffers, Record, Sound
  <2>2. [s.buf EXCEPT ![s.input[c]] = b] \in [Buffer -> Room]
    BY <2>1 DEF Record
  <2> QED
    BY <1>2, <2>1, <2>2 DEF Record
<1>4. s.input[c] # 0
  BY <1>1, BufferNotZero
<1>5. /\ Buffers(t) /\ Owned(t) /\ t.buf[t.input[c]] = b
      /\ \A d \in Client \ {c} : Same(s, t, d)
  BY <1>1, <1>3, <1>4, Kept
<1>6. Available(t)
  BY <1>3, <1>4, <1>5 DEF Available
<1>7. Left(t, c) = Rest(b)
  BY <1>3, <1>4, <1>5 DEF Left
<1>8. \A d \in Client \ {c} : Left(t, d) = Left(os, d)
  BY <1>1, <1>5, SameLeft
<1> QED
  BY <1>3, <1>4, <1>5, <1>6, <1>7, <1>8 DEF t

\* A client goes, and its buffer with it.
LEMMA Freed ==
  ASSUME NEW s, NEW c \in Client, Buffers(s), Owned(s), Available(s)
  PROVE  LET t == FreeOsBuffers(s, c) IN
         /\ Buffers(t) /\ Owned(t) /\ Available(t) /\ t.input[c] = 0
         /\ \A d \in Client \ {c} : Same(s, t, d)
<1> DEFINE b == s.input[c]
           a == IF s.AvailableInput = c THEN 0 ELSE s.AvailableInput
           u == [s EXCEPT !.input[c] = 0, !.AvailableInput = IF @ = c THEN 0 ELSE @]
           t == FreeOsBuffers(s, c)
<1>1. s \in Record /\ a \in Client \union {0}
  BY DEF Buffers, Record
<1>2. u = [s EXCEPT !.input[c] = 0, !.AvailableInput = a] /\ b \in Buffer \union {0}
  BY <1>1 DEF Record
<1>3. t = IF b = 0 THEN u
          ELSE IF s.FreeInputs # <<>> THEN [u EXCEPT !.buf[b] = Closed]
          ELSE [u EXCEPT !.FreeInputs = <<b>>, !.buf[b] = [Closed EXCEPT !.size = s.buf[b].size]]
  BY DEF FreeOsBuffers
<1>4. /\ u \in Record /\ u.input = [s.input EXCEPT ![c] = 0] /\ u.buf = s.buf
      /\ u.FreeInputs = s.FreeInputs /\ u.AvailableInput = a
  <2>1. [s.input EXCEPT ![c] = 0] \in [Client -> Buffer \union {0}]
    BY <1>1 DEF Record
  <2> HIDE DEF u
  <2> QED
    BY <1>1, <1>2, <2>1 DEF Record
<1> HIDE DEF u, t
<1>5. ASSUME t.AvailableInput = a, \A d \in Client \ {c} : Same(s, t, d)
      PROVE  Available(t)
  <2>1. a # 0 => a \in Client \ {c} /\ a = s.AvailableInput
    BY <1>1
  <2>2. a # 0 => t.input[a] = s.input[a] /\ t.buf[t.input[a]] = s.buf[s.input[a]]
    BY <1>5, <2>1 DEF Available, Same
  <2> HIDE DEF a
  <2> QED
    BY <1>5, <2>1, <2>2 DEF Available
<1>6. CASE b = 0
  <2>1. t = u
    BY <1>3, <1>6
  <2>2. t.input = s.input
    BY <1>1, <1>4, <1>6, <2>1 DEF Record
  <2>3. Buffers(t) /\ Owned(t)
    BY <1>4, <2>1, <2>2 DEF Buffers, Owned, Record
  <2>4. \A d \in Client \ {c} : Same(s, t, d)
    BY <1>4, <2>1, <2>2 DEF Same
  <2> QED
    BY <1>4, <1>5, <1>6, <2>1, <2>2, <2>3, <2>4 DEF t
<1>7. CASE b # 0 /\ s.FreeInputs # <<>>
  <2>1. t = [u EXCEPT !.buf[b] = Closed]
    BY <1>3, <1>7
  <2>2. Closed \in Room
    BY ClosedIsSound DEF Sound
  <2>3. [s.buf EXCEPT ![b] = Closed] \in [Buffer -> Room]
    BY <1>1, <2>2 DEF Record
  <2>4. /\ t \in Record /\ t.input = [s.input EXCEPT ![c] = 0] /\ t.AvailableInput = a
        /\ t.buf = [s.buf EXCEPT ![b] = Closed] /\ t.FreeInputs = s.FreeInputs
    <3> HIDE DEF a, b
    <3> QED
      BY <1>4, <2>1, <2>3 DEF Record
  <2>5. Buffers(t) /\ Owned(t) /\ t.input[c] = 0 /\ \A d \in Client \ {c} : Same(s, t, d)
    BY <1>7, <2>4, ClosedIsSound, GivenUp
  <2> QED
    BY <1>5, <2>4, <2>5 DEF t
<1>8. CASE b # 0 /\ s.FreeInputs = <<>>
  <2> DEFINE x == [Closed EXCEPT !.size = s.buf[b].size]
  <2>1. t = [u EXCEPT !.FreeInputs = <<b>>, !.buf[b] = x]
    BY <1>3, <1>8
  <2>2. b \in Buffer
    BY <1>2, <1>8
  <2>3. Sound(s.buf[b]) /\ s.buf[b].size > 0
    <3>1. s.buf[b].size > 0
      BY <2>2 DEF Owned
    <3> QED
      BY <2>2, <3>1 DEF Buffers
  <2>4. Sound(x) /\ x.size > 0 /\ Spent(x)
    <3>1. s.buf[b].size \in 0..MAXBUFSIZE
      BY <2>3, SoundParts
    <3> QED
      BY <2>3, <3>1, EmptyIsSound
  <2> HIDE DEF x
  <2>5. [s.buf EXCEPT ![b] = x] \in [Buffer -> Room] /\ <<b>> \in Seq(Buffer)
    BY <1>1, <2>2, <2>4 DEF Record, Sound
  <2>6. /\ t \in Record /\ t.input = [s.input EXCEPT ![c] = 0] /\ t.AvailableInput = a
        /\ t.buf = [s.buf EXCEPT ![b] = x] /\ t.FreeInputs = <<b>>
    <3> HIDE DEF a, b
    <3> QED
      BY <1>4, <2>1, <2>5 DEF Record
  <2>7. <<b>> \o s.FreeInputs = <<b>>
    BY <1>8, <2>5, ConcatEmptySeq
  <2>8. Buffers(t) /\ Owned(t) /\ t.input[c] = 0 /\ \A d \in Client \ {c} : Same(s, t, d)
    BY <1>8, <2>4, <2>6, <2>7, GivenUp
  <2> QED
    BY <1>5, <2>6, <2>8 DEF t
<1> QED
  BY <1>6, <1>7, <1>8

-----------------------------------------------------------------------------
(***************************************************************************)
(* The steps, in terms of what clients have left in their buffers.         *)
(***************************************************************************)
LEMMA Ahead ==
  ASSUME NEW b, Sound(b), b.lenLastReq = 0
  PROVE  /\ Needed(b.data, b.bufptr) = Needed(Rest(b), 0)
         /\ HasRequest(b) <=> Len(Rest(b)) >= Needed(Rest(b), 0)
         /\ Rest(b) = SubSeq(b.data, b.bufptr + 1, Len(b.data))
         /\ Len(Rest(b)) = Len(b.data) - b.bufptr
<1>1. /\ b.data \in Seq(Unit) /\ b.bufptr \in Nat /\ b.bufptr + b.lenLastReq = b.bufptr
      /\ b.bufptr <= Len(b.data)
  <2>1. b.bufptr + 0 = b.bufptr
    BY SoundParts
  <2> QED
    BY <2>1, SoundParts
<1>2. Rest(b) = SubSeq(b.data, b.bufptr + 1, Len(b.data))
  BY <1>1 DEF Rest
<1>3. /\ Needed(b.data, b.bufptr) = Needed(Rest(b), 0)
      /\ Len(Rest(b)) = Len(b.data) - b.bufptr
  <2> DEFINE data == b.data
             p == b.bufptr
             r == SubSeq(data, p + 1, Len(data))
  <2>1. data \in Seq(Unit) /\ p \in Nat /\ p <= Len(data)
    BY <1>1
  <2> HIDE DEF data, p
  <2>2. Needed(data, p) = Needed(r, 0) /\ Len(r) = Len(data) - p
    BY <2>1, LookedAt
  <2> QED
    BY <1>2, <2>2 DEF data, p
<1> QED
  BY <1>2, <1>3 DEF HasRequest

LEMMA ReturnStep ==
  ASSUME NEW c \in Client, NEW b, Buffers(os), Owned(os), Available(os),
         Sound(b), b.lenLastReq = 0, b.size > 0, HasRequest(b), ReturnRequest(c, b)
  PROVE  LET r == Rest(b)
             words == Needed(r, 0) \div 2
             y == os'.buf[os'.input[c]]
         IN /\ Buffers(os') /\ Owned(os') /\ Available(os')
            /\ turn' = c
            /\ req_len' = IF ~IsBig(r, 0) THEN words ELSE IF words = 0 THEN MAXCARD32 ELSE words - 1
            /\ lost' = IF IsBig(r, 0) /\ Needed(r, 0) < 4 THEN lost \union {c} ELSE lost
            /\ os'.input[c] # 0 /\ (IsBig(y.data, y.bufptr) => y.bufptr >= 2)
            /\ \A d \in Client \ {c} : Left(os', d) = Left(os, d)
            /\ \A d : d # c => (d \in ClientsWithInput' <=> d \in ClientsWithInput)
            /\ ~IsBig(r, 0) =>
                 /\ y.lenLastReq = Size(r)
                 /\ \A i \in 1..Size(r) : y.data[y.bufptr + i] = r[i]
            /\ IsBig(r, 0) =>
                 /\ y.lenLastReq = Size(r) - 2
                 /\ \A i \in 1..Size(r) - 2 : y.data[y.bufptr + i] = IF i <= 2 THEN r[i] ELSE r[i + 2]
            /\ (IsBig(r, 0) => Size(r) >= 4) =>
                 /\ Left(os', c) = SubSeq(r, Size(r) + 1, Len(r))
                 /\ FullRequest(Left(os', c), 0) => c \in ClientsWithInput'
<1> DEFINE r == Rest(b)
           words == Needed(r, 0) \div 2
           next == b.bufptr + Size(r)
           x == Handing(b)
           a == IF next = Len(b.data) THEN c ELSE 0
<1>1. Needed(b.data, b.bufptr) = Needed(r, 0) /\ Len(r) >= Needed(r, 0)
  BY Ahead
<1>2. /\ Sound(x) /\ x.size = b.size
      /\ x.bufptr + x.lenLastReq = next /\ Len(x.data) = Len(b.data)
      /\ IsBig(x.data, x.bufptr) => x.bufptr >= 2
      /\ IsBig(b.data, b.bufptr) <=> IsBig(r, 0)
      /\ ~IsBig(r, 0) =>
           /\ x.lenLastReq = Size(r)
           /\ \A i \in 1..Size(r) : x.data[x.bufptr + i] = r[i]
      /\ IsBig(r, 0) =>
           /\ x.lenLastReq = Size(r) - 2
           /\ \A i \in 1..Size(r) - 2 : x.data[x.bufptr + i] = IF i <= 2 THEN r[i] ELSE r[i + 2]
      /\ (IsBig(r, 0) => Size(r) >= 4) =>
           /\ Rest(x) = SubSeq(r, Size(r) + 1, Len(r))
           /\ FullRequest(b.data, next) <=> FullRequest(Rest(x), 0)
  BY <1>1, HandedOut
<1>3. /\ os' = Leaving(c, x, a)
      /\ ClientsWithInput' = IF FullRequest(b.data, next) THEN ClientsWithInput \union {c}
                              ELSE ClientsWithInput \ {c}
      /\ req_len' = IF ~IsBig(b.data, b.bufptr) THEN words
                    ELSE IF words = 0 THEN MAXCARD32 ELSE words - 1
      /\ lost' = IF IsBig(b.data, b.bufptr) /\ Needed(r, 0) < 4 THEN lost \union {c} ELSE lost
      /\ turn' = c
  BY <1>1 DEF ReturnRequest, Handing, Size, Leaving, Short
<1> HIDE DEF x
<1>4. a \in {0, c} /\ (a = c => Spent(x))
  <2>1. 0 # c
    BY ReaderAssumption
  <2> QED
    BY <1>2, <2>1 DEF Spent
<1> HIDE DEF a
<1>5. /\ Buffers(os') /\ Owned(os') /\ Available(os')
      /\ os'.input[c] # 0 /\ os'.buf[os'.input[c]] = x
      /\ Left(os', c) = Rest(x)
      /\ \A d \in Client \ {c} : Left(os', d) = Left(os, d)
  BY <1>2, <1>3, <1>4, Keeping
<1>6. \A d : d # c => (d \in ClientsWithInput' <=> d \in ClientsWithInput)
  BY <1>3
<1>7. ASSUME IsBig(r, 0) => Size(r) >= 4
      PROVE /\ Left(os', c) = SubSeq(r, Size(r) + 1, Len(r))
            /\ FullRequest(Left(os', c), 0) => c \in ClientsWithInput'
  <2>1. Rest(x) = SubSeq(r, Size(r) + 1, Len(r)) /\ (FullRequest(b.data, next) <=> FullRequest(Rest(x), 0))
    BY <1>2, <1>7
  <2> QED
    BY <1>3, <1>5, <2>1
<1> HIDE DEF r, words, next
<1>8. /\ req_len' = IF ~IsBig(r, 0) THEN words ELSE IF words = 0 THEN MAXCARD32 ELSE words - 1
      /\ lost' = IF IsBig(r, 0) /\ Needed(r, 0) < 4 THEN lost \union {c} ELSE lost
  BY <1>2, <1>3
<1> QED
  BY <1>2, <1>3, <1>5, <1>6, <1>7, <1>8 DEF r, words

\* The buffer is nobody else's to take.
LEMMA KeepIsLeaving ==
  ASSUME NEW c \in Client, Buffers(os), Owned(os), Available(os), NEW b
  PROVE  Keep(c, b) = Leaving(c, b, 0)
<1> DEFINE s == WithBuffer(c)
<1>1. s \in Record /\ s.AvailableInput = 0
  BY Begun DEF Buffers, Record
<1>2. Keep(c, b) = [s EXCEPT !.buf[s.input[c]] = b]
  BY DEF Keep
<1> HIDE DEF s
<1> QED
  BY <1>1, <1>2 DEF Record, Leaving

LEMMA NothingStep ==
  ASSUME NEW c \in Client, NEW b, Buffers(os), Owned(os), Available(os),
         Sound(b), b.lenLastReq = 0, b.size > 0, ReturnNothing(c, b)
  PROVE  /\ Buffers(os') /\ Owned(os') /\ Available(os')
         /\ turn' = 0 /\ req_len' = -1 /\ lost' = lost
         /\ Left(os', c) = Rest(b)
         /\ \A d \in Client \ {c} : Left(os', d) = Left(os, d)
         /\ ClientsWithInput' = ClientsWithInput \ {c}
<1>1. /\ os' = Keep(c, b) /\ turn' = 0 /\ req_len' = -1 /\ lost' = lost
      /\ ClientsWithInput' = ClientsWithInput \ {c}
  BY DEF ReturnNothing
<1>2. Keep(c, b) = Leaving(c, b, 0)
  BY KeepIsLeaving
<1>3. 0 # c
  BY ReaderAssumption
<1>4. /\ Buffers(os') /\ Owned(os') /\ Available(os')
      /\ Left(os', c) = Rest(b)
      /\ \A d \in Client \ {c} : Left(os', d) = Left(os, d)
  <2> DEFINE t == Leaving(c, b, 0)
  <2>1. /\ Buffers(t) /\ Owned(t) /\ Available(t) /\ Left(t, c) = Rest(b)
        /\ \A d \in Client \ {c} : Left(t, d) = Left(os, d)
    BY <1>3, Keeping
  <2>2. os' = t
    BY <1>1, <1>2
  <2> HIDE DEF t
  <2> QED
    BY <2>1, <2>2
<1> QED
  BY <1>1, <1>4

\* A read: k units come from the socket, behind what was left.
Read(c, b, k) ==
    /\ Sound(b) /\ b.lenLastReq = 0 /\ b.size > 0
    /\ Rest(b) = Left(os, c) \o SubSeq(socket[c], 1, k)
    /\ socket' = [socket EXCEPT ![c] = SubSeq(@, k + 1, Len(@))]
    /\ turn \in {0, c} /\ req_len = -1
    /\ UNCHANGED <<sent, done>>
    /\ \/ HasRequest(b) /\ ReturnRequest(c, b)
       \/ ~HasRequest(b) /\ ReturnNothing(c, b)

LEMMA Reads ==
  ASSUME NEW c \in Client, Safe, ReadBuffered(c) \/ ReadSocket(c) \/ ReadNothing(c)
  PROVE  \E b, k : k \in 0..Len(socket[c]) /\ Read(c, b, k)
<1>1. socket \in [Client -> Seq(Unit)] /\ socket[c] \in Seq(Unit)
  BY DEF Safe, Clients
<1>2. turn \in {0, c} /\ req_len = -1
  BY DEF Safe, Turns, ReadBuffered, ReadSocket, ReadNothing, MustRead, Chosen
<1> DEFINE b == Current(c)
           m == MakeRoom(b)
<1>3. /\ Sound(b) /\ b.lenLastReq = 0 /\ b.size > 0 /\ Rest(b) = Left(os, c)
      /\ HasRequest(b) <=> Len(Rest(b)) >= Needed(Rest(b), 0)
  BY Begun DEF Safe
<1> HIDE DEF b
<1>4. ASSUME ~TooBig(b)
      PROVE  /\ Sound(m) /\ m.lenLastReq = 0 /\ m.size > 0 /\ m.size \in Nat
             /\ Rest(m) = Rest(b) /\ (HasRequest(m) <=> HasRequest(b))
  <2>1. Sound(m) /\ m.lenLastReq = 0 /\ m.size >= b.size /\ Rest(m) = Rest(b)
    BY <1>3, <1>4, Roomy
  <2> HIDE DEF m
  <2>2. m.size \in Nat /\ b.size \in Nat
    BY <1>3, <2>1, SoundParts
  <2>3. HasRequest(m) <=> HasRequest(b)
    BY <1>3, <2>1, Ahead
  <2> QED
    BY <1>3, <2>1, <2>2, <2>3
<1> HIDE DEF m
<1>7. ASSUME UNCHANGED socket
      PROVE  /\ socket' = [socket EXCEPT ![c] = SubSeq(@, 0 + 1, Len(@))]
             /\ Rest(b) = Left(os, c) \o SubSeq(socket[c], 1, 0)
             /\ 0 \in 0..Len(socket[c])
  <2>1. SubSeq(socket[c], 0 + 1, Len(socket[c])) = socket[c]
    <3>1. 0 + 1 = 1
      OBVIOUS
    <3> QED
      BY <1>1, <3>1, SubSeqFull
  <2>2. SubSeq(socket[c], 1, 0) = <<>>
    BY <1>1, SubSeqEmpty
  <2>3. Rest(b) \in Seq(Unit)
    BY <1>3, RestFacts
  <2>4. Rest(b) \o <<>> = Rest(b)
    BY <2>3, ConcatEmptySeq
  <2>5. socket' = [socket EXCEPT ![c] = SubSeq(@, 0 + 1, Len(@))]
    BY <1>1, <1>7, <2>1
  <2>6. 0 \in 0..Len(socket[c])
    BY <1>1
  <2> QED
    BY <1>3, <2>2, <2>4, <2>5, <2>6
<1>8. CASE ReadBuffered(c)
  <2>1. /\ HasRequest(b) /\ ReturnRequest(c, b) /\ UNCHANGED <<sent, done>> /\ UNCHANGED socket
    BY <1>8 DEF ReadBuffered, requests, b
  <2>2. Read(c, b, 0)
    BY <1>2, <1>3, <1>7, <2>1 DEF Read
  <2> QED
    BY <1>7, <2>1, <2>2
<1>9. CASE ReadNothing(c)
  <2>1. /\ ~HasRequest(b) /\ ~TooBig(b) /\ ReturnNothing(c, m)
        /\ UNCHANGED <<sent, done>> /\ UNCHANGED socket
    BY <1>9 DEF ReadNothing, MustRead, requests, b, m
  <2>2. Read(c, m, 0)
    BY <1>2, <1>3, <1>4, <1>7, <2>1 DEF Read
  <2> QED
    BY <1>7, <2>1, <2>2
<1>10. CASE ReadSocket(c)
  <2>0. /\ Sound(m) /\ m.lenLastReq = 0 /\ m.size > 0 /\ m.size \in Nat
        /\ Rest(m) = Rest(b)
    BY <1>4, <1>10 DEF ReadSocket, MustRead, b
  <2>1. PICK n \in 1..Min({Len(socket[c]), m.size - Len(m.data)}) :
          LET f == Filled(m, SubSeq(socket[c], 1, n)) IN
          /\ socket' = [socket EXCEPT ![c] = SubSeq(@, n + 1, Len(@))]
          /\ IF HasRequest(f) THEN ReturnRequest(c, f) ELSE ReturnNothing(c, f)
    BY <1>10 DEF ReadSocket, b, m
  <2> DEFINE u == SubSeq(socket[c], 1, n)
             f == Filled(m, u)
  <2>2. /\ Len(socket[c]) \in Nat /\ m.size - Len(m.data) \in Nat
    BY <1>1, <2>0, SoundParts
  <2>3. n \in Nat /\ n <= Len(socket[c]) /\ n <= m.size - Len(m.data)
    <3>1. \A x, y \in Nat : Min({x, y}) \in {x, y} /\ Min({x, y}) <= x /\ Min({x, y}) <= y
      <4> TAKE x, y \in Nat
      <4>1. \E z \in {x, y} : \A w \in {x, y} : z <= w
        OBVIOUS
      <4> DEFINE z == CHOOSE z \in {x, y} : \A w \in {x, y} : z <= w
      <4>2. z \in {x, y} /\ \A w \in {x, y} : z <= w
        BY <4>1
      <4>3. Min({x, y}) = z
        BY DEF Min
      <4> QED
        BY <4>2, <4>3
    <3> QED
      BY <2>2, <3>1
  <2>4. u \in Seq(Unit) /\ Len(u) = n
    <3>1. 0 + 1 = 1 /\ n - 0 = n /\ 0 <= n
      BY <2>3
    <3> QED
      BY <1>1, <2>3, <3>1, Piece
  <2>5. /\ socket' = [socket EXCEPT ![c] = SubSeq(@, n + 1, Len(@))]
        /\ IF HasRequest(f) THEN ReturnRequest(c, f) ELSE ReturnNothing(c, f)
    BY <2>1
  <2> HIDE DEF u
  <2>6. Sound(f) /\ f.lenLastReq = 0 /\ f.size > 0 /\ Rest(f) = Rest(m) \o u
    BY <2>0, <2>3, <2>4, Filling
  <2> HIDE DEF f
  <2>7. UNCHANGED <<sent, done>>
    BY <1>10 DEF ReadSocket
  <2>8. Read(c, f, n)
    BY <1>2, <1>3, <2>0, <2>5, <2>6, <2>7 DEF Read, u
  <2>9. n \in 0..Len(socket[c])
    BY <2>2, <2>3
  <2> QED
    BY <2>8, <2>9
<1> QED
  BY <1>8, <1>9, <1>10

-----------------------------------------------------------------------------
(***************************************************************************)
(* Who has which buffer, for any requests.                                 *)
(***************************************************************************)
LEMMA UnitsOf ==
  ASSUME NEW r \in Request
  PROVE  /\ r.len \in Nat /\ r.big \in BOOLEAN
         /\ Units(r) \in Nat /\ Units(r) >= 2 /\ Units(r) >= 2 * r.len
         /\ r.big => r.len \in Big /\ Units(r) >= 4 /\ (r.len >= 2 => Units(r) = 2 * r.len)
         /\ ~r.big => r.len \in Plain /\ Units(r) = IF r.len = 0 THEN 2 ELSE 2 * r.len
<1>1. r.big \in BOOLEAN /\ (r.big => r.len \in Big) /\ (~r.big => r.len \in Plain)
  BY DEF Request
<1>2. r.len \in Nat
  BY <1>1, ReaderAssumption
<1>3. /\ r.big => Units(r) = IF 2 * r.len < 4 THEN 4 ELSE 2 * r.len
      /\ ~r.big => Units(r) = IF 2 * r.len < 2 THEN 2 ELSE 2 * r.len
  BY DEF Units
<1> QED
  BY <1>1, <1>2, <1>3

LEMMA EncodedUnits ==
  ASSUME NEW c \in Client, NEW n \in Nat, NEW r \in Request
  PROVE  LET e == Encoded(c, n, r) IN
         /\ e \in Seq(Unit) /\ Len(e) = Units(r)
         /\ \A i \in 1..Units(r) :
              e[i].length = IF i = (IF r.big THEN 3 ELSE 2) THEN r.len
                            ELSE IF r.big /\ i \in {2, 4} THEN 0 ELSE Noise
<1> DEFINE u == Units(r)
           e == Encoded(c, n, r)
<1>1. u \in Nat
  BY UnitsOf
<1>2. Noise \in Nat /\ r.len \in Nat
  BY ReaderAssumption, UnitsOf
<1>3. e \in [1..u -> Unit]
  BY <1>1, <1>2 DEF Encoded, Unit
<1>4. \A i \in 1..u :
        e[i].length = IF i = (IF r.big THEN 3 ELSE 2) THEN r.len
                      ELSE IF r.big /\ i \in {2, 4} THEN 0 ELSE Noise
  BY DEF Encoded
<1> HIDE DEF e, u
<1>5. e \in Seq(Unit) /\ Len(e) = u
  BY <1>1, <1>3
<1> QED
  BY <1>4, <1>5 DEF e, u

LEMMA Untouched ==
  ASSUME UNCHANGED os
  PROVE  /\ (Buffers(os) => Buffers(os')) /\ (Owned(os) => Owned(os'))
         /\ (Available(os) => Available(os')) /\ \A c : Left(os', c) = Left(os, c)
BY DEF Buffers, Owned, Available

LEMMA SafeInit == Init => Safe
<1> SUFFICES ASSUME Init PROVE Safe
  OBVIOUS
<1>1. /\ os.input = [c \in Client |-> 0] /\ os.buf = [b \in Buffer |-> Closed]
      /\ os.FreeInputs = <<>> /\ os.AvailableInput = 0
      /\ os \in Record
  <2>1. Closed \in Room
    BY ClosedIsSound DEF Sound
  <2>2. <<>> \in Seq(Buffer)
    OBVIOUS
  <2> QED
    BY <2>1, <2>2 DEF Init, Record
<1>2. Buffers(os)
  BY <1>1, ClosedIsSound DEF Buffers, Record
<1>3. Owned(os)
  <2>1. 1..Len(os.FreeInputs) = {}
    <3>1. Len(os.FreeInputs) = 0
      BY <1>1
    <3> QED
      BY <3>1
  <2>2. \A c \in Client : os.input[c] = 0
    BY <1>1
  <2>3. \A b \in Buffer : os.buf[b].size = 0 /\ b # 0
    BY <1>1, ClosedIsSound, BufferNotZero
  <2> QED
    BY <2>1, <2>2, <2>3 DEF Owned
<1>4. Available(os)
  BY <1>1 DEF Available
<1>5. Turns
  BY DEF Init, Turns, Executing
<1>6. Clients
  <2>1. <<>> \in Seq(Unit) /\ <<>> \in Seq(Request)
    OBVIOUS
  <2> QED
    BY <2>1 DEF Init, Clients
<1> QED
  BY <1>2, <1>3, <1>4, <1>5, <1>6 DEF Safe

LEMMA SafeRead ==
  ASSUME NEW c \in Client, Safe, ReadBuffered(c) \/ ReadSocket(c) \/ ReadNothing(c)
  PROVE  Safe'
<1>1. PICK b, k : k \in 0..Len(socket[c]) /\ Read(c, b, k)
  BY Reads
<1>2. socket \in [Client -> Seq(Unit)] /\ socket[c] \in Seq(Unit)
  BY DEF Safe, Clients
<1>3. ASSUME lost' \subseteq Client PROVE Clients'
  <2>1. Len(socket[c]) \in Nat /\ k \in Nat /\ k <= Len(socket[c])
    BY <1>1, <1>2
  <2>2. SubSeq(socket[c], k + 1, Len(socket[c])) \in Seq(Unit)
    BY <1>2, <2>1, Piece
  <2>3. socket' = [socket EXCEPT ![c] = SubSeq(@, k + 1, Len(@))] /\ UNCHANGED <<sent, done>>
    BY <1>1 DEF Read
  <2>4. socket' \in [Client -> Seq(Unit)]
    BY <1>2, <2>2, <2>3
  <2> QED
    BY <1>3, <2>3, <2>4 DEF Safe, Clients
<1>4. CASE HasRequest(b) /\ ReturnRequest(c, b)
  <2> DEFINE r == Rest(b)
             words == Needed(r, 0) \div 2
             y == os'.buf[os'.input[c]]
  <2>1. /\ Buffers(os') /\ Owned(os') /\ Available(os')
        /\ turn' = c
        /\ req_len' = IF ~IsBig(r, 0) THEN words ELSE IF words = 0 THEN MAXCARD32 ELSE words - 1
        /\ lost' \subseteq lost \union {c}
        /\ os'.input[c] # 0 /\ (IsBig(y.data, y.bufptr) => y.bufptr >= 2)
        /\ \A d : d # c => (d \in ClientsWithInput' <=> d \in ClientsWithInput)
    <3>1. Buffers(os) /\ Owned(os) /\ Available(os) /\ Sound(b) /\ b.lenLastReq = 0 /\ b.size > 0
      BY <1>1 DEF Safe, Read
    <3> QED
      BY <1>4, <3>1, ReturnStep
  <2>3. MAXBUFSIZE \in Nat
    BY ReaderAssumption
  <2>2. words \in 0..MAXBUFSIZE \div 2
    <3>1. /\ r \in Seq(Unit) /\ Len(r) \in Nat /\ Len(r) <= MAXBUFSIZE
          /\ Len(r) >= Needed(r, 0)
      <4>1. Sound(b) /\ b.lenLastReq = 0
        BY <1>1 DEF Read
      <4>2. /\ b.size \in 0..MAXBUFSIZE /\ Len(b.data) <= b.size /\ b.bufptr \in Nat
            /\ Len(b.data) \in Nat
        BY <4>1, SoundParts
      <4>3. r \in Seq(Unit)
        BY <4>1, RestFacts
      <4>4. Len(r) = Len(b.data) - b.bufptr /\ Len(r) >= Needed(r, 0)
        BY <1>4, <4>1, Ahead
      <4> HIDE DEF r
      <4> QED
        BY <2>3, <4>2, <4>3, <4>4
    <3> HIDE DEF r
    <3>2. words \in Nat /\ 2 * words <= MAXBUFSIZE
      <4>1. Needed(r, 0) \in Nat /\ words \in Nat /\ 2 * words = Needed(r, 0)
        BY <3>1, NeededFits
      <4> HIDE DEF words
      <4> QED
        BY <2>3, <3>1, <4>1
    <3> HIDE DEF words
    <3> QED
      BY <2>3, <3>2
  <2> HIDE DEF words, r, y
  <2>4. req_len' \in {-1, MAXCARD32} \union 0..(MAXBUFSIZE \div 2)
    BY <2>1, <2>2, <2>3
  <2>5. c # 0
    BY ReaderAssumption
  <2>6. Turns'
    BY <2>1, <2>4, <2>5 DEF Turns, Executing, Safe, y
  <2>7. Clients'
    BY <1>3, <2>1 DEF Safe, Clients
  <2> QED
    BY <2>1, <2>6, <2>7 DEF Safe
<1>5. CASE ~HasRequest(b) /\ ReturnNothing(c, b)
  <2>1. /\ Buffers(os') /\ Owned(os') /\ Available(os')
        /\ turn' = 0 /\ req_len' = -1 /\ lost' = lost
        /\ ClientsWithInput' = ClientsWithInput \ {c}
    BY <1>1, <1>5, NothingStep DEF Safe, Read
  <2>2. Turns'
    BY <2>1 DEF Turns, Executing, Safe
  <2>3. Clients'
    BY <1>3, <2>1 DEF Safe, Clients
  <2> QED
    BY <2>1, <2>2, <2>3 DEF Safe
<1> QED
  BY <1>1, <1>4, <1>5 DEF Read

LEMMA SafeExecute ==
  ASSUME NEW c \in Client, Safe, Execute(c)
  PROVE  Safe'
<1>1. UNCHANGED os /\ req_len' = -1 /\ turn' \in {0, c} /\ UNCHANGED ClientsWithInput
  BY DEF Execute
<1>2. Turns'
  BY <1>1 DEF Turns, Executing, Safe
<1>3. Clients'
  <2>1. done' = [done EXCEPT ![c] = @ + 1] /\ UNCHANGED <<sent, socket, lost>>
    BY DEF Execute
  <2> QED
    BY <2>1 DEF Clients, Safe
<1> QED
  BY <1>1, <1>2, <1>3, Untouched DEF Safe

\* The effect of ResetCurrentRequest on the buffers.
LEMMA ResetStep ==
  ASSUME NEW c \in Client, Safe, ResetCurrentRequest(c)
  PROVE  LET b == os.buf[os.input[c]] IN
         /\ Buffers(os') /\ Owned(os') /\ Available(os')
         /\ Sound(b) /\ Sound(PutBack(b)) /\ Left(os', c) = Rest(PutBack(b))
         /\ (~IsBig(b.data, b.bufptr) => PutBack(b) = [b EXCEPT !.lenLastReq = 0])
         /\ \A d \in Client \ {c} : Left(os', d) = Left(os, d)
         /\ lost' = IF IsBig(b.data, b.bufptr) THEN lost \union {c} ELSE lost
<1> DEFINE b == os.buf[os.input[c]]
           x == PutBack(b)
           a == IF os.AvailableInput = c THEN 0 ELSE os.AvailableInput
<1>1. Executing(c) /\ os' = [os EXCEPT !.buf[os.input[c]] = x,
                                       !.AvailableInput = IF @ = c THEN 0 ELSE @]
  BY DEF ResetCurrentRequest
<1>2. os \in Record /\ Buffers(os) /\ Owned(os) /\ Available(os)
  BY DEF Safe, Buffers, Record
<1>3. os.input[c] # 0 /\ (IsBig(b.data, b.bufptr) => b.bufptr >= 2)
  BY <1>1 DEF Safe, Turns
<1>4. os.input[c] \in Buffer
  BY <1>2, <1>3 DEF Record
<1>5. Sound(b) /\ b.size > 0
  <2>1. Sound(b)
    BY <1>2, <1>4 DEF Buffers
  <2>2. b.size > 0
    BY <1>2, <1>4 DEF Owned
  <2> QED
    BY <2>1, <2>2
<1>6. req_len \in Nat
  <2>1. MAXCARD32 \in Nat /\ MAXBUFSIZE \in Nat
    BY ReaderAssumption
  <2>2. \A i \in 0..MAXBUFSIZE \div 2 : i \in Nat
    BY <2>1
  <2> QED
    BY <1>1, <2>1, <2>2 DEF Executing, Safe, Turns
<1> HIDE DEF b
<1>7. /\ Sound(x) /\ x.size = b.size
      /\ ~IsBig(b.data, b.bufptr) => x = [b EXCEPT !.lenLastReq = 0]
  BY <1>3, <1>5, <1>6, PuttingBack
<1> HIDE DEF x
<1>8. a \in Client \union {0} /\ os' = [os EXCEPT !.buf[os.input[c]] = x, !.AvailableInput = a]
  BY <1>1, <1>2 DEF Record
<1>9. [os.buf EXCEPT ![os.input[c]] = x] \in [Buffer -> Room]
  BY <1>2, <1>7 DEF Record, Sound
<1>10. a # 0 => a \in Client \ {c} /\ a = os.AvailableInput
  BY <1>8
<1> HIDE DEF a
<1>11. /\ os' \in Record /\ os'.input = os.input /\ os'.buf = [os.buf EXCEPT ![os.input[c]] = x]
       /\ os'.FreeInputs = os.FreeInputs /\ os'.AvailableInput = a
  BY <1>2, <1>8, <1>9 DEF Record
<1>12. /\ Buffers(os') /\ Owned(os') /\ os'.buf[os'.input[c]] = x
       /\ \A d \in Client \ {c} : Same(os, os', d)
  BY <1>2, <1>3, <1>5, <1>7, <1>11, Kept
<1>13. Available(os')
  <2>1. a # 0 => os'.input[a] = os.input[a] /\ os'.buf[os'.input[a]] = os.buf[os.input[a]]
    BY <1>2, <1>10, <1>12 DEF Available, Same
  <2> QED
    BY <1>2, <1>10, <1>11, <2>1 DEF Available
<1>14. Left(os', c) = Rest(x)
  BY <1>3, <1>11, <1>12 DEF Left
<1>15. lost' = IF IsBig(b.data, b.bufptr) THEN lost \union {c} ELSE lost
  BY DEF ResetCurrentRequest, b
<1> QED
  BY <1>5, <1>7, <1>12, <1>13, <1>14, <1>15, SameLeft DEF x, b

LEMMA SafeReset ==
  ASSUME NEW c \in Client, Safe, ResetCurrentRequest(c)
  PROVE  Safe'
<1>1. Buffers(os') /\ Owned(os') /\ Available(os')
  BY ResetStep
<1>2. /\ req_len' = -1 /\ turn' = 0
      /\ ClientsWithInput' \in {ClientsWithInput \union {c}, ClientsWithInput \ {c}}
      /\ UNCHANGED <<sent, socket, done>>
  BY DEF ResetCurrentRequest, requests
<1>3. Turns'
  BY <1>2 DEF Turns, Executing, Safe
<1>4. Clients'
  <2>1. lost' \subseteq lost \union {c}
    BY ResetStep
  <2> QED
    BY <1>2, <2>1 DEF Clients, Safe
<1> QED
  BY <1>1, <1>3, <1>4 DEF Safe

\* A client goes, also one whose request is too big.
LEMMA GoneStep ==
  ASSUME NEW c \in Client, Safe, Close(c) \/ ReadFails(c)
  PROVE  /\ Gone(c)
         /\ Buffers(os') /\ Owned(os') /\ Available(os') /\ Left(os', c) = <<>>
         /\ \A d \in Client \ {c} :
              Left(os', d) = Left(os, d) /\ (Executing(d) => Same(os, os', d))
<1>1. CASE Close(c)
  <2>1. os' = FreeOsBuffers(os, c) /\ Gone(c)
    BY <1>1 DEF Close
  <2>2. /\ Buffers(os') /\ Owned(os') /\ Available(os') /\ os'.input[c] = 0
        /\ \A d \in Client \ {c} : Same(os, os', d)
    BY <2>1, Freed DEF Safe
  <2> QED
    BY <2>1, <2>2, SameLeft DEF Left
<1>2. CASE ReadFails(c)
  <2> DEFINE b == Current(c)
             t == Keep(c, b)
  <2>1. os' = FreeOsBuffers(t, c) /\ Gone(c) /\ Chosen(c)
    BY <1>2 DEF ReadFails
  <2>2. Sound(b) /\ b.size > 0
    BY Begun DEF Safe
  <2> HIDE DEF b
  <2>3. /\ Buffers(t) /\ Owned(t) /\ Available(t)
        /\ \A d \in Client \ {c} : Left(t, d) = Left(os, d)
    <3>1. t = Leaving(c, b, 0)
      BY KeepIsLeaving DEF Safe
    <3>2. 0 # c
      BY ReaderAssumption
    <3> HIDE DEF t
    <3> QED
      BY <2>2, <3>1, <3>2, Keeping DEF Safe
  <2> HIDE DEF t
  <2>4. /\ Buffers(os') /\ Owned(os') /\ Available(os') /\ os'.input[c] = 0
        /\ \A d \in Client \ {c} : Same(t, os', d)
    BY <2>1, <2>3, Freed
  <2>5. \A d \in Client \ {c} : Left(os', d) = Left(t, d)
    BY <2>4, SameLeft
  <2>6. \A d \in Client : ~Executing(d)
    BY <2>1 DEF Chosen, Executing, Safe, Turns
  <2> QED
    BY <2>1, <2>3, <2>4, <2>5, <2>6 DEF Left
<1> QED
  BY <1>1, <1>2

LEMMA SafeGone ==
  ASSUME NEW c \in Client, Safe, Close(c) \/ ReadFails(c)
  PROVE  Safe'
<1>1. /\ Buffers(os') /\ Owned(os') /\ Available(os')
      /\ \A d \in Client \ {c} : Executing(d) => Same(os, os', d)
  BY GoneStep
<1>2. /\ ClientsWithInput' = ClientsWithInput \ {c}
      /\ IF turn = c THEN turn' = 0 /\ req_len' = -1 ELSE UNCHANGED <<turn, req_len>>
      /\ sent' = [sent EXCEPT ![c] = <<>>]
      /\ socket' = [socket EXCEPT ![c] = <<>>] /\ done' = [done EXCEPT ![c] = 0]
      /\ lost' = lost \ {c}
  BY GoneStep DEF Gone
<1>3. Clients'
  <2>1. <<>> \in Seq(Unit) /\ <<>> \in Seq(Request)
    OBVIOUS
  <2> QED
    BY <1>2, <2>1 DEF Clients, Safe
<1>4. ASSUME NEW d \in Client, Executing(d)'
      PROVE  /\ os'.input[d] # 0
             /\ LET b == os'.buf[os'.input[d]] IN IsBig(b.data, b.bufptr) => b.bufptr >= 2
  <2>1. d # c /\ Executing(d)
    BY <1>2, <1>4, ReaderAssumption DEF Executing
  <2>2. Same(os, os', d)
    BY <1>1, <2>1
  <2> QED
    BY <2>1, <2>2 DEF Safe, Turns, Same
<1>5. Turns'
  BY <1>2, <1>4 DEF Turns, Safe
<1> QED
  BY <1>1, <1>3, <1>5 DEF Safe

LEMMA SafeSend ==
  ASSUME NEW c \in Client, Safe, Send(c)
  PROVE  Safe'
<1>1. PICK r \in Request :
        /\ sent' = [sent EXCEPT ![c] = Append(@, r)]
        /\ socket' = [socket EXCEPT ![c] = @ \o Encoded(c, Len(sent[c]) + 1, r)]
  BY DEF Send
<1>2. UNCHANGED <<os, ClientsWithInput, turn, req_len, done, lost>>
  BY DEF Send
<1>3. /\ sent \in [Client -> Seq(Request)] /\ socket \in [Client -> Seq(Unit)]
      /\ done \in [Client -> Nat] /\ lost \subseteq Client
  BY DEF Safe, Clients
<1>4. Append(sent[c], r) \in Seq(Request)
  BY <1>3
<1>5. socket[c] \o Encoded(c, Len(sent[c]) + 1, r) \in Seq(Unit)
  <2>1. Len(sent[c]) + 1 \in Nat /\ socket[c] \in Seq(Unit)
    BY <1>3
  <2>2. Encoded(c, Len(sent[c]) + 1, r) \in Seq(Unit)
    BY <2>1, EncodedUnits
  <2> QED
    BY <2>1, <2>2, Joint
<1>6. Clients'
  BY <1>1, <1>2, <1>3, <1>4, <1>5 DEF Clients
<1>7. Turns'
  BY <1>2 DEF Turns, Executing, Safe
<1> QED
  BY <1>2, <1>6, <1>7, Untouched DEF Safe

LEMMA SafeNext == Safe /\ [Next]_vars => Safe'
<1> SUFFICES ASSUME Safe, [Next]_vars PROVE Safe'
  OBVIOUS
<1>1. CASE Next
  <2>1. PICK c \in Client :
          \/ ReadBuffered(c) \/ ReadSocket(c) \/ ReadNothing(c) \/ ReadFails(c)
          \/ Execute(c) \/ ResetCurrentRequest(c)
          \/ Close(c) \/ Send(c)
    BY <1>1 DEF Next
  <2> QED
    BY <2>1, SafeRead, SafeExecute, SafeReset, SafeGone, SafeSend
<1>2. CASE UNCHANGED vars
  <2>1. UNCHANGED <<os, ClientsWithInput, turn, req_len, sent, socket, done, lost>>
    BY <1>2 DEF vars, requests
  <2>2. Turns'
    BY <2>1 DEF Turns, Executing, Safe
  <2>3. Clients'
    BY <2>1 DEF Clients, Safe
  <2> QED
    BY <2>1, <2>2, <2>3, Untouched DEF Safe
<1> QED
  BY <1>1, <1>2

\* The inductive invariant: who has which buffer, what a buffer that is free
\* or to be given away has left, and that the header of a Big Request that is
\* being executed has been moved.
THEOREM SafeInvariant == Spec => []Safe
<1>1. Init => Safe
  BY SafeInit
<1>2. Safe /\ [Next]_vars => Safe'
  BY SafeNext
<1> QED
  BY <1>1, <1>2, PTL DEF Spec

\* BuffersOwned holds for any number of clients and any requests, also those
\* whose length is 0 and those that are put back: no buffer has two users, is
\* lost or overrun, and the one others may take has nothing left in it (os/io.c:
\* ReadRequestFromClient, FreeOsBuffers, AllocateInputBuffer).
THEOREM BuffersHaveOneUser == Spec => []BuffersOwned
<1>1. ASSUME Safe PROVE BuffersOwned
  <2> DEFINE used == {c \in Client : os.input[c] # 0}
  <2>0. Buffers(os) /\ Owned(os) /\ Available(os) /\ Turns /\ Clients
    BY <1>1 DEF Safe
  <2>1. /\ os.input \in [Client -> Buffer \union {0}] /\ os.AvailableInput \in Client \union {0}
        /\ os.FreeInputs \in Seq(Buffer)
    BY <2>0 DEF Buffers
  <2>2. TypeOK
    <3>1. ASSUME NEW b \in Buffer
          PROVE LET x == os.buf[b] IN
                /\ x.size \in 0..MAXBUFSIZE /\ Len(x.data) <= x.size
                /\ x.bufptr \in Nat /\ x.lenLastReq \in Nat /\ x.bufptr + x.lenLastReq <= Len(x.data)
      <4>1. Sound(os.buf[b])
        BY <2>0 DEF Buffers
      <4> QED
        BY <4>1, SoundParts
    <3>2. /\ ClientsWithInput \subseteq Client /\ turn \in Client \union {0}
          /\ req_len \in {-1, MAXCARD32} \union 0..(MAXBUFSIZE \div 2)
      BY <2>0 DEF Turns
    <3>3. /\ sent \in [Client -> Seq(Request)] /\ DOMAIN socket = Client
          /\ done \in [Client -> Nat] /\ lost \subseteq Client
      BY <2>0 DEF Clients
    <3> QED
      BY <2>1, <3>1, <3>2, <3>3 DEF TypeOK
  <2>3. \A c, d \in used : os.input[c] = os.input[d] => c = d
    BY <2>0 DEF Owned
  <2>4. IsInjective(os.FreeInputs)
    <3>1. DOMAIN os.FreeInputs = 1..Len(os.FreeInputs)
      BY <2>1
    <3> QED
      BY <2>0, <3>1 DEF Owned, IsInjective
  <2>5. \A b : b \in ToSet(os.FreeInputs) <=> \E i \in 1..Len(os.FreeInputs) : os.FreeInputs[i] = b
    <3>1. DOMAIN os.FreeInputs = 1..Len(os.FreeInputs)
      BY <2>1
    <3> QED
      BY <3>1 DEF ToSet
  <2>6. ASSUME NEW b \in Buffer
        PROVE  (os.buf[b].size > 0) = (b \in ToSet(os.FreeInputs) \/ \E c \in used : os.input[c] = b)
    <3>1. os.buf[b].size > 0 <=>
            \/ \E i \in 1..Len(os.FreeInputs) : os.FreeInputs[i] = b
            \/ \E c \in Client : os.input[c] = b
      BY <2>0 DEF Owned
    <3>2. (\E c \in Client : os.input[c] = b) <=> \E c \in used : os.input[c] = b
      BY BufferNotZero
    <3> HIDE DEF used
    <3>3. os.buf[b].size > 0 <=> (b \in ToSet(os.FreeInputs) \/ \E c \in used : os.input[c] = b)
      BY <2>5, <3>1, <3>2
    <3> QED
      BY <3>3
  <2>7. \A c \in used : os.input[c] \notin ToSet(os.FreeInputs)
    BY <2>0, <2>5 DEF Owned
  <2>8. os.AvailableInput # 0 =>
          /\ os.AvailableInput \in used
          /\ LET b == os.buf[os.input[os.AvailableInput]] IN b.bufptr + b.lenLastReq = Len(b.data)
    BY <2>0, <2>1 DEF Available, Spent
  <2> QED
    BY <2>2, <2>3, <2>4, <2>6, <2>7, <2>8 DEF BuffersOwned
<1> QED
  BY <1>1, SafeInvariant, PTL

-----------------------------------------------------------------------------
(***************************************************************************)
(* Streams: the units of a client's requests, from one of them on.         *)
(***************************************************************************)
\* at[k] is the number of units before request k.
Marks(at, s, c, q, n) ==
    /\ at \in [n..Len(q) + 1 -> Nat]
    /\ at[n] = 0 /\ at[Len(q) + 1] = Len(s)
    /\ \A j, k \in n..Len(q) + 1 : j <= k => at[j] <= at[k]
    /\ \A k \in n..Len(q) :
         /\ at[k + 1] = at[k] + Units(q[k])
         /\ \A i \in 1..Units(q[k]) : s[at[k] + i] = Encoded(c, k, q[k])[i]

IsStream(s, c, q, n) == n \in 1..Len(q) + 1 /\ \E at : Marks(at, s, c, q, n)

\* A stream that is not empty begins with a whole request.
LEMMA StreamFirst ==
  ASSUME NEW c \in Client, NEW q \in Seq(Request), NEW s \in Seq(Unit), NEW n,
         IsStream(s, c, q, n), Len(s) # 0
  PROVE  /\ n \in 1..Len(q) /\ q[n] \in Request /\ Units(q[n]) <= Len(s)
         /\ \A i \in 1..Units(q[n]) : s[i] = Encoded(c, n, q[n])[i]
<1>1. PICK at : Marks(at, s, c, q, n)
  BY DEF IsStream
<1>2. Len(q) \in Nat /\ n \in 1..Len(q) + 1
  BY DEF IsStream
<1>3. at[n] = 0 /\ at[Len(q) + 1] = Len(s)
  BY <1>1 DEF Marks
<1>4. n \in 1..Len(q)
  BY <1>2, <1>3
<1>5. q[n] \in Request
  BY <1>4
<1>6. /\ at[n + 1] = at[n] + Units(q[n])
      /\ \A i \in 1..Units(q[n]) : s[at[n] + i] = Encoded(c, n, q[n])[i]
  <2>1. n \in n..Len(q)
    BY <1>2, <1>4
  <2> QED
    BY <1>1, <2>1 DEF Marks
<1>7. Units(q[n]) \in Nat
  BY <1>5, UnitsOf
<1>8. at[n + 1] <= at[Len(q) + 1]
  <2>1. n + 1 \in n..Len(q) + 1 /\ Len(q) + 1 \in n..Len(q) + 1 /\ n + 1 <= Len(q) + 1
    BY <1>2, <1>4
  <2> QED
    BY <1>1, <2>1 DEF Marks
<1>9. \A i \in 1..Units(q[n]) : at[n] + i = i
  BY <1>3, <1>7
<1> QED
  BY <1>3, <1>4, <1>5, <1>6, <1>7, <1>8, <1>9

\* Without it, it is a stream from the next one on.
LEMMA StreamRest ==
  ASSUME NEW c \in Client, NEW q \in Seq(Request), NEW s \in Seq(Unit), NEW n \in 1..Len(q),
         IsStream(s, c, q, n), Units(q[n]) <= Len(s)
  PROVE  IsStream(SubSeq(s, Units(q[n]) + 1, Len(s)), c, q, n + 1)
<1> DEFINE u == Units(q[n])
           t == SubSeq(s, u + 1, Len(s))
           m == Len(q) + 1
<1>1. PICK at : Marks(at, s, c, q, n)
  BY DEF IsStream
<1>2. Len(q) \in Nat /\ m \in Nat /\ n \in Nat /\ n <= Len(q) /\ q[n] \in Request
  OBVIOUS
<1>3. u \in Nat
  BY <1>2, UnitsOf
<1>4. t \in Seq(Unit) /\ Len(t) = Len(s) - u /\ \A i \in 1..Len(s) - u : t[i] = s[u + i]
  BY <1>3, Piece
<1>5. /\ at \in [n..m -> Nat] /\ at[n] = 0 /\ at[m] = Len(s)
      /\ \A j, k \in n..m : j <= k => at[j] <= at[k]
      /\ \A k \in n..Len(q) :
           /\ at[k + 1] = at[k] + Units(q[k])
           /\ \A i \in 1..Units(q[k]) : s[at[k] + i] = Encoded(c, k, q[k])[i]
  BY <1>1 DEF Marks
<1>6. at[n + 1] = u
  <2>1. n \in n..Len(q)
    BY <1>2
  <2> QED
    BY <1>3, <1>5, <2>1
<1> DEFINE bt == [k \in n + 1..m |-> at[k] - u]
<1>7. \A k \in n + 1..m : at[k] \in Nat /\ u <= at[k] /\ k \in n..m
  <2> TAKE k \in n + 1..m
  <2>1. k \in n..m /\ n + 1 \in n..m /\ n + 1 <= k
    BY <1>2
  <2>2. at[n + 1] <= at[k] /\ at[k] \in Nat
    BY <1>5, <2>1
  <2> QED
    BY <1>6, <2>1, <2>2
<1> HIDE DEF t, u
<1>8. bt \in [n + 1..m -> Nat] /\ \A k \in n + 1..m : bt[k] = at[k] - u
  BY <1>3, <1>7
<1> HIDE DEF bt
<1>9. n + 1 \in n + 1..m /\ m \in n + 1..m
  BY <1>2
<1>10. bt[n + 1] = 0 /\ bt[m] = Len(t)
  <2> HIDE DEF m
  <2>1. bt[n + 1] = at[n + 1] - u /\ bt[m] = at[m] - u
    BY <1>8, <1>9
  <2>2. bt[n + 1] = 0
    BY <1>3, <1>6, <2>1
  <2>3. bt[m] = Len(t)
    BY <1>4, <1>5, <2>1
  <2> QED
    BY <2>2, <2>3
<1>11. \A j, k \in n + 1..m : j <= k => bt[j] <= bt[k]
  <2> TAKE j, k \in n + 1..m
  <2>1. j <= k => at[j] <= at[k]
    BY <1>5, <1>7
  <2> QED
    BY <1>3, <1>7, <1>8, <2>1
<1>12. ASSUME NEW k \in n + 1..Len(q)
       PROVE  /\ bt[k + 1] = bt[k] + Units(q[k])
              /\ \A i \in 1..Units(q[k]) : t[bt[k] + i] = Encoded(c, k, q[k])[i]
  <2>1. k \in n..Len(q) /\ k \in n + 1..m /\ k + 1 \in n + 1..m /\ k \in 1..Len(q)
    BY <1>2
  <2>2. Units(q[k]) \in Nat
    <3>1. q[k] \in Request
      BY <2>1
    <3> QED
      BY <3>1, UnitsOf
  <2>3. /\ at[k + 1] = at[k] + Units(q[k])
        /\ \A i \in 1..Units(q[k]) : s[at[k] + i] = Encoded(c, k, q[k])[i]
    BY <1>5, <2>1
  <2>4. /\ bt[k] = at[k] - u /\ bt[k + 1] = at[k + 1] - u
        /\ at[k] \in Nat /\ at[k + 1] \in Nat /\ u <= at[k]
    BY <1>7, <1>8, <2>1
  <2>5. at[k + 1] <= Len(s)
    <3>1. k + 1 \in n..m /\ m \in n..m /\ k + 1 <= m
      BY <1>2
    <3> QED
      BY <1>5, <3>1
  <2>6. \A i \in 1..Units(q[k]) : t[bt[k] + i] = s[at[k] + i]
    <3> TAKE i \in 1..Units(q[k])
    <3>1. /\ bt[k] + i \in 1..Len(s) - u /\ u + (bt[k] + i) = at[k] + i
      <4>1. /\ at[k] \in Nat /\ Units(q[k]) \in Nat /\ u \in Nat /\ Len(s) \in Nat
            /\ at[k] + Units(q[k]) <= Len(s) /\ u <= at[k]
        BY <1>3, <2>2, <2>3, <2>4, <2>5
      <4> DEFINE x == at[k]
                 y == Units(q[k])
                 v == Len(s)
      <4>2. x \in Nat /\ y \in Nat /\ u \in Nat /\ v \in Nat /\ x + y <= v /\ u <= x /\ i \in 1..y
        BY <4>1
      <4>3. (x - u) + i \in 1..v - u /\ u + ((x - u) + i) = x + i
        <5> HIDE DEF x, y, v
        <5> QED
          BY <4>2
      <4> QED
        BY <2>4, <4>3
    <3>2. t[bt[k] + i] = s[u + (bt[k] + i)]
      BY <1>4, <3>1
    <3> QED
      BY <3>1, <3>2
  <2> QED
    BY <1>3, <2>2, <2>3, <2>4, <2>6
<1>13. Marks(bt, t, c, q, n + 1)
  BY <1>8, <1>10, <1>11, <1>12 DEF Marks, m
<1>14. n + 1 \in 1..Len(q) + 1
  BY <1>2
<1> QED
  BY <1>13, <1>14 DEF IsStream, t, u

\* The request before it may be put in front of a stream.
LEMMA StreamBefore ==
  ASSUME NEW c \in Client, NEW q \in Seq(Request), NEW s \in Seq(Unit), NEW n \in 1..Len(q),
         IsStream(s, c, q, n + 1)
  PROVE  IsStream(Encoded(c, n, q[n]) \o s, c, q, n)
<1> DEFINE u == Units(q[n])
           e == Encoded(c, n, q[n])
           t == e \o s
           m == Len(q) + 1
<1>1. PICK at : Marks(at, s, c, q, n + 1)
  BY DEF IsStream
<1>2. Len(q) \in Nat /\ m \in Nat /\ n \in Nat /\ n <= Len(q) /\ q[n] \in Request
  OBVIOUS
<1>3. u \in Nat
  BY <1>2, UnitsOf
<1>4. e \in Seq(Unit) /\ Len(e) = u
  BY <1>2, EncodedUnits
<1> HIDE DEF e, u
<1>5. /\ t \in Seq(Unit) /\ Len(t) = u + Len(s) /\ Len(s) \in Nat
      /\ \A i \in 1..u : t[i] = e[i]
      /\ \A i \in 1..Len(s) : t[u + i] = s[i]
  <2>1. s \in Seq(Unit) /\ Len(s) \in Nat /\ e \in Seq(Unit)
    BY <1>4
  <2>2. /\ t \in Seq(Unit) /\ Len(t) = Len(e) + Len(s)
        /\ \A i \in 1..Len(e) : t[i] = e[i]
        /\ \A i \in 1..Len(s) : t[Len(e) + i] = s[i]
    BY <2>1, Joint
  <2> HIDE DEF t
  <2> QED
    BY <1>4, <2>1, <2>2
<1> HIDE DEF t
<1>6. /\ at \in [n + 1..m -> Nat] /\ at[n + 1] = 0 /\ at[m] = Len(s)
      /\ \A j, k \in n + 1..m : j <= k => at[j] <= at[k]
      /\ \A k \in n + 1..Len(q) :
           /\ at[k + 1] = at[k] + Units(q[k])
           /\ \A i \in 1..Units(q[k]) : s[at[k] + i] = Encoded(c, k, q[k])[i]
  BY <1>1 DEF Marks
<1> DEFINE bt == [k \in n..m |-> IF k = n THEN 0 ELSE at[k] + u]
<1>7. \A k \in n..m : k # n => k \in n + 1..m
  BY <1>2
<1>8. /\ bt \in [n..m -> Nat] /\ bt[n] = 0
      /\ \A k \in n + 1..m : k \in n..m /\ at[k] \in Nat /\ bt[k] = at[k] + u
  <2>1. \A k \in n + 1..m : k \in n..m /\ k # n /\ at[k] \in Nat
    BY <1>2, <1>6
  <2>2. n \in n..m
    BY <1>2
  <2> QED
    BY <1>3, <1>7, <2>1, <2>2
<1> HIDE DEF bt
<1>9. bt[m] = Len(t)
  <2>1. m \in n + 1..m
    BY <1>2
  <2> HIDE DEF m
  <2>2. bt[m] = Len(s) + u
    BY <1>6, <1>8, <2>1
  <2> QED
    BY <1>3, <1>5, <2>2
<1>10. \A j, k \in n..m : j <= k => bt[j] <= bt[k]
  <2> TAKE j, k \in n..m
  <2>1. CASE j = n
    <3>1. bt[k] \in Nat
      BY <1>8
    <3> QED
      BY <1>8, <2>1, <3>1
  <2>2. CASE j # n /\ k # n
    <3>1. j \in n + 1..m /\ k \in n + 1..m
      BY <1>7, <2>2
    <3>2. j <= k => at[j] <= at[k]
      BY <1>6, <3>1
    <3> QED
      BY <1>3, <1>8, <3>1, <3>2
  <2>3. CASE j # n /\ k = n
    BY <1>2, <2>3
  <2> QED
    BY <2>1, <2>2, <2>3
<1>11. ASSUME NEW k \in n..Len(q)
       PROVE  /\ bt[k + 1] = bt[k] + Units(q[k])
              /\ \A i \in 1..Units(q[k]) : t[bt[k] + i] = Encoded(c, k, q[k])[i]
  <2>1. CASE k = n
    <3>1. n + 1 \in n + 1..m
      BY <1>2
    <3>2. bt[n + 1] = u
      <4>1. bt[n + 1] = at[n + 1] + u
        BY <1>8, <3>1
      <4>2. at[n + 1] = 0
        BY <1>6
      <4> QED
        BY <1>3, <4>1, <4>2
    <3>3. \A i \in 1..u : bt[n] + i = i
      BY <1>3, <1>8
    <3> QED
      BY <1>3, <1>5, <1>8, <2>1, <3>2, <3>3 DEF e, u
  <2>2. CASE k # n
    <3>1. k \in n + 1..Len(q) /\ k \in n + 1..m /\ k + 1 \in n + 1..m /\ k \in 1..Len(q)
      BY <1>2, <2>2
    <3>2. Units(q[k]) \in Nat
      <4>1. q[k] \in Request
        BY <3>1
      <4> QED
        BY <4>1, UnitsOf
    <3>3. /\ at[k + 1] = at[k] + Units(q[k])
          /\ \A i \in 1..Units(q[k]) : s[at[k] + i] = Encoded(c, k, q[k])[i]
      BY <1>6, <3>1
    <3>4. /\ bt[k] = at[k] + u /\ bt[k + 1] = at[k + 1] + u
          /\ at[k] \in Nat /\ at[k + 1] \in Nat
      BY <1>8, <3>1
    <3>5. at[k + 1] <= Len(s)
      <4>1. m \in n + 1..m /\ k + 1 <= m
        BY <1>2
      <4> QED
        BY <1>6, <3>1, <4>1
    <3>6. \A i \in 1..Units(q[k]) : t[bt[k] + i] = s[at[k] + i]
      <4> TAKE i \in 1..Units(q[k])
      <4>1. at[k] + i \in 1..Len(s) /\ u + (at[k] + i) = bt[k] + i
        <5>1. /\ at[k] \in Nat /\ Units(q[k]) \in Nat /\ u \in Nat /\ Len(s) \in Nat
              /\ at[k] + Units(q[k]) <= Len(s)
          BY <1>3, <1>5, <3>2, <3>3, <3>4, <3>5
        <5>2. at[k] + i \in 1..Len(s)
          BY <5>1, Within
        <5>3. \A x, y \in Nat : \A j \in 1..y : \A z \in Nat : z + (x + j) = (x + z) + j
          OBVIOUS
        <5>4. u + (at[k] + i) = (at[k] + u) + i
          BY <5>1, <5>3
        <5> QED
          BY <3>4, <5>2, <5>4
      <4>2. t[u + (at[k] + i)] = s[at[k] + i]
        BY <1>5, <4>1
      <4> QED
        BY <4>1, <4>2
    <3>7. bt[k + 1] = bt[k] + Units(q[k])
      BY <1>3, <3>2, <3>3, <3>4
    <3> QED
      BY <3>3, <3>6, <3>7
  <2> QED
    BY <2>1, <2>2
<1>12. Marks(bt, t, c, q, n)
  BY <1>8, <1>9, <1>10, <1>11 DEF Marks, m
<1>13. n \in 1..Len(q) + 1
  BY <1>2
<1> QED
  BY <1>12, <1>13 DEF IsStream, t, e

\* A new request goes to its end.
LEMMA StreamMore ==
  ASSUME NEW c \in Client, NEW q \in Seq(Request), NEW s \in Seq(Unit), NEW n,
         NEW r \in Request, IsStream(s, c, q, n)
  PROVE  IsStream(s \o Encoded(c, Len(q) + 1, r), c, Append(q, r), n)
<1> DEFINE l == Len(q)
           m == l + 1
           u == Units(r)
           e == Encoded(c, m, r)
           t == s \o e
           p == Append(q, r)
<1>1. PICK at : Marks(at, s, c, q, n)
  BY DEF IsStream
<1>2. l \in Nat /\ n \in Nat /\ n >= 1 /\ n <= l + 1 /\ m \in Nat
  BY DEF IsStream
<1>3. /\ p \in Seq(Request) /\ Len(p) = m /\ p[m] = r
      /\ \A k \in 1..l : p[k] = q[k]
  <2>1. \A k \in 1..l + 1 : p[k] = IF k = l + 1 THEN r ELSE q[k]
    OBVIOUS
  <2>2. m \in 1..l + 1 /\ \A k \in 1..l : k \in 1..l + 1 /\ k # l + 1
    BY <1>2
  <2> QED
    BY <2>1, <2>2
<1>4. u \in Nat
  BY UnitsOf
<1>5. e \in Seq(Unit) /\ Len(e) = u
  BY <1>2, EncodedUnits
<1> HIDE DEF e, u, p
<1>6. /\ t \in Seq(Unit) /\ Len(t) = Len(s) + u /\ Len(s) \in Nat
      /\ \A i \in 1..Len(s) : t[i] = s[i]
      /\ \A i \in 1..u : t[Len(s) + i] = e[i]
  <2>1. s \in Seq(Unit) /\ Len(s) \in Nat
    OBVIOUS
  <2> QED
    BY <1>5, <2>1, Joint
<1> HIDE DEF t
<1>7. /\ at \in [n..m -> Nat] /\ at[n] = 0 /\ at[m] = Len(s)
      /\ \A j, k \in n..m : j <= k => at[j] <= at[k]
      /\ \A k \in n..l :
           /\ at[k + 1] = at[k] + Units(q[k])
           /\ \A i \in 1..Units(q[k]) : s[at[k] + i] = Encoded(c, k, q[k])[i]
  BY <1>1 DEF Marks
<1> HIDE DEF l
<1> DEFINE bt == [k \in n..m + 1 |-> IF k = m + 1 THEN Len(t) ELSE at[k]]
<1>8. \A k \in n..m + 1 : k # m + 1 => k \in n..m
  BY <1>2
<1>9. /\ bt \in [n..m + 1 -> Nat] /\ bt[m + 1] = Len(t)
      /\ \A k \in n..m : k \in n..m + 1 /\ at[k] \in Nat /\ bt[k] = at[k]
  <2>1. \A k \in n..m : k \in n..m + 1 /\ k # m + 1 /\ at[k] \in Nat
    BY <1>2, <1>7
  <2>2. m + 1 \in n..m + 1
    BY <1>2
  <2>3. Len(t) \in Nat
    BY <1>4, <1>6
  <2> QED
    BY <1>8, <2>1, <2>2, <2>3
<1> HIDE DEF bt
<1>10. n \in n..m /\ m \in n..m
  BY <1>2
<1>11. \A j, k \in n..m + 1 : j <= k => bt[j] <= bt[k]
  <2> TAKE j, k \in n..m + 1
  <2>1. CASE k = m + 1
    <3>1. CASE j = m + 1
      BY <1>9, <2>1, <3>1
    <3>2. CASE j # m + 1
      <4>1. j \in n..m /\ j <= m
        BY <1>2, <1>8, <3>2
      <4>2. at[j] <= at[m]
        BY <1>7, <1>10, <4>1
      <4> QED
        BY <1>4, <1>6, <1>7, <1>9, <2>1, <4>1, <4>2
    <3> QED
      BY <3>1, <3>2
  <2>2. CASE k # m + 1 /\ j # m + 1
    <3>1. j \in n..m /\ k \in n..m
      BY <1>8, <2>2
    <3> QED
      BY <1>7, <1>9, <3>1
  <2>3. CASE k # m + 1 /\ j = m + 1
    BY <1>2, <2>3
  <2> QED
    BY <2>1, <2>2, <2>3
<1>12. ASSUME NEW k \in n..m
       PROVE  /\ bt[k + 1] = bt[k] + Units(p[k])
              /\ \A i \in 1..Units(p[k]) : t[bt[k] + i] = Encoded(c, k, p[k])[i]
  <2>1. CASE k = m
    <3>1. p[k] = r /\ Units(p[k]) = u /\ Encoded(c, k, p[k]) = e
      BY <1>3, <2>1 DEF e, u
    <3>2. bt[k] = Len(s) /\ bt[k + 1] = Len(t)
      BY <1>7, <1>9, <1>10, <2>1
    <3> QED
      BY <1>6, <3>1, <3>2
  <2>2. CASE k # m
    <3>1. k \in n..l /\ k \in n..m /\ k + 1 \in n..m /\ k \in 1..l
      BY <1>2, <2>2
    <3>2. p[k] = q[k]
      BY <1>3, <3>1
    <3>3. Units(q[k]) \in Nat
      <4>1. q[k] \in Request
        BY <3>1 DEF l
      <4> QED
        BY <4>1, UnitsOf
    <3>4. /\ at[k + 1] = at[k] + Units(q[k])
          /\ \A i \in 1..Units(q[k]) : s[at[k] + i] = Encoded(c, k, q[k])[i]
      BY <1>7, <3>1
    <3>5. bt[k] = at[k] /\ bt[k + 1] = at[k + 1] /\ at[k] \in Nat /\ at[k + 1] \in Nat
      BY <1>9, <3>1
    <3>6. at[k + 1] <= Len(s)
      <4>1. k + 1 <= m
        BY <1>2, <3>1
      <4> QED
        BY <1>7, <1>10, <3>1, <4>1
    <3>7. \A i \in 1..Units(q[k]) : at[k] + i \in 1..Len(s)
      <4>1. at[k] \in Nat /\ Len(s) \in Nat /\ at[k] + Units(q[k]) <= Len(s)
        BY <1>6, <3>4, <3>5, <3>6
      <4> QED
        BY <3>3, <4>1, Within
    <3> QED
      BY <1>6, <3>2, <3>4, <3>5, <3>7
  <2> QED
    BY <2>1, <2>2
<1>13. bt[n] = 0
  BY <1>7, <1>9, <1>10
<1>14. Marks(bt, t, c, p, n)
  <2>1. Len(p) + 1 = m + 1
    BY <1>3
  <2> QED
    BY <1>3, <1>9, <1>11, <1>12, <1>13, <2>1 DEF Marks
<1>15. n \in 1..Len(p) + 1
  BY <1>2, <1>3
<1> QED
  BY <1>14, <1>15 DEF IsStream, t, e, p, l

LEMMA StreamEmpty ==
  ASSUME NEW c \in Client
  PROVE  IsStream(<<>>, c, <<>>, 1)
<1> DEFINE q == <<>>
           at == [k \in 1..1 |-> 0]
<1>1. Len(q) = 0 /\ Len(q) + 1 = 1
  OBVIOUS
<1>2. 1..Len(q) = {}
  BY <1>1
<1>3. at \in [1..1 -> Nat] /\ at[1] = 0 /\ \A j, k \in 1..1 : at[j] <= at[k]
  OBVIOUS
<1> HIDE DEF at, q
<1>4. 1 \in 1..1
  OBVIOUS
<1>5. at[1] = Len(q)
  BY <1>1, <1>3
<1>6. Marks(at, q, c, q, 1)
  BY <1>1, <1>2, <1>3, <1>5 DEF Marks
<1> QED
  BY <1>1, <1>4, <1>6 DEF IsStream, q

-----------------------------------------------------------------------------
(***************************************************************************)
(* What is executed.                                                       *)
(***************************************************************************)
\* The next request of client c that ReadRequestFromClient is to return.
Coming(c) == IF Executing(c) THEN done[c] + 2 ELSE done[c] + 1

\* The buffer has the request that is executed, without the length of a Big
\* Request.
Executed(c) ==
    LET n == done[c] + 1
        r == sent[c][n]
        e == Encoded(c, n, r)
        b == os.buf[os.input[c]]
    IN /\ n \in 1..Len(sent[c]) /\ (r.big => r.len >= 2)
       /\ req_len = IF r.big THEN r.len - 1 ELSE r.len
       /\ b.lenLastReq = IF r.big THEN Units(r) - 2 ELSE Units(r)
       /\ \A i \in 1..b.lenLastReq :
            b.data[b.bufptr + i] = IF r.big /\ i > 2 THEN e[i + 2] ELSE e[i]

FramedOf(c) ==
    c \notin lost =>
      /\ IsStream(Left(os, c) \o socket[c], c, sent[c], Coming(c))
      /\ Executing(c) => Executed(c)

Framed == \A c \in Client : FramedOf(c)

\* What the reader sees of a header is what the client has sent; it finds the
\* end of the request unless that is a short Big Request.
LEMMA FirstRequest ==
  ASSUME NEW c \in Client, NEW q \in Seq(Request),
         NEW r \in Seq(Unit), NEW w \in Seq(Unit), NEW n,
         IsStream(r \o w, c, q, n), Len(r) >= Needed(r, 0)
  PROVE  /\ n \in 1..Len(q) /\ q[n] \in Request
         /\ IsBig(r, 0) <=> q[n].big
         /\ Needed(r, 0) = 2 * q[n].len
         /\ r[2].length = IF q[n].big THEN 0 ELSE q[n].len
         /\ (q[n].big => q[n].len >= 2) =>
              /\ Size(r) = Units(q[n])
              /\ \A i \in 1..Size(r) : r[i] = Encoded(c, n, q[n])[i]
              /\ IsStream(SubSeq(r, Size(r) + 1, Len(r)) \o w, c, q, n + 1)
<1> DEFINE s == r \o w
           x == q[n]
           u == Units(x)
           e == Encoded(c, n, x)
<1>1. /\ s \in Seq(Unit) /\ Len(s) = Len(r) + Len(w)
      /\ \A i \in 1..Len(r) : s[i] = r[i]
      /\ Len(r) \in Nat /\ Len(w) \in Nat /\ Len(r) >= 2
  <2>1. Len(r) \in Nat /\ Len(w) \in Nat
    OBVIOUS
  <2> QED
    BY <2>1, Joint, NeededFits
<1> HIDE DEF s
<1>2. IsStream(s, c, q, n)
  BY DEF s
<1>3. /\ n \in 1..Len(q) /\ x \in Request /\ u <= Len(s)
      /\ \A i \in 1..u : s[i] = e[i]
  <2>1. s \in Seq(Unit) /\ Len(s) # 0
    BY <1>1
  <2>2. /\ n \in 1..Len(q) /\ q[n] \in Request /\ Units(q[n]) <= Len(s)
        /\ \A i \in 1..Units(q[n]) : s[i] = Encoded(c, n, q[n])[i]
    BY <1>2, <2>1, StreamFirst
  <2> QED
    BY <2>2
<1>4. n \in Nat
  BY <1>3
<1> HIDE DEF x
<1>5. /\ x.big \in BOOLEAN /\ x.len \in Nat /\ u \in Nat /\ u >= 2
      /\ (x.big => x.len \in Big /\ u >= 4 /\ (x.len >= 2 => u = 2 * x.len))
      /\ (~x.big => x.len \in Plain /\ u = IF x.len = 0 THEN 2 ELSE 2 * x.len)
  BY <1>3, UnitsOf
<1>6. \A i \in 1..u : e[i].length = IF i = (IF x.big THEN 3 ELSE 2) THEN x.len
                                     ELSE IF x.big /\ i \in {2, 4} THEN 0 ELSE Noise
  BY <1>3, <1>4, EncodedUnits
<1> HIDE DEF u, e
<1>7. r[2].length = IF x.big THEN 0 ELSE x.len
  <2>1. 2 \in 1..Len(r) /\ 2 \in 1..u
    BY <1>1, <1>5
  <2>2. r[2] = e[2]
    BY <1>1, <1>3, <2>1
  <2> QED
    BY <1>5, <1>6, <2>1, <2>2
<1>8. IsBig(r, 0) <=> x.big
  <2>1. Len(r) - 0 >= 2 /\ r[0 + 2] = r[2] /\ 0 + 2 = 2
    BY <1>1
  <2>2. IsBig(r, 0) <=> r[2].length = 0 /\ Big # {}
    <3>1. 2 * r[2].length = 0 <=> r[2].length = 0
      BY <1>5, <1>7
    <3> QED
      BY <2>1, <3>1 DEF IsBig, get_req_len, big_requests
  <2> QED
    BY <1>5, <1>7, <2>2, ReaderAssumption
<1>9. Needed(r, 0) = 2 * x.len
  <2>0. Len(r) - 0 = Len(r) /\ 0 + 2 = 2 /\ 0 + 3 = 3 /\ ~(Len(r) < 2)
    BY <1>1
  <2>1. CASE ~x.big
    BY <1>7, <1>8, <2>0, <2>1 DEF Needed, get_req_len
  <2>2. CASE x.big
    <3>1. Len(r) >= 4
      BY <1>8, <2>2, NeededFits
    <3>2. Needed(r, 0) = 2 * r[3].length
      BY <1>1, <1>8, <2>0, <2>2, <3>1 DEF Needed, get_big_req_len
    <3>3. 3 \in 1..Len(r) /\ 3 \in 1..u
      BY <1>1, <1>5, <2>2, <3>1
    <3>4. r[3] = e[3]
      BY <1>1, <1>3, <3>3
    <3> QED
      BY <1>6, <2>2, <3>2, <3>3, <3>4
  <2> QED
    BY <2>1, <2>2
<1>10. ASSUME x.big => x.len >= 2
       PROVE  /\ Size(r) = u /\ \A i \in 1..u : r[i] = e[i]
              /\ IsStream(SubSeq(r, u + 1, Len(r)) \o w, c, q, n + 1)
  <2>1. Size(r) = u
    <3>1. (2 * x.len) \div 2 = x.len
      BY <1>5
    <3>2. ~x.big /\ x.len = 0 => Big = {}
      BY <1>5, ReaderAssumption
    <3>3. x.big => Big # {}
      BY <1>5
    <3>4. Size(r) = IF x.len > 0 THEN 2 * x.len ELSE IF Big # {} THEN 4 ELSE 2
      BY <1>9, <3>1 DEF Size, big_requests
    <3> QED
      BY <1>5, <1>10, <3>2, <3>3, <3>4
  <2>2. Size(r) <= Len(r)
    BY SizeFits
  <2>3. \A i \in 1..u : r[i] = e[i]
    BY <1>1, <1>3, <1>5, <2>1, <2>2
  <2>4. IsStream(SubSeq(s, u + 1, Len(s)), c, q, n + 1)
    BY <1>1, <1>2, <1>3, StreamRest DEF u, x
  <2>5. SubSeq(s, u + 1, Len(s)) = SubSeq(r, u + 1, Len(r)) \o w
    BY <1>1, <1>5, <2>1, <2>2, PieceOfBoth DEF s
  <2> QED
    BY <2>1, <2>3, <2>4, <2>5
<1> QED
  BY <1>3, <1>7, <1>8, <1>9, <1>10 DEF x, u, e

LEMMA HasRest ==
  ASSUME NEW b, Sound(b), b.lenLastReq = 0
  PROVE  Len(b.data) - b.bufptr = Len(Rest(b)) /\ Needed(b.data, b.bufptr) = Needed(Rest(b), 0)
<1>1. b.data \in Seq(Unit) /\ b.bufptr \in Nat /\ b.bufptr + b.lenLastReq = b.bufptr /\ b.bufptr <= Len(b.data)
  <2>1. b.bufptr + 0 = b.bufptr
    BY SoundParts
  <2> QED
    BY <2>1, SoundParts
<1>2. Rest(b) = SubSeq(b.data, b.bufptr + 1, Len(b.data))
  BY <1>1 DEF Rest
<1> QED
  BY <1>1, <1>2, LookedAt

LEMMA LeftUnits ==
  ASSUME NEW s, Buffers(s), NEW c \in Client
  PROVE  Left(s, c) \in Seq(Unit)
<1>1. CASE s.input[c] = 0
  BY <1>1 DEF Left
<1>2. CASE s.input[c] # 0
  <2>1. s.input[c] \in Buffer
    BY <1>2 DEF Buffers
  <2>2. Sound(s.buf[s.input[c]])
    BY <2>1 DEF Buffers
  <2> QED
    BY <1>2, <2>2, RestFacts DEF Left
<1> QED
  BY <1>1, <1>2

LEMMA FramedInit == Init => Framed
<1> SUFFICES ASSUME Init, NEW c \in Client PROVE FramedOf(c)
  BY DEF Framed
<1>1. /\ os.input[c] = 0 /\ req_len = -1 /\ sent[c] = <<>> /\ socket[c] = <<>> /\ done[c] = 0
  BY DEF Init
<1>2. Left(os, c) \o socket[c] = <<>>
  BY <1>1 DEF Left
<1>3. Coming(c) = 1 /\ ~Executing(c)
  BY <1>1 DEF Coming, Executing
<1>4. IsStream(<<>>, c, <<>>, 1)
  BY StreamEmpty
<1> QED
  BY <1>1, <1>2, <1>3, <1>4 DEF FramedOf

\* A client that is not executed, and that a step leaves alone.
LEMMA FramedApart ==
  ASSUME NEW d \in Client, FramedOf(d), ~Executing(d), ~Executing(d)',
         Left(os', d) = Left(os, d), socket'[d] = socket[d],
         sent'[d] = sent[d], done'[d] = done[d], d \notin lost' => d \notin lost
  PROVE  FramedOf(d)'
BY DEF FramedOf, Coming

\* What a read has in the buffer, and what it leaves in the socket.
LEMMA ReadStream ==
  ASSUME Safe, Framed, NEW c \in Client, NEW b, NEW k \in 0..Len(socket[c]), Read(c, b, k)
  PROVE  LET r == Rest(b)
             w == socket'[c]
         IN /\ Buffers(os) /\ Owned(os) /\ Available(os) /\ Sound(b)
            /\ r \in Seq(Unit) /\ w \in Seq(Unit)
            /\ HasRequest(b) <=> Len(r) >= Needed(r, 0)
            /\ \A d \in Client \ {c} : socket'[d] = socket[d]
            /\ c \notin lost => IsStream(r \o w, c, sent[c], done[c] + 1)
<1> DEFINE r == Rest(b)
           w == SubSeq(socket[c], k + 1, Len(socket[c]))
<1>2. /\ Buffers(os) /\ Owned(os) /\ Available(os) /\ Sound(b) /\ b.lenLastReq = 0 /\ b.size > 0
      /\ req_len = -1
  BY DEF Safe, Read
<1>3. /\ socket[c] \in Seq(Unit) /\ socket'[c] = w
      /\ \A d \in Client \ {c} : socket'[d] = socket[d]
  BY DEF Safe, Clients, Read
<1>4. /\ r \in Seq(Unit) /\ w \in Seq(Unit)
      /\ HasRequest(b) <=> Len(r) >= Needed(r, 0)
  <2>1. r \in Seq(Unit)
    BY <1>2, RestFacts
  <2>2. w \in Seq(Unit)
    <3>1. k \in Nat /\ Len(socket[c]) \in Nat /\ k <= Len(socket[c])
      BY <1>3
    <3> QED
      BY <1>3, <3>1, Piece
  <2>3. HasRequest(b) <=> Len(r) >= Needed(r, 0)
    <3>1. Len(b.data) - b.bufptr = Len(r) /\ Needed(b.data, b.bufptr) = Needed(r, 0)
      BY <1>2, HasRest
    <3> QED
      BY <3>1 DEF HasRequest
  <2> QED
    BY <2>1, <2>2, <2>3
<1>5. r \o w = Left(os, c) \o socket[c]
  <2> DEFINE l == Left(os, c)
             v == socket[c]
  <2>1. r = l \o SubSeq(v, 1, k)
    BY DEF Read
  <2>2. l \in Seq(Unit)
    BY <1>2, LeftUnits
  <2>3. v \in Seq(Unit) /\ k \in 0..Len(v)
    BY <1>3
  <2> HIDE DEF l, v, r
  <2>4. (l \o SubSeq(v, 1, k)) \o SubSeq(v, k + 1, Len(v)) = l \o v
    BY <2>2, <2>3, Handed
  <2> QED
    BY <2>1, <2>4 DEF l, v
<1>6. Coming(c) = done[c] + 1
  BY <1>2 DEF Executing, Coming
<1>7. c \notin lost => IsStream(r \o w, c, sent[c], done[c] + 1)
  BY <1>5, <1>6 DEF Framed, FramedOf
<1> QED
  BY <1>2, <1>3, <1>4, <1>7

LEMMA FramedRead ==
  ASSUME Safe, Framed, NEW c \in Client,
         ReadBuffered(c) \/ ReadSocket(c) \/ ReadNothing(c)
  PROVE  Framed'
<1>1. PICK b, k : k \in 0..Len(socket[c]) /\ Read(c, b, k)
  BY Reads
<1> DEFINE r == Rest(b)
           w == socket'[c]
           n == done[c] + 1
           q == sent[c]
           y == os'.buf[os'.input[c]]
<1>2. /\ b.lenLastReq = 0 /\ b.size > 0
      /\ turn \in {0, c} /\ req_len = -1 /\ UNCHANGED <<sent, done>>
  BY <1>1 DEF Read
<1>3. q \in Seq(Request) /\ done[c] \in Nat
  BY DEF Safe, Clients
<1>4. /\ Buffers(os) /\ Owned(os) /\ Available(os) /\ Sound(b)
      /\ r \in Seq(Unit) /\ w \in Seq(Unit)
      /\ HasRequest(b) <=> Len(r) >= Needed(r, 0)
      /\ \A d \in Client \ {c} : socket'[d] = socket[d]
      /\ c \notin lost => IsStream(r \o w, c, q, n)
  BY <1>1, ReadStream
<1> HIDE DEF w, r
<1>5. CASE ~HasRequest(b)
  <2>1. /\ turn' = 0 /\ req_len' = -1 /\ lost' = lost /\ Left(os', c) = r
        /\ \A d \in Client \ {c} : Left(os', d) = Left(os, d)
    <3>1. ReturnNothing(c, b)
      BY <1>1, <1>5 DEF Read
    <3> QED
      BY <1>2, <1>4, <3>1, NothingStep DEF r
  <2>2. FramedOf(c)'
    <3>1. Coming(c)' = n /\ ~Executing(c)'
      BY <1>2, <2>1 DEF Coming, Executing
    <3> QED
      BY <1>2, <1>4, <2>1, <3>1 DEF FramedOf, w
  <2>3. ASSUME NEW d \in Client \ {c} PROVE FramedOf(d)'
    <3>1. ~Executing(d) /\ ~Executing(d)'
      BY <1>2, <2>1 DEF Executing
    <3> QED
      BY <1>2, <1>4, <2>1, <3>1, FramedApart DEF Framed
  <2> QED
    BY <2>2, <2>3 DEF Framed
<1>6. CASE HasRequest(b)
  <2> DEFINE words == Needed(r, 0) \div 2
  <2> HIDE DEF words, y
  <2>1. /\ turn' = c
        /\ req_len' = IF ~IsBig(r, 0) THEN words ELSE IF words = 0 THEN MAXCARD32 ELSE words - 1
        /\ lost' = IF IsBig(r, 0) /\ Needed(r, 0) < 4 THEN lost \union {c} ELSE lost
        /\ \A d \in Client \ {c} : Left(os', d) = Left(os, d)
        /\ ~IsBig(r, 0) =>
             /\ y.lenLastReq = Size(r)
             /\ \A i \in 1..Size(r) : y.data[y.bufptr + i] = r[i]
        /\ IsBig(r, 0) =>
             /\ y.lenLastReq = Size(r) - 2
             /\ \A i \in 1..Size(r) - 2 : y.data[y.bufptr + i] = IF i <= 2 THEN r[i] ELSE r[i + 2]
        /\ (IsBig(r, 0) => Size(r) >= 4) => Left(os', c) = SubSeq(r, Size(r) + 1, Len(r))
    <3>1. ReturnRequest(c, b)
      BY <1>1, <1>6 DEF Read
    <3>2. /\ Buffers(os) /\ Owned(os) /\ Available(os)
          /\ Sound(b) /\ b.lenLastReq = 0 /\ b.size > 0
      BY <1>2, <1>4
    <3> QED
      BY <1>6, <3>1, <3>2, ReturnStep DEF r, words, y
  <2>2. ASSUME c \notin lost' PROVE FramedOf(c)'
    <3>1. c \notin lost /\ ~(IsBig(r, 0) /\ Needed(r, 0) < 4)
      BY <2>1, <2>2
    <3>2. /\ n \in 1..Len(q) /\ q[n] \in Request
          /\ IsBig(r, 0) <=> q[n].big
          /\ Needed(r, 0) = 2 * q[n].len
          /\ (q[n].big => q[n].len >= 2) =>
               /\ Size(r) = Units(q[n])
               /\ \A i \in 1..Size(r) : r[i] = Encoded(c, n, q[n])[i]
               /\ IsStream(SubSeq(r, Size(r) + 1, Len(r)) \o w, c, q, n + 1)
      <4> HIDE DEF n, q
      <4> QED
        BY <1>3, <1>4, <1>6, <3>1, FirstRequest
    <3>3. /\ q[n].len \in Nat /\ (q[n].big => Units(q[n]) >= 4) /\ Units(q[n]) \in Nat
          /\ q[n].big \in BOOLEAN
      BY <3>2, UnitsOf
    <3>4. q[n].big => q[n].len >= 2
      BY <3>1, <3>2, <3>3
    <3>5. /\ Size(r) = Units(q[n])
          /\ \A i \in 1..Size(r) : r[i] = Encoded(c, n, q[n])[i]
          /\ IsStream(SubSeq(r, Size(r) + 1, Len(r)) \o w, c, q, n + 1)
      BY <3>2, <3>4
    <3>6. words = q[n].len
      BY <3>2, <3>3 DEF words
    <3>7. Left(os', c) = SubSeq(r, Size(r) + 1, Len(r))
      BY <2>1, <3>2, <3>3, <3>5
    <3>8. req_len' = IF q[n].big THEN q[n].len - 1 ELSE q[n].len
      <4>1. req_len' = IF ~q[n].big THEN words ELSE IF words = 0 THEN MAXCARD32 ELSE words - 1
        BY <2>1, <3>2
      <4>2. q[n].big => words # 0
        BY <3>3, <3>4, <3>6
      <4> QED
        BY <3>6, <4>1, <4>2
    <3>9. Executing(c)'
      BY <2>1, <3>3, <3>4, <3>8 DEF Executing
    <3>10. Coming(c)' = n + 1
      BY <1>2, <1>3, <3>9 DEF Coming
    <3>11. Executed(c)'
      <4> DEFINE e == Encoded(c, n, q[n])
                 u == Units(q[n])
      <4>1. q[n].big =>
              /\ y.lenLastReq = u - 2
              /\ \A i \in 1..u - 2 : y.data[y.bufptr + i] = IF i > 2 THEN e[i + 2] ELSE e[i]
        <5>1. \A i \in 1..u - 2 : i \in 1..u /\ i + 2 \in 1..u /\ (i <= 2 <=> ~(i > 2))
          BY <3>3
        <5> HIDE DEF e, u
        <5> QED
          BY <2>1, <3>2, <3>5, <5>1 DEF e, u
      <4>2. ~q[n].big => y.lenLastReq = u /\ \A i \in 1..u : y.data[y.bufptr + i] = e[i]
        BY <2>1, <3>2, <3>5
      <4>3. sent' = sent /\ done'[c] + 1 = n
        BY <1>2
      <4> HIDE DEF e, u, n
      <4>4. /\ y.lenLastReq = IF q[n].big THEN u - 2 ELSE u
            /\ \A i \in 1..y.lenLastReq :
                 y.data[y.bufptr + i] = IF q[n].big /\ i > 2 THEN e[i + 2] ELSE e[i]
        BY <3>3, <4>1, <4>2
      <4> QED
        BY <3>2, <3>4, <3>8, <4>3, <4>4 DEF Executed, e, u, y
    <3> QED
      BY <1>2, <3>5, <3>7, <3>10, <3>11 DEF FramedOf, w
  <2>3. c \in lost' => FramedOf(c)'
    BY DEF FramedOf
  <2>4. ASSUME NEW d \in Client \ {c} PROVE FramedOf(d)'
    <3>1. ~Executing(d) /\ ~Executing(d)'
      BY <1>2, <2>1 DEF Executing
    <3>2. d \notin lost' => d \notin lost
      BY <2>1
    <3> QED
      BY <1>2, <1>4, <2>1, <3>1, <3>2, FramedApart DEF Framed
  <2> QED
    BY <2>2, <2>3, <2>4 DEF Framed
<1> QED
  BY <1>5, <1>6

LEMMA FramedExecute ==
  ASSUME Safe, Framed, NEW c \in Client, Execute(c)
  PROVE  Framed'
<1>1. /\ Executing(c) /\ turn = c /\ req_len' = -1
      /\ done' = [done EXCEPT ![c] = @ + 1] /\ UNCHANGED <<os, sent, socket, lost>>
  BY DEF Execute, Executing
<1>2. done \in [Client -> Nat]
  BY DEF Safe, Clients
<1>3. done'[c] = done[c] + 1 /\ done[c] \in Nat /\ \A d \in Client \ {c} : done'[d] = done[d]
  BY <1>1, <1>2
<1>4. \A d \in Client : ~Executing(d)' /\ Left(os', d) = Left(os, d)
  BY <1>1 DEF Executing
<1>5. FramedOf(c)'
  <2>1. Coming(c)' = Coming(c)
    BY <1>1, <1>3, <1>4 DEF Coming
  <2> QED
    BY <1>1, <1>4, <2>1 DEF Framed, FramedOf
<1>6. ASSUME NEW d \in Client \ {c} PROVE FramedOf(d)'
  <2>1. ~Executing(d)
    BY <1>1 DEF Executing
  <2> QED
    BY <1>1, <1>3, <1>4, <2>1, FramedApart DEF Framed
<1> QED
  BY <1>5, <1>6 DEF Framed

\* What is put back is the request, unless it is a Big Request.
LEMMA PutBackWhole ==
  ASSUME Safe, Framed, NEW c \in Client, c \notin lost, ResetCurrentRequest(c),
         LET b == os.buf[os.input[c]] IN ~IsBig(b.data, b.bufptr)
  PROVE  LET n == done[c] + 1
             r == sent[c][n]
             b == os.buf[os.input[c]]
         IN /\ n \in 1..Len(sent[c]) /\ r \in Request
            /\ Sound(b) /\ b.lenLastReq = Units(r)
            /\ Left(os', c) = SubSeq(b.data, b.bufptr + 1, Len(b.data))
            /\ Left(os', c) = Encoded(c, n, r) \o Left(os, c)
<1> DEFINE n == done[c] + 1
           r == sent[c][n]
           b == os.buf[os.input[c]]
           p == b.bufptr
           u == b.lenLastReq
           e == Encoded(c, n, r)
           s == SubSeq(b.data, p + 1, Len(b.data))
           l == Rest(b)
           v == e \o l
<1>1. Executing(c)
  BY DEF ResetCurrentRequest
<1>2. n \in 1..Len(sent[c]) /\ r \in Request
  <2>1. n \in 1..Len(sent[c])
    BY <1>1 DEF Framed, FramedOf, Executed
  <2>2. sent[c] \in Seq(Request)
    BY DEF Safe, Clients
  <2> HIDE DEF n
  <2> QED
    BY <2>1, <2>2
<1>3. /\ u = IF r.big THEN Units(r) - 2 ELSE Units(r)
      /\ \A i \in 1..u : b.data[p + i] = IF r.big /\ i > 2 THEN e[i + 2] ELSE e[i]
  BY <1>1 DEF Framed, FramedOf, Executed
<1>4. /\ Sound(b) /\ Left(os', c) = Rest(PutBack(b))
      /\ ~IsBig(b.data, p) /\ PutBack(b) = [b EXCEPT !.lenLastReq = 0]
  BY ResetStep
<1>5. Left(os, c) = l
  BY <1>1 DEF Left, Safe, Turns
<1> HIDE DEF r, b, n
<1>6. /\ b.data \in Seq(Unit) /\ Len(b.data) \in Nat /\ p \in Nat /\ u \in Nat
      /\ p + u \in Nat /\ p + u <= Len(b.data)
  BY <1>4, SoundParts
<1>7. /\ Units(r) \in Nat /\ Units(r) >= 2 /\ r.big \in BOOLEAN
      /\ r.big => r.len \in Big /\ Units(r) >= 4
  BY <1>2, UnitsOf
<1>8. n \in Nat
  BY <1>2
<1>9. e \in Seq(Unit) /\ Len(e) = Units(r) /\ (r.big => e[2].length = 0)
  <2>1. /\ e \in Seq(Unit) /\ Len(e) = Units(r)
        /\ \A i \in 1..Units(r) :
             e[i].length = IF i = (IF r.big THEN 3 ELSE 2) THEN r.len
                           ELSE IF r.big /\ i \in {2, 4} THEN 0 ELSE Noise
    BY <1>2, <1>8, EncodedUnits
  <2>2. 2 \in 1..Units(r)
    BY <1>7
  <2> HIDE DEF e
  <2> QED
    BY <2>1, <2>2
<1>10. ~r.big /\ u = Units(r) /\ \A i \in 1..u : b.data[p + i] = e[i]
  <2>1. ASSUME r.big PROVE FALSE
    <3>1. 2 \in 1..u /\ Len(b.data) - p >= 2
      BY <1>3, <1>6, <1>7, <2>1
    <3> HIDE DEF e, u
    <3>2. b.data[p + 2].length = 0
      BY <1>3, <1>9, <2>1, <3>1
    <3>3. Big # {}
      BY <1>7, <2>1
    <3> QED
      BY <1>4, <3>1, <3>2, <3>3 DEF IsBig, get_req_len, big_requests
  <2> QED
    BY <1>3, <1>7, <2>1
<1>11. Left(os', c) = s
  <2>1. PutBack(b) = [b EXCEPT !.lenLastReq = 0]
    BY <1>4, <1>10
  <2>2. b \in Room
    BY <1>4 DEF Sound
  <2> DEFINE x == [b EXCEPT !.lenLastReq = 0]
  <2>3. x.data = b.data /\ x.bufptr + x.lenLastReq = p
    BY <1>6, <2>2 DEF Room
  <2> HIDE DEF x
  <2>4. Rest(x) = s
    BY <2>3 DEF Rest
  <2> QED
    BY <1>4, <2>1, <2>4 DEF x
<1>12. s = v
  <2>1. /\ s \in Seq(Unit) /\ Len(s) = Len(b.data) - p
        /\ \A i \in 1..Len(b.data) - p : s[i] = b.data[p + i]
    <3> DEFINE data == b.data
    <3>1. data \in Seq(Unit) /\ Len(data) \in Nat /\ p \in Nat /\ p <= Len(data)
      BY <1>6
    <3> HIDE DEF data, p
    <3>2. /\ SubSeq(data, p + 1, Len(data)) \in Seq(Unit)
          /\ Len(SubSeq(data, p + 1, Len(data))) = Len(data) - p
          /\ \A i \in 1..Len(data) - p : SubSeq(data, p + 1, Len(data))[i] = data[p + i]
      BY <3>1, Piece
    <3> QED
      BY <3>2 DEF data
  <2>2. /\ l \in Seq(Unit) /\ Len(l) = Len(b.data) - (p + u)
        /\ \A i \in 1..Len(l) : l[i] = b.data[p + u + i]
    BY <1>4, RestFacts
  <2> HIDE DEF e, l, s
  <2>3. /\ v \in Seq(Unit) /\ Len(v) = u + Len(l)
        /\ \A i \in 1..u : v[i] = e[i]
        /\ \A i \in 1..Len(l) : v[u + i] = l[i]
    <3>0. e \in Seq(Unit) /\ l \in Seq(Unit)
      BY <1>9, <2>2
    <3>1. Len(e) = u
      BY <1>9, <1>10
    <3>2. /\ v \in Seq(Unit) /\ Len(v) = Len(e) + Len(l)
          /\ \A i \in 1..Len(e) : v[i] = e[i]
          /\ \A i \in 1..Len(l) : v[Len(e) + i] = l[i]
      BY <3>0, Joint
    <3> HIDE DEF v, u
    <3> QED
      BY <3>1, <3>2
  <2> HIDE DEF v, u, p
  <2>4. Len(v) = Len(s)
    BY <1>6, <2>1, <2>2, <2>3
  <2>5. ASSUME NEW i \in 1..Len(s) PROVE s[i] = v[i]
    <3>1. s[i] = b.data[p + i]
      BY <1>6, <2>1, <2>5
    <3>2. CASE i <= u
      <4>1. i \in 1..u
        BY <1>6, <2>5, <3>2
      <4> QED
        BY <1>10, <2>3, <3>1, <4>1
    <3>3. CASE ~(i <= u)
      <4> DEFINE j == i - u
      <4>1. j \in 1..Len(l) /\ i = u + j /\ p + i = p + u + j
        <5>1. \A x, y, z \in Nat : y + z <= x => \A k \in 1..x - y : ~(k <= z) =>
                k - z \in 1..x - (y + z) /\ k = z + (k - z) /\ y + k = y + z + (k - z)
          OBVIOUS
        <5> QED
          BY <1>6, <2>1, <2>2, <2>5, <3>3, <5>1
      <4> HIDE DEF j
      <4> QED
        BY <2>2, <2>3, <3>1, <4>1
    <3> QED
      BY <3>2, <3>3
  <2> QED
    BY <2>1, <2>3, <2>4, <2>5, Alike
<1> QED
  BY <1>2, <1>3, <1>4, <1>5, <1>10, <1>11, <1>12 DEF n, r, b

LEMMA FramedReset ==
  ASSUME Safe, Framed, NEW c \in Client, ResetCurrentRequest(c)
  PROVE  Framed'
<1> DEFINE n == done[c] + 1
           q == sent[c]
           e == Encoded(c, n, q[n])
           l == Left(os, c)
           w == socket[c]
           b == os.buf[os.input[c]]
<1>1. Executing(c) /\ turn = c /\ req_len' = -1 /\ turn' = 0 /\ UNCHANGED <<sent, socket, done>>
  BY DEF ResetCurrentRequest, Executing, requests
<1>2. lost' = IF IsBig(b.data, b.bufptr) THEN lost \union {c} ELSE lost
  BY ResetStep
<1>3. \A d \in Client \ {c} : Left(os', d) = Left(os, d)
  BY ResetStep
<1>4. \A d \in Client : ~Executing(d)'
  BY <1>1 DEF Executing
<1>5. ASSUME c \notin lost' PROVE FramedOf(c)'
  <2>1. c \notin lost /\ ~IsBig(b.data, b.bufptr)
    BY <1>2, <1>5
  <2>2. n \in 1..Len(q) /\ q[n] \in Request /\ Left(os', c) = e \o l
    BY <2>1, PutBackWhole
  <2>3. done[c] \in Nat /\ q \in Seq(Request) /\ w \in Seq(Unit) /\ l \in Seq(Unit)
    BY LeftUnits DEF Safe, Clients
  <2>4. Coming(c) = n + 1 /\ Coming(c)' = n
    BY <1>1, <1>4, <2>3 DEF Coming
  <2>5. IsStream(l \o w, c, q, n + 1)
    BY <2>1, <2>4 DEF Framed, FramedOf
  <2>6. e \in Seq(Unit)
    BY <2>2, EncodedUnits
  <2>7. l \o w \in Seq(Unit)
    BY <2>3
  <2>8. IsStream(e \o (l \o w), c, q, n)
    <3> HIDE DEF n, l, w, q
    <3> QED
      BY <2>2, <2>3, <2>5, <2>7, StreamBefore
  <2>9. e \o (l \o w) = (e \o l) \o w
    <3>1. e \in Seq(Unit) /\ l \in Seq(Unit) /\ w \in Seq(Unit)
      BY <2>3, <2>6
    <3>2. \A x, y, z \in Seq(Unit) : x \o (y \o z) = (x \o y) \o z
      BY Grouped
    <3> HIDE DEF e, l, w
    <3> QED
      BY <3>1, <3>2
  <2>10. IsStream(Left(os', c) \o socket'[c], c, sent'[c], n)
    BY <1>1, <2>2, <2>8, <2>9
  <2> QED
    BY <1>4, <2>4, <2>10 DEF FramedOf
<1>6. c \in lost' => FramedOf(c)'
  BY DEF FramedOf
<1>7. ASSUME NEW d \in Client \ {c} PROVE FramedOf(d)'
  <2>1. ~Executing(d) /\ (d \notin lost' => d \notin lost)
    BY <1>1, <1>2 DEF Executing
  <2> QED
    BY <1>1, <1>3, <1>4, <2>1, FramedApart DEF Framed
<1> QED
  BY <1>5, <1>6, <1>7 DEF Framed

\* A client that another one does not disturb, executed or not.
LEMMA FramedBeside ==
  ASSUME NEW d \in Client, Safe, FramedOf(d), Left(os', d) = Left(os, d),
         Executing(d)' <=> Executing(d),
         Executing(d) => Same(os, os', d) /\ req_len' = req_len, d \notin lost' => d \notin lost,
         socket'[d] = socket[d], sent'[d] = sent[d], done'[d] = done[d]
  PROVE  FramedOf(d)'
<1>1. Coming(d)' = Coming(d)
  BY DEF Coming
<1>2. Executing(d) => os'.input[d] = os.input[d] /\ os'.buf[os'.input[d]] = os.buf[os.input[d]]
  BY DEF Same, Safe, Turns
<1>3. d \notin lost' /\ Executing(d)' => Executed(d)'
  BY <1>2 DEF FramedOf, Executed
<1> QED
  BY <1>1, <1>3 DEF FramedOf

LEMMA FramedGone ==
  ASSUME Safe, Framed, NEW c \in Client, Close(c) \/ ReadFails(c)
  PROVE  Framed'
<1>1. /\ Left(os', c) = <<>>
      /\ \A d \in Client \ {c} :
           Left(os', d) = Left(os, d) /\ (Executing(d) => Same(os, os', d))
  BY GoneStep
<1>2. /\ IF turn = c THEN turn' = 0 /\ req_len' = -1 ELSE UNCHANGED <<turn, req_len>>
      /\ sent' = [sent EXCEPT ![c] = <<>>]
      /\ socket' = [socket EXCEPT ![c] = <<>>] /\ done' = [done EXCEPT ![c] = 0]
      /\ lost' = lost \ {c}
  BY GoneStep DEF Gone
<1>3. sent \in [Client -> Seq(Request)] /\ socket \in [Client -> Seq(Unit)] /\ done \in [Client -> Nat]
  BY DEF Safe, Clients
<1>4. /\ sent'[c] = <<>> /\ socket'[c] = <<>> /\ done'[c] = 0
      /\ \A d \in Client \ {c} : sent'[d] = sent[d] /\ socket'[d] = socket[d] /\ done'[d] = done[d]
  BY <1>2, <1>3
<1>5. ~Executing(c)'
  BY <1>2, ReaderAssumption DEF Executing
<1>6. FramedOf(c)'
  <2>1. Coming(c)' = 1
    BY <1>4, <1>5 DEF Coming
  <2>2. Left(os', c) \o socket'[c] = <<>>
    BY <1>1, <1>4
  <2>3. IsStream(<<>>, c, <<>>, 1)
    BY StreamEmpty
  <2> QED
    BY <1>4, <1>5, <2>1, <2>2, <2>3 DEF FramedOf
<1>7. ASSUME NEW d \in Client \ {c} PROVE FramedOf(d)'
  <2>1. (Executing(d)' <=> Executing(d)) /\ (Executing(d) => req_len' = req_len)
    BY <1>2, ReaderAssumption DEF Executing
  <2>2. d \notin lost' => d \notin lost
    BY <1>2
  <2> QED
    BY <1>1, <1>4, <2>1, <2>2, FramedBeside DEF Framed
<1> QED
  BY <1>6, <1>7 DEF Framed

LEMMA FramedSend ==
  ASSUME Safe, Framed, NEW c \in Client, Send(c)
  PROVE  Framed'
<1>1. PICK r \in Request :
        /\ sent' = [sent EXCEPT ![c] = Append(@, r)]
        /\ socket' = [socket EXCEPT ![c] = @ \o Encoded(c, Len(sent[c]) + 1, r)]
  BY DEF Send
<1>2. UNCHANGED <<os, turn, req_len, done, lost>>
  BY DEF Send
<1>3. sent \in [Client -> Seq(Request)] /\ socket \in [Client -> Seq(Unit)]
  BY DEF Safe, Clients
<1> DEFINE q == sent[c]
           l == Left(os, c)
           w == socket[c]
           e == Encoded(c, Len(q) + 1, r)
<1>4. /\ sent'[c] = Append(q, r) /\ socket'[c] = w \o e
      /\ \A d \in Client \ {c} : sent'[d] = sent[d] /\ socket'[d] = socket[d]
  BY <1>1, <1>3
<1>5. \A d \in Client : /\ Executing(d)' <=> Executing(d)
                        /\ Coming(d)' = Coming(d)
                        /\ Same(os, os', d) /\ Left(os', d) = Left(os, d)
  BY <1>2 DEF Executing, Coming, Same
<1>6. q \in Seq(Request) /\ w \in Seq(Unit) /\ l \in Seq(Unit) /\ Len(q) \in Nat
  BY <1>3, LeftUnits DEF Safe
<1>7. ASSUME c \notin lost PROVE IsStream(Left(os', c) \o socket'[c], c, sent'[c], Coming(c)')
  <2> DEFINE n == Coming(c)
  <2>1. IsStream(l \o w, c, q, n)
    BY <1>7 DEF Framed, FramedOf
  <2>2. l \o w \in Seq(Unit)
    BY <1>6
  <2> HIDE DEF n, q, l, w
  <2>3. IsStream((l \o w) \o e, c, Append(q, r), n)
    BY <1>6, <2>1, <2>2, StreamMore
  <2>4. (l \o w) \o e = l \o (w \o e)
    <3>1. Len(q) + 1 \in Nat
      BY <1>6
    <3>2. e \in Seq(Unit)
      BY <3>1, EncodedUnits
    <3>3. l \in Seq(Unit) /\ w \in Seq(Unit) /\ e \in Seq(Unit)
      BY <1>6, <3>2
    <3> HIDE DEF e
    <3> QED
      BY <3>3, Grouped
  <2> QED
    BY <1>4, <1>5, <2>3, <2>4 DEF n, q, l, w
<1>8. ASSUME c \notin lost, Executing(c) PROVE Executed(c)'
  <2> DEFINE n == done[c] + 1
             p == Append(q, r)
  <2>1. Executed(c) /\ n \in 1..Len(q)
    BY <1>8 DEF Framed, FramedOf, Executed
  <2>2. p[n] = q[n] /\ n \in 1..Len(p)
    <3> HIDE DEF n
    <3> QED
      BY <1>6, <2>1
  <2> HIDE DEF p
  <2>3. sent'[c][n] = sent[c][n] /\ n \in 1..Len(sent'[c])
    BY <1>4, <2>2 DEF p
  <2> QED
    BY <1>2, <2>1, <2>3 DEF Executed
<1>9. FramedOf(c)'
  BY <1>2, <1>5, <1>7, <1>8 DEF FramedOf
<1>10. ASSUME NEW d \in Client \ {c} PROVE FramedOf(d)'
  BY <1>2, <1>4, <1>5, FramedBeside DEF Framed
<1> QED
  BY <1>9, <1>10 DEF Framed

LEMMA FramedNext == Safe /\ Framed /\ [Next]_vars => Framed'
<1> SUFFICES ASSUME Safe, Framed, [Next]_vars PROVE Framed'
  OBVIOUS
<1>1. CASE Next
  <2>1. PICK c \in Client :
          \/ ReadBuffered(c) \/ ReadSocket(c) \/ ReadNothing(c) \/ ReadFails(c)
          \/ Execute(c) \/ ResetCurrentRequest(c)
          \/ Close(c) \/ Send(c)
    BY <1>1 DEF Next
  <2> QED
    BY <2>1, FramedRead, FramedExecute, FramedReset, FramedGone, FramedSend
<1>2. CASE UNCHANGED vars
  <2>1. UNCHANGED <<os, turn, req_len, sent, socket, done, lost>>
    BY <1>2 DEF vars, requests
  <2> QED
    BY <2>1 DEF Framed, FramedOf, Coming, Executing, Executed, Left
<1> QED
  BY <1>1, <1>2

\* RequestsFramed holds: until a client sends a Big Request whose length has no
\* room for its header, or one of its Big Requests is reset, what the handlers
\* are given is the next request it has sent, whole and in one piece and with
\* its length, however the socket cut it, whoever had the buffer before, however
\* often the buffer grew or shrank or the request was reset, and whatever
\* happens to the streams of other clients (os/io.c: ReadRequestFromClient,
\* ResetCurrentRequest).
THEOREM RequestsStayFramed == Spec => []RequestsFramed
<1>1. Init => Safe /\ Framed
  BY SafeInit, FramedInit
<1>2. Safe /\ Framed /\ [Next]_vars => Safe' /\ Framed'
  BY SafeNext, FramedNext
<1>3. ASSUME Safe, Framed PROVE RequestsFramed
  <2> SUFFICES ASSUME req_len # -1, turn \notin lost
               PROVE  ExecutedWhole
    BY DEF RequestsFramed
  <2> DEFINE c == turn
             n == done[c] + 1
             q == sent[c]
             r == q[n]
             e == Encoded(c, n, r)
             b == os.buf[os.input[c]]
             u == Units(r)
             m == b.bufptr + 2 * req_len
             s == SubSeq(b.data, b.bufptr + 1, m)
  <2>1. c \in Client /\ Executing(c)
    BY <1>3 DEF Safe, Turns, Executing
  <2>2. /\ n \in 1..Len(q) /\ (r.big => r.len >= 2)
        /\ req_len = IF r.big THEN r.len - 1 ELSE r.len
        /\ b.lenLastReq = IF r.big THEN u - 2 ELSE u
        /\ \A i \in 1..b.lenLastReq :
             b.data[b.bufptr + i] = IF r.big /\ i > 2 THEN e[i + 2] ELSE e[i]
    BY <1>3, <2>1 DEF Framed, FramedOf, Executed
  <2>3. Sound(b)
    <3>1. os.input[c] \in Buffer
      BY <1>3, <2>1 DEF Safe, Turns, Buffers
    <3> QED
      BY <1>3, <3>1 DEF Safe, Buffers
  <2>4. r \in Request /\ n \in Nat
    <3>1. q \in Seq(Request)
      BY <1>3, <2>1 DEF Safe, Clients
    <3> HIDE DEF n, q
    <3> QED
      BY <2>2, <3>1
  <2> HIDE DEF b, r, n, c
  <2>5. /\ b.data \in Seq(Unit) /\ Len(b.data) \in Nat /\ b.bufptr \in Nat /\ b.lenLastReq \in Nat
        /\ b.bufptr + b.lenLastReq <= Len(b.data)
    BY <2>3, SoundParts
  <2>6. /\ r.big \in BOOLEAN /\ r.len \in Nat /\ u \in Nat /\ u >= 2 * r.len /\ u >= 2
        /\ (r.big => u >= 4 /\ u = 2 * r.len)
    BY <2>2, <2>4, UnitsOf
  <2>7. e \in Seq(Unit) /\ Len(e) = u
    BY <2>1, <2>4, EncodedUnits
  <2>8. 2 * req_len \in Nat /\ 2 * req_len <= b.lenLastReq
    <3> HIDE DEF u, e
    <3> QED
      BY <2>2, <2>6
  <2> DEFINE k == 2 * req_len
  <2>9. /\ s \in Seq(Unit) /\ Len(s) = k
        /\ \A i \in 1..k : s[i] = b.data[b.bufptr + i]
    <3>0. \A x, y \in Nat : (x + y) - x = y /\ x <= x + y
      OBVIOUS
    <3>1. m \in Nat /\ b.bufptr <= m /\ m <= Len(b.data) /\ m - b.bufptr = k
      <4> HIDE DEF k
      <4>1. k \in Nat /\ m = b.bufptr + k /\ k <= b.lenLastReq
        BY <2>8 DEF k
      <4> HIDE DEF m
      <4> QED
        BY <2>5, <3>0, <4>1
    <3>2. /\ s \in Seq(Unit) /\ Len(s) = m - b.bufptr
          /\ \A i \in 1..m - b.bufptr : s[i] = b.data[b.bufptr + i]
      <4>1. m \in Nat /\ b.bufptr \in Nat /\ b.data \in Seq(Unit) /\ b.bufptr <= m /\ m <= Len(b.data)
        BY <2>5, <3>1
      <4> DEFINE p == b.bufptr
                 data == b.data
      <4> HIDE DEF m, p, data
      <4>2. m \in Nat /\ p \in Nat /\ data \in Seq(Unit) /\ p <= m /\ m <= Len(data)
        BY <4>1 DEF p, data
      <4>3. /\ SubSeq(data, p + 1, m) \in Seq(Unit) /\ Len(SubSeq(data, p + 1, m)) = m - p
            /\ \A i \in 1..m - p : SubSeq(data, p + 1, m)[i] = data[p + i]
        BY <4>2, Piece
      <4> QED
        BY <4>3 DEF p, data
    <3> HIDE DEF s, m, k
    <3> QED
      BY <3>1, <3>2
  <2>12. n <= Len(q)
    BY <2>2
  <2> SUFFICES s = Expected(c, n) /\ Len(Expected(c, n)) = k
    BY <2>12 DEF ExecutedWhole, s, m, c, n, q, b, k
  <2>10. CASE ~r.big
    <3> DEFINE t == SubSeq(e, 1, 2 * r.len)
    <3>1. k = 2 * r.len
      BY <2>2, <2>10
    <3>2. /\ t \in Seq(Unit) /\ Len(t) = k
          /\ \A i \in 1..k : t[i] = e[i]
      <4> DEFINE l == 2 * r.len
      <4> HIDE DEF e, u
      <4>1. 0 \in Nat /\ l \in Nat /\ 0 <= l /\ l <= Len(e) /\ l - 0 = l /\ 0 + 1 = 1
        BY <2>6, <2>7
      <4> HIDE DEF l
      <4>2. /\ SubSeq(e, 0 + 1, l) \in Seq(Unit) /\ Len(SubSeq(e, 0 + 1, l)) = l - 0
            /\ \A i \in 1..l - 0 : SubSeq(e, 0 + 1, l)[i] = e[0 + i]
        BY <2>7, <4>1, Piece
      <4>3. \A i \in 1..l : 0 + i = i
        BY <4>1
      <4>4. /\ SubSeq(e, 1, l) \in Seq(Unit) /\ Len(SubSeq(e, 1, l)) = l
            /\ \A i \in 1..l : SubSeq(e, 1, l)[i] = e[i]
        BY <4>1, <4>2, <4>3
      <4> HIDE DEF k
      <4> QED
        BY <3>1, <4>4 DEF l
    <3> HIDE DEF t, s
    <3>3. ASSUME NEW i \in 1..Len(s) PROVE s[i] = t[i]
      <4>1. i \in 1..k /\ i \in 1..b.lenLastReq
        BY <2>5, <2>8, <2>9, <3>3
      <4> HIDE DEF e, k
      <4> QED
        BY <2>2, <2>9, <2>10, <3>2, <4>1
    <3>4. s = t
      <4> HIDE DEF k, e
      <4> QED
        BY <2>9, <3>2, <3>3, Alike
    <3>5. Expected(c, n) = t
      BY <2>10 DEF Expected, t, r
    <3> QED
      BY <3>2, <3>4, <3>5
  <2>11. CASE r.big
    <3> DEFINE h == SubSeq(e, 1, 2)
               f == SubSeq(e, 5, u)
               t == h \o f
    <3>1. k = u - 2 /\ k \in Nat
      <4>1. req_len = r.len - 1
        BY <2>2, <2>11
      <4>2. r.len \in Nat /\ u = 2 * r.len /\ u >= 4
        BY <2>6, <2>11
      <4> HIDE DEF u
      <4> QED
        BY <4>1, <4>2
    <3> HIDE DEF k, e, u
    <3>2. /\ h \in Seq(Unit) /\ Len(h) = 2 /\ \A i \in 1..2 : h[i] = e[i]
      <4>0. 0 \in Nat /\ 2 \in Nat /\ 0 <= 2 /\ 2 <= Len(e) /\ 0 + 1 = 1 /\ 2 - 0 = 2 /\ \A i \in 1..2 : 0 + i = i
        BY <2>6, <2>7
      <4>1. /\ SubSeq(e, 0 + 1, 2) \in Seq(Unit) /\ Len(SubSeq(e, 0 + 1, 2)) = 2 - 0
            /\ \A i \in 1..2 - 0 : SubSeq(e, 0 + 1, 2)[i] = e[0 + i]
        BY <2>7, <4>0, Piece
      <4> QED
        BY <4>0, <4>1
    <3>3. /\ f \in Seq(Unit) /\ Len(f) = u - 4 /\ \A i \in 1..u - 4 : f[i] = e[4 + i]
      <4>0. 4 \in Nat /\ u \in Nat /\ 4 <= u /\ u <= Len(e) /\ 4 + 1 = 5
        BY <2>6, <2>7, <2>11
      <4>1. /\ SubSeq(e, 4 + 1, u) \in Seq(Unit) /\ Len(SubSeq(e, 4 + 1, u)) = u - 4
            /\ \A i \in 1..u - 4 : SubSeq(e, 4 + 1, u)[i] = e[4 + i]
        BY <2>7, <4>0, Piece
      <4> QED
        BY <4>0, <4>1
    <3> HIDE DEF h, f
    <3>4. /\ t \in Seq(Unit) /\ Len(t) = 2 + (u - 4)
          /\ \A i \in 1..2 : t[i] = h[i]
          /\ \A i \in 1..u - 4 : t[2 + i] = f[i]
      <4>1. h \in Seq(Unit) /\ f \in Seq(Unit)
        BY <3>2, <3>3
      <4>2. /\ t \in Seq(Unit) /\ Len(t) = Len(h) + Len(f)
            /\ \A i \in 1..Len(h) : t[i] = h[i]
            /\ \A i \in 1..Len(f) : t[Len(h) + i] = f[i]
        BY <4>1, Joint
      <4> HIDE DEF t
      <4> QED
        BY <3>2, <3>3, <4>2
    <3> HIDE DEF t, s
    <3>5. Len(s) = Len(t) /\ Len(s) = k
      BY <2>6, <2>9, <2>11, <3>1, <3>4
    <3>6. ASSUME NEW i \in 1..Len(s) PROVE s[i] = t[i]
      <4>1. i \in 1..k /\ i \in 1..b.lenLastReq
        BY <2>2, <2>11, <3>1, <3>5, <3>6
      <4>2. s[i] = IF i > 2 THEN e[i + 2] ELSE e[i]
        BY <2>2, <2>9, <2>11, <4>1
      <4>3. CASE i > 2
        <5> DEFINE j == i - 2
        <5>1. j \in 1..u - 4 /\ 2 + j = i /\ 4 + j = i + 2
          BY <2>6, <2>11, <3>1, <4>1, <4>3
        <5> HIDE DEF j
        <5> QED
          BY <3>3, <3>4, <4>2, <4>3, <5>1
      <4>4. CASE ~(i > 2)
        <5>1. i \in 1..2
          BY <3>1, <4>1, <4>4
        <5> QED
          BY <3>2, <3>4, <4>2, <4>4, <5>1
      <4> QED
        BY <4>3, <4>4
    <3>7. s = t
      BY <2>9, <3>4, <3>5, <3>6, Alike
    <3>8. SubSeq(t, 1, 2 * (r.len - 1)) = t
      <4>0. r.len \in Nat /\ u = 2 * r.len /\ Len(t) = 2 + (u - 4)
        BY <2>6, <2>11, <3>4
      <4>1. 2 * (r.len - 1) = Len(t)
        BY <4>0
      <4> QED
        BY <3>4, <4>1, SubSeqFull
    <3>9. Expected(c, n) = t
      BY <2>11, <3>8 DEF Expected, t, h, f, e, u, r
    <3> QED
      BY <3>5, <3>7, <3>9
  <2> QED
    BY <2>6, <2>10, <2>11
<1> QED
  BY <1>1, <1>2, <1>3, PTL DEF Spec

-----------------------------------------------------------------------------
(***************************************************************************)
(* Full requests in the buffers are noticed, unless one has a length of 0. *)
(***************************************************************************)
\* A client that has a full request in its buffer, unless its turn goes on.
Noticed ==
    \A c \in Client \ lost : (turn # c \/ req_len # -1) /\ Len(Left(os, c)) >= Needed(Left(os, c), 0) =>
      c \in ClientsWithInput

LEMMA EmptyNeeds == ~(Len(<<>>) >= Needed(<<>>, 0))
<1>1. Len(<<>>) = 0 /\ Len(<<>>) - 0 < 2
  OBVIOUS
<1> QED
  BY <1>1 DEF Needed

LEMMA NoticedInit == Init => Noticed
<1> SUFFICES ASSUME Init PROVE Noticed
  OBVIOUS
<1>1. \A c \in Client : Left(os, c) = <<>>
  BY DEF Init, Left
<1> QED
  BY <1>1, EmptyNeeds DEF Noticed

\* The test of what is behind a request finds what the next read will find.
LEMMA NextNoticed ==
  ASSUME 0 \notin Plain, NEW c \in Client, NEW q \in Seq(Request),
         NEW l \in Seq(Unit), NEW w \in Seq(Unit), NEW n, IsStream(l \o w, c, q, n),
         Len(l) >= Needed(l, 0)
  PROVE  FullRequest(l, 0)
<1>1. q[n] \in Request /\ l[2].length = IF q[n].big THEN 0 ELSE q[n].len
  BY FirstRequest
<1>2. q[n].big \in BOOLEAN /\ (q[n].big => q[n].len \in Big) /\ (~q[n].big => q[n].len \in Plain)
  BY <1>1, UnitsOf
<1>3. Big # {} \/ l[2].length # 0
  BY <1>1, <1>2
<1> QED
  BY <1>3, TestsAgree

LEMMA NoticedRead ==
  ASSUME 0 \notin Plain, Safe, Framed, Framed', Noticed, NEW c \in Client,
         ReadBuffered(c) \/ ReadSocket(c) \/ ReadNothing(c)
  PROVE  Noticed'
<1>1. PICK b, k : k \in 0..Len(socket[c]) /\ Read(c, b, k)
  BY Reads
<1> DEFINE r == Rest(b)
           w == socket'[c]
           l == Left(os', c)
           n == done[c] + 1
           q == sent[c]
<1>2. /\ b.lenLastReq = 0 /\ b.size > 0
      /\ turn \in {0, c} /\ req_len = -1 /\ UNCHANGED sent
  BY <1>1 DEF Read
<1>3. /\ Buffers(os) /\ Owned(os) /\ Available(os) /\ Sound(b)
      /\ r \in Seq(Unit) /\ w \in Seq(Unit)
      /\ HasRequest(b) <=> Len(r) >= Needed(r, 0)
      /\ c \notin lost => IsStream(r \o w, c, q, n)
  BY <1>1, ReadStream
<1>4. q \in Seq(Request)
  BY DEF Safe, Clients
<1>5. ASSUME NEW d \in Client \ {c}, d \notin lost, Len(Left(os, d)) >= Needed(Left(os, d), 0)
      PROVE  d \in ClientsWithInput
  <2>1. turn # d
    BY <1>2, ReaderAssumption
  <2> QED
    BY <1>5, <2>1 DEF Noticed
<1>6. CASE ~HasRequest(b)
  <2>1. ReturnNothing(c, b)
    BY <1>1, <1>6 DEF Read
  <2>2. /\ l = r /\ ClientsWithInput' = ClientsWithInput \ {c} /\ lost' = lost
        /\ \A d \in Client \ {c} : Left(os', d) = Left(os, d)
    BY <1>2, <1>3, <2>1, NothingStep
  <2> HIDE DEF l, r
  <2>3. ~(Len(l) >= Needed(l, 0))
    BY <1>3, <1>6, <2>2
  <2> QED
    BY <1>5, <2>2, <2>3 DEF Noticed, l
<1>7. CASE HasRequest(b)
  <2>1. ReturnRequest(c, b)
    BY <1>1, <1>7 DEF Read
  <2>2. /\ Buffers(os')
        /\ lost' = IF IsBig(r, 0) /\ Needed(r, 0) < 4 THEN lost \union {c} ELSE lost
        /\ \A d \in Client \ {c} : Left(os', d) = Left(os, d)
        /\ \A d : d # c => (d \in ClientsWithInput' <=> d \in ClientsWithInput)
        /\ (IsBig(r, 0) => Size(r) >= 4) => (FullRequest(l, 0) => c \in ClientsWithInput')
    BY <1>2, <1>3, <1>7, <2>1, ReturnStep
  <2>3. ASSUME c \notin lost', Len(l) >= Needed(l, 0) PROVE c \in ClientsWithInput'
    <3>1. c \notin lost /\ ~(IsBig(r, 0) /\ Needed(r, 0) < 4)
      BY <2>2, <2>3
    <3>2. IsBig(r, 0) => Size(r) >= 4
      BY <3>1, NeededFits, <1>3 DEF Size
    <3>3. l \in Seq(Unit)
      BY <2>2, LeftUnits
    <3>4. IsStream(l \o w, c, q, Coming(c)')
      BY <1>2, <2>3 DEF Framed, FramedOf
    <3> HIDE DEF l, w, q
    <3>5. FullRequest(l, 0)
      BY <1>3, <1>4, <2>3, <3>3, <3>4, NextNoticed
    <3> QED
      BY <2>2, <3>2, <3>5
  <2>4. \A d \in Client \ {c} : d \notin lost' => d \notin lost
    BY <2>2
  <2> HIDE DEF l
  <2> QED
    BY <1>5, <2>2, <2>3, <2>4 DEF Noticed, l
<1> QED
  BY <1>6, <1>7

LEMMA NoticedReset ==
  ASSUME Safe, Framed, Noticed, NEW c \in Client, ResetCurrentRequest(c)
  PROVE  Noticed'
<1> DEFINE b == os.buf[os.input[c]]
           gotnow == Len(b.data) - b.bufptr
           needed == get_req_len(b.data, b.bufptr)
           s == SubSeq(b.data, b.bufptr + 1, Len(b.data))
<1>1. Executing(c) /\ turn = c /\ req_len # -1
  BY DEF ResetCurrentRequest, Executing
<1>2. ClientsWithInput' = IF gotnow >= needed THEN ClientsWithInput \union {c} ELSE ClientsWithInput \ {c}
  BY DEF ResetCurrentRequest
<1>3. lost' = IF IsBig(b.data, b.bufptr) THEN lost \union {c} ELSE lost
  BY ResetStep
<1>4. \A d \in Client \ {c} : Left(os', d) = Left(os, d)
  BY ResetStep
<1>5. ASSUME c \notin lost', Len(Left(os', c)) >= Needed(Left(os', c), 0)
      PROVE  c \in ClientsWithInput'
  <2>1. c \notin lost /\ ~IsBig(b.data, b.bufptr)
    BY <1>3, <1>5
  <2>2. Sound(b) /\ Left(os', c) = s
    BY <2>1, PutBackWhole
  <2> HIDE DEF b
  <2>3. /\ s \in Seq(Unit) /\ Len(s) = gotnow /\ Needed(b.data, b.bufptr) = Needed(s, 0)
    <3>1. b.data \in Seq(Unit) /\ b.bufptr \in Nat /\ b.bufptr <= Len(b.data)
      BY <2>2, SoundParts
    <3> QED
      BY <3>1, LookedAt
  <2> HIDE DEF s
  <2>4. Len(s) >= Needed(s, 0)
    BY <1>5, <2>2
  <2>5. Len(s) >= 2
    BY <2>3, <2>4, NeededFits
  <2>6. Needed(b.data, b.bufptr) = needed
    BY <2>1, <2>3, <2>5 DEF Needed
  <2>7. gotnow >= needed
    BY <2>3, <2>4, <2>6
  <2> HIDE DEF gotnow, needed
  <2> QED
    BY <1>2, <2>7
<1>6. \A d \in Client \ {c} :
        d \notin lost' /\ Len(Left(os, d)) >= Needed(Left(os, d), 0) => d \in ClientsWithInput
  BY <1>1, <1>3 DEF Noticed
<1> HIDE DEF gotnow, needed
<1> QED
  BY <1>2, <1>4, <1>5, <1>6 DEF Noticed

LEMMA NoticedGone ==
  ASSUME Safe, Noticed, NEW c \in Client, Close(c) \/ ReadFails(c)
  PROVE  Noticed'
<1>1. /\ Left(os', c) = <<>>
      /\ \A d \in Client \ {c} : Left(os', d) = Left(os, d)
  BY GoneStep
<1>2. /\ ClientsWithInput' = ClientsWithInput \ {c} /\ lost' = lost \ {c}
      /\ IF turn = c THEN turn' = 0 /\ req_len' = -1 ELSE UNCHANGED <<turn, req_len>>
  BY GoneStep DEF Gone
<1>3. ASSUME NEW d \in Client \ {c}, turn' # d \/ req_len' # -1 PROVE turn # d \/ req_len # -1
  BY <1>2, <1>3
<1>4. ~(Len(Left(os', c)) >= Needed(Left(os', c), 0))
  BY <1>1, EmptyNeeds
<1> QED
  BY <1>1, <1>2, <1>3, <1>4 DEF Noticed

LEMMA NoticedNext ==
  ASSUME 0 \notin Plain
  PROVE  Safe /\ Framed /\ Noticed /\ [Next]_vars => Noticed'
<1> SUFFICES ASSUME Safe, Framed, Noticed, [Next]_vars PROVE Noticed'
  OBVIOUS
<1>1. ASSUME NEW c \in Client, Execute(c) PROVE Noticed'
  <2>1. turn = c /\ req_len # -1 /\ UNCHANGED <<os, ClientsWithInput, lost>>
    BY <1>1 DEF Execute, Executing
  <2>2. \A d \in Client : turn # d \/ req_len # -1
    BY <2>1
  <2> QED
    BY <2>1, <2>2 DEF Noticed, Left
<1>2. ASSUME UNCHANGED <<os, ClientsWithInput, turn, req_len, lost>> PROVE Noticed'
  BY <1>2 DEF Noticed, Left
<1>3. CASE Next
  <2>1. PICK c \in Client :
          \/ ReadBuffered(c) \/ ReadSocket(c) \/ ReadNothing(c) \/ ReadFails(c)
          \/ Execute(c) \/ ResetCurrentRequest(c)
          \/ Close(c) \/ Send(c)
    BY <1>3 DEF Next
  <2>2. Framed'
    BY FramedNext
  <2>3. CASE Send(c)
    BY <1>2, <2>3 DEF Send
  <2> QED
    BY <1>1, <2>1, <2>2, <2>3, NoticedRead, NoticedReset, NoticedGone
<1>4. CASE UNCHANGED vars
  BY <1>2, <1>4 DEF vars
<1> QED
  BY <1>3, <1>4

\* BufferedNoticed holds if a length of 0 is only sent with Big Requests: between
\* two turns, a client that has a full request in its buffer is in
\* ClientsWithInput, so that the dispatcher does not wait for a socket that has
\* nothing more to say, until the client sends a Big Request that is short or
\* one of its Big Requests is reset (os/io.c: ReadRequestFromClient and
\* ResetCurrentRequest, whose tests are not the ones that read the request).
THEOREM BufferedStaysNoticed ==
  ASSUME 0 \notin Plain
  PROVE  Spec => []BufferedNoticed
<1>1. Init => Safe /\ Framed /\ Noticed
  BY SafeInit, FramedInit, NoticedInit
<1>2. Safe /\ Framed /\ Noticed /\ [Next]_vars => Safe' /\ Framed' /\ Noticed'
  BY SafeNext, FramedNext, NoticedNext
<1>3. ASSUME Safe, Noticed PROVE BufferedNoticed
  <2> SUFFICES ASSUME turn = 0, NEW c \in Client \ lost, os.input[c] # 0,
                      HasRequest(Advance(os.buf[os.input[c]]))
               PROVE  c \in ClientsWithInput
    BY DEF BufferedNoticed
  <2> DEFINE b == os.buf[os.input[c]]
  <2>1. Sound(b)
    BY <1>3 DEF Safe, Buffers
  <2>2. Left(os, c) = Rest(b)
    BY DEF Left
  <2>3. Len(Rest(b)) >= Needed(Rest(b), 0)
    BY <2>1, Advanced
  <2>4. turn # c
    BY ReaderAssumption
  <2> QED
    BY <1>3, <2>2, <2>3, <2>4 DEF Noticed
<1> QED
  BY <1>1, <1>2, <1>3, PTL DEF Spec
=============================================================================
