--------------------------- MODULE RequestReader ---------------------------
(***************************************************************************)
(* How the server cuts requests out of what it reads from its clients      *)
(* (os/io.c: ReadRequestFromClient, ResetCurrentRequest, FreeOsBuffers),   *)
(* with input buffers that clients share and that grow and shrink.         *)
(*                                                                         *)
(* The unit of length is two bytes, so that a header has two: the second   *)
(* is the length of the request in words, or 0 in a Big Request, whose     *)
(* length is in the word after its header.  A unit is a record of whose    *)
(* request it is part of, where, and of the length it gives if it is taken *)
(* for one.  A read may return any part of what is in the socket.  The     *)
(* contents of a buffer end at bufcnt; what lies behind is not looked at.  *)
(***************************************************************************)
EXTENDS Integers, Sequences, SequencesExt, FiniteSetsExt

CONSTANTS
    Client,                            \* indices of clients
    BUFSIZE, BUFWATERMARK, MAXBUFSIZE, \* in units
    MAXCARD32,                         \* 2^32 - 1, the greatest req_len
    Plain, Big,                        \* lengths of requests, in words
    Noise,                             \* what else may be taken for a length
    Restart,                           \* Big Requests may be reset
    MaxSent                            \* bound on the requests of those there are

ASSUME ReaderAssumption ==
    /\ Client \subseteq Nat \ {0} /\ IsFiniteSet(Client)
    /\ {BUFSIZE, BUFWATERMARK, MAXBUFSIZE, MAXCARD32} \subseteq Nat
    /\ 4 <= BUFSIZE /\ BUFSIZE <= BUFWATERMARK
    /\ BUFWATERMARK <= MAXBUFSIZE /\ MAXBUFSIZE < MAXCARD32
    /\ Plain \subseteq Nat /\ Big \subseteq Nat /\ Noise \in Nat
    /\ 0 \in Plain => Big = {} \* with Big Requests, a length of 0 is one of them
    /\ Restart \in BOOLEAN /\ MaxSent \in Nat

VARIABLES
    os,               \* a client's buffer, the buffers, those that are free,
                      \* and the client whose buffer others may take
    ClientsWithInput, \* clients with FULL requests in their buffers
    turn,             \* the client whose turn it is, or 0
    req_len,          \* of its request, in words; -1 if none is executed
    sent,             \* the requests of a client, a sequence
    socket,           \* the units of them that have not been read
    done,             \* how many of them have been executed
    lost              \* clients whose requests the server may have lost track
                      \* of, see Short and ResetCurrentRequest (history)

requests == <<sent, socket, done>>
vars == <<os, ClientsWithInput, turn, req_len, requests, lost>>

Request == [len : Plain, big : {FALSE}] \union [len : Big, big : {TRUE}]

\* A request is not shorter than its header, whatever its length says.
Units(r) ==
    LET header == IF r.big THEN 4 ELSE 2
    IN IF 2 * r.len < header THEN header ELSE 2 * r.len

\* Request n of client c, in units.
Encoded(c, n, r) ==
    [i \in 1..Units(r) |->
       [of |-> c, n |-> n, at |-> i,
        length |-> IF i = (IF r.big THEN 3 ELSE 2) THEN r.len
                   ELSE IF r.big /\ i \in {2, 4} THEN 0 ELSE Noise]]

\* What the handler of a request is to find: the header and the body, as far as
\* the length goes and without the length of a Big Request.
Expected(c, n) ==
    LET r == sent[c][n]
        e == Encoded(c, n, r)
    IN IF r.big THEN SubSeq(SubSeq(e, 1, 2) \o SubSeq(e, 5, Units(r)), 1, 2 * (r.len - 1))
       ELSE SubSeq(e, 1, 2 * r.len)

\* A buffer is its position among those allocated at the same time.
Buffer == 1..Cardinality(Client)
Closed == [size |-> 0, bufptr |-> 0, lenLastReq |-> 0, data |-> <<>>]
NewBuffer == [Closed EXCEPT !.size = BUFSIZE]

-----------------------------------------------------------------------------
(***************************************************************************)
(* Looking at the request that starts behind the first p units of data.    *)
(***************************************************************************)
get_req_len(data, p) == 2 * data[p + 2].length
get_big_req_len(data, p) == 2 * data[p + 3].length

\* All clients use Big Requests if there are any.
big_requests == Big # {}

IsBig(data, p) == Len(data) - p >= 2 /\ get_req_len(data, p) = 0 /\ big_requests

\* How much there must be to go on, and whether that is a header only.
Needed(data, p) ==
    LET gotnow == Len(data) - p IN
    IF gotnow < 2 THEN 2
    ELSE IF ~IsBig(data, p) THEN get_req_len(data, p)
    ELSE IF gotnow < 4 THEN 4 ELSE get_big_req_len(data, p)

\* Broken: one that ends with the buffer is taken for a part.
FullRequestShort(data, p) ==
    LET gotnow == Len(data) - p IN
    gotnow > 2 /\ gotnow > get_req_len(data, p) /\ get_req_len(data, p) # 0

\* Is there a full request behind p?
FullRequest(data, p) ==
    LET gotnow == Len(data) - p IN
    /\ gotnow >= 2 /\ gotnow >= get_req_len(data, p)
    /\ \/ get_req_len(data, p) # 0
       \/ big_requests /\ gotnow >= 4 /\ gotnow >= get_big_req_len(data, p)

-----------------------------------------------------------------------------
(***************************************************************************)
(* Buffers.                                                                *)
(***************************************************************************)
\* The buffer of another client that has nothing left in it is freed.
ReleaseAvailable(s, c) ==
    LET a == s.AvailableInput
        b == s.input[a]
    IN IF a \in {0, c} THEN [s EXCEPT !.AvailableInput = 0]
       ELSE IF s.buf[b].size > BUFWATERMARK
         THEN [s EXCEPT !.AvailableInput = 0, !.input[a] = 0, !.buf[b] = Closed]
         ELSE [s EXCEPT !.AvailableInput = 0, !.input[a] = 0, !.FreeInputs = <<b>> \o @]

TakeBuffer(s, c) ==
    LET b == CHOOSE x \in Buffer : s.buf[x].size = 0 IN
    IF s.input[c] # 0 THEN s
    ELSE IF s.FreeInputs # <<>>
      THEN [s EXCEPT !.input[c] = Head(s.FreeInputs), !.FreeInputs = Tail(@)]
      ELSE [s EXCEPT !.input[c] = b, !.buf[b] = NewBuffer]

\* The start of the next request.
Advance(b) == [b EXCEPT !.bufptr = @ + b.lenLastReq, !.lenLastReq = 0]

\* Room for what is needed, behind the part of it that was read.
MakeRoom(b) ==
    LET needed == Needed(b.data, b.bufptr)
        got == SubSeq(b.data, b.bufptr + 1, Len(b.data))
    IN IF got = <<>> \/ b.bufptr + needed > b.size
         THEN [b EXCEPT !.data = got, !.bufptr = 0, !.size = IF needed > @ THEN needed ELSE @]
         ELSE b

\* Appends what was read, and gives back space after huge requests.
Filled(b, units) ==
    LET data == b.data \o units IN
    [b EXCEPT !.data = data,
              !.size = IF @ > BUFWATERMARK /\ Len(data) < BUFSIZE
                          /\ Needed(b.data, b.bufptr) < BUFSIZE
                         THEN BUFSIZE ELSE @]

\* Over the length of a Big Request.
MoveHeader(b) ==
    IF ~IsBig(b.data, b.bufptr) THEN b
    ELSE [b EXCEPT !.data = [i \in DOMAIN @ |-> IF i \in {b.bufptr + 3, b.bufptr + 4} THEN @[i - 2] ELSE @[i]],
                   !.bufptr = @ + 2, !.lenLastReq = @ - 2]
-----------------------------------------------------------------------------
(***************************************************************************)
(* ReadRequestFromClient.                                                  *)
(***************************************************************************)
\* The dispatcher goes on with a turn, or begins one with a client that has
\* full requests or whose socket is readable.
Chosen(c) ==
    \/ turn = c /\ req_len = -1
    \/ turn = 0 /\ (c \in ClientsWithInput \/ socket[c] # <<>>)

WithBuffer(c) == TakeBuffer(ReleaseAvailable(os, c), c)
Current(c) == LET s == WithBuffer(c) IN Advance(s.buf[s.input[c]])

HasRequest(b) == Len(b.data) - b.bufptr >= Needed(b.data, b.bufptr)
TooBig(b) == Needed(b.data, b.bufptr) > MAXBUFSIZE

\* A Big Request whose length has no room for the header and the length.
Short(b) == IsBig(b.data, b.bufptr) /\ Needed(b.data, b.bufptr) < 4

\* Leaves b as the buffer of client c.
Keep(c, b) == LET s == WithBuffer(c) IN [s EXCEPT !.buf[s.input[c]] = b]

\* Returns the request at the start of b.
ReturnRequest(c, b) ==
    LET words == Needed(b.data, b.bufptr) \div 2
        length == IF words > 0 THEN 2 * words ELSE IF big_requests THEN 4 ELSE 2
        next == b.bufptr + length
    IN /\ os' = [Keep(c, MoveHeader([b EXCEPT !.lenLastReq = length]))
                   EXCEPT !.AvailableInput = IF next = Len(b.data) THEN c ELSE 0]
       /\ ClientsWithInput' = IF FullRequest(b.data, next) THEN ClientsWithInput \union {c}
                              ELSE ClientsWithInput \ {c}
       /\ req_len' = IF ~IsBig(b.data, b.bufptr) THEN words
                     ELSE IF words = 0 THEN MAXCARD32 ELSE words - 1
       /\ lost' = IF Short(b) THEN lost \union {c} ELSE lost
       /\ turn' = c

ReturnNothing(c, b) ==
    /\ os' = Keep(c, b)
    /\ ClientsWithInput' = ClientsWithInput \ {c}
    /\ req_len' = -1 /\ turn' = 0 /\ UNCHANGED lost

ReadBuffered(c) ==
    /\ Chosen(c) /\ HasRequest(Current(c))
    /\ ReturnRequest(c, Current(c))
    /\ UNCHANGED requests

\* Is there too little of a request, and has it its place in a buffer?
MustRead(c) == Chosen(c) /\ ~HasRequest(Current(c)) /\ ~TooBig(Current(c))

ReadSocket(c) ==
    LET b == MakeRoom(Current(c)) IN
    /\ MustRead(c)
    /\ \E n \in 1..Min({Len(socket[c]), b.size - Len(b.data)}) :
         LET f == Filled(b, SubSeq(socket[c], 1, n)) IN
         /\ socket' = [socket EXCEPT ![c] = SubSeq(@, n + 1, Len(@))]
         /\ IF HasRequest(f) THEN ReturnRequest(c, f) ELSE ReturnNothing(c, f)
    /\ UNCHANGED <<sent, done>>

ReadNothing(c) ==
    /\ MustRead(c) /\ socket[c] = <<>>
    /\ ReturnNothing(c, MakeRoom(Current(c)))
    /\ UNCHANGED requests

-----------------------------------------------------------------------------
(***************************************************************************)
(* The rest of a turn, and the clients.                                    *)
(***************************************************************************)
Executing(c) == turn = c /\ req_len # -1

\* The handler of a request; the turn goes on, or ends.
Execute(c) ==
    /\ Executing(c)
    /\ done' = [done EXCEPT ![c] = @ + 1]
    /\ req_len' = -1 /\ turn' \in {0, c}
    /\ UNCHANGED <<os, ClientsWithInput, sent, socket, lost>>

\* Broken: the request counts as handled.
PutBackHandled(b) == b

\* Put back, the header before the length of a Big Request.
PutBack(b) ==
    LET p == b.bufptr - 2 IN
    IF ~IsBig(b.data, b.bufptr) THEN [b EXCEPT !.lenLastReq = 0]
    ELSE [b EXCEPT
           !.data = [i \in DOMAIN @ |->
                       IF i \in {p + 1, p + 2} THEN b.data[i + 2]
                       ELSE IF i = p + 3 THEN [b.data[i] EXCEPT !.length = req_len]
                       ELSE b.data[i]],
           !.bufptr = p, !.lenLastReq = 0]

\* Broken: others may take the buffer.
ResetShared(c) ==
    /\ Executing(c)
    /\ os' = [os EXCEPT !.buf[os.input[c]] = PutBack(@)]
    /\ ClientsWithInput' = ClientsWithInput \union {c}
    /\ req_len' = -1 /\ turn' = 0
    /\ UNCHANGED <<requests, lost>>

ResetCurrentRequest(c) ==
    LET b == os.buf[os.input[c]] IN
    /\ Executing(c)
    /\ IsBig(b.data, b.bufptr) => Restart
    /\ os' = [os EXCEPT !.buf[os.input[c]] = PutBack(b),
                        !.AvailableInput = IF @ = c THEN 0 ELSE @]
    /\ ClientsWithInput' =
         IF Len(b.data) - b.bufptr >= get_req_len(b.data, b.bufptr)
           THEN ClientsWithInput \union {c} ELSE ClientsWithInput \ {c}
    /\ req_len' = -1 /\ turn' = 0
    /\ lost' = IF IsBig(b.data, b.bufptr) THEN lost \union {c} ELSE lost
    /\ UNCHANGED requests

\* FreeOsBuffers.
FreeOsBuffers(s, c) ==
    LET b == s.input[c]
        t == [s EXCEPT !.input[c] = 0, !.AvailableInput = IF @ = c THEN 0 ELSE @]
    IN IF b = 0 THEN t
       ELSE IF s.FreeInputs # <<>> THEN [t EXCEPT !.buf[b] = Closed]
       ELSE [t EXCEPT !.FreeInputs = <<b>>,
                      !.buf[b] = [Closed EXCEPT !.size = s.buf[b].size]]

Gone(c) ==
    /\ ClientsWithInput' = ClientsWithInput \ {c}
    /\ IF turn = c THEN turn' = 0 /\ req_len' = -1 ELSE UNCHANGED <<turn, req_len>>
    /\ sent' = [sent EXCEPT ![c] = <<>>]
    /\ socket' = [socket EXCEPT ![c] = <<>>] /\ done' = [done EXCEPT ![c] = 0]
    /\ lost' = lost \ {c}

\* A client goes, or is killed, also for want of memory.
Close(c) ==
    /\ sent[c] # <<>>
    /\ os' = FreeOsBuffers(os, c)
    /\ Gone(c)

\* It is killed when it sends a request that is too big.
ReadFails(c) ==
    LET b == Current(c) IN
    /\ Chosen(c) /\ ~HasRequest(b) /\ TooBig(b)
    /\ os' = FreeOsBuffers(Keep(c, b), c)
    /\ Gone(c)

Send(c) ==
    /\ MapThenSumSet(LAMBDA d : Len(sent[d]), Client) < MaxSent
    /\ \E r \in Request :
         /\ sent' = [sent EXCEPT ![c] = Append(@, r)]
         /\ socket' = [socket EXCEPT ![c] = @ \o Encoded(c, Len(sent[c]) + 1, r)]
    /\ UNCHANGED <<os, ClientsWithInput, turn, req_len, done, lost>>

Init ==
    /\ os = [input |-> [c \in Client |-> 0], buf |-> [b \in Buffer |-> Closed],
             FreeInputs |-> <<>>, AvailableInput |-> 0]
    /\ ClientsWithInput = {} /\ turn = 0 /\ req_len = -1
    /\ sent = [c \in Client |-> <<>>]
    /\ socket = [c \in Client |-> <<>>] /\ done = [c \in Client |-> 0]
    /\ lost = {}

Next ==
    \E c \in Client :
      \/ ReadBuffered(c) \/ ReadSocket(c) \/ ReadNothing(c) \/ ReadFails(c)
      \/ Execute(c) \/ ResetCurrentRequest(c)
      \/ Close(c) \/ Send(c)

Spec == Init /\ [][Next]_vars

-----------------------------------------------------------------------------
(***************************************************************************)
(* Properties.                                                             *)
(***************************************************************************)
\* A buffer has room for what is in it, and no more than allowed.
TypeOK ==
    /\ os.input \in [Client -> Buffer \union {0}] /\ os.AvailableInput \in Client \union {0}
    /\ \A b \in Buffer :
         LET x == os.buf[b] IN
         /\ x.size \in 0..MAXBUFSIZE /\ Len(x.data) <= x.size
         /\ x.bufptr \in Nat /\ x.lenLastReq \in Nat /\ x.bufptr + x.lenLastReq <= Len(x.data)
    /\ ClientsWithInput \subseteq Client /\ turn \in Client \union {0}
    /\ req_len \in {-1, MAXCARD32} \union 0..(MAXBUFSIZE \div 2)
    /\ sent \in [Client -> Seq(Request)] /\ DOMAIN socket = Client /\ done \in [Client -> Nat]
    /\ lost \subseteq Client

\* What is executed is the next request the client has sent, its header and
\* body in one piece, with its length.
ExecutedWhole ==
    LET b == os.buf[os.input[turn]]
        n == done[turn] + 1
    IN /\ n <= Len(sent[turn])
       /\ 2 * req_len = Len(Expected(turn, n))
       /\ SubSeq(b.data, b.bufptr + 1, b.bufptr + 2 * req_len) = Expected(turn, n)

\* io.c: "Reset to reexecute the current request, and yield.", and "The
\* request returned must be contiguous": requests are cut where the client cuts
\* them until it sends a Big Request that is short, or one of its Big Requests
\* is reset.
RequestsFramed == req_len # -1 /\ turn \notin lost => ExecutedWhole

\* The same without the exceptions.
AlwaysFramed == req_len # -1 => ExecutedWhole

\* A buffer is one client's or free, once, or not allocated; one that is to be
\* given away has nothing left in it but the request being executed.
BuffersOwned ==
  /\ TypeOK
  /\ LET used == {c \in Client : os.input[c] # 0} IN
    /\ \A c, d \in used : os.input[c] = os.input[d] => c = d
    /\ IsInjective(os.FreeInputs)
    /\ \A b \in Buffer :
         (os.buf[b].size > 0) = (b \in ToSet(os.FreeInputs) \/ \E c \in used : os.input[c] = b)
    /\ \A c \in used : os.input[c] \notin ToSet(os.FreeInputs)
    /\ os.AvailableInput # 0 =>
         /\ os.AvailableInput \in used
         /\ LET b == os.buf[os.input[os.AvailableInput]] IN b.bufptr + b.lenLastReq = Len(b.data)

\* io.c: "Check to see if client has at least one whole request in the buffer":
\* the dispatcher comes back to a client with a request it need not read.
BufferedNoticed ==
    turn = 0 =>
      \A c \in Client \ lost : os.input[c] # 0 /\ HasRequest(Advance(os.buf[os.input[c]])) =>
        c \in ClientsWithInput
=============================================================================
