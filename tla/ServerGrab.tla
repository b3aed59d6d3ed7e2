----------------------------- MODULE ServerGrab -----------------------------
(***************************************************************************)
(* Whose requests the server reads: the dispatch loop (dix/dispatch.c),    *)
(* the sets of connections (os/connection.c) it chooses from, server       *)
(* grabs, clients made impervious to them (Xext/xtest.c), and clients that *)
(* sleep in a request (SYNC awaits, font loading) until somebody wakes     *)
(* them.                                                                   *)
(*                                                                         *)
(* A client is its index, which is its descriptor as well; AllSockets has  *)
(* the same clients as AllClients and is left out.  Of the buffers only    *)
(* the number of complete requests is kept; a request shows what it asks   *)
(* for when it is executed.  The smart scheduler chooses any client that   *)
(* is ready, and takes the turn away after any request.                    *)
(***************************************************************************)
EXTENDS Integers, FiniteSets, FiniteSetsExt

CONSTANTS
    MaxClients,  \* the server's limit, MAXCLIENTS
    Client,      \* indices of clients
    Controlling, \* those that may ask to be made impervious
    MaxRequests  \* bound on the requests in a socket

ASSUME GrabAssumption ==
    /\ MaxClients \in Nat /\ Client \subseteq 1..MaxClients
    /\ Controlling \subseteq Client /\ MaxRequests \in Nat

VARIABLES
    server,    \* the sets and the grab, see Server
    asleep,    \* clients that sleep in a request
    connected, \* clients that are not gone
    buffered,  \* the complete requests in a client's input buffer
    again,     \* the first of them is a GrabServer that was put back
    sent,      \* the requests in a client's socket
    hungUp,    \* clients that have closed it
    current,   \* the client whose turn it is, or 0
    request,   \* of that client, being executed: "none", "any", "GrabServer"
    controlled \* a client has asked to be made impervious (history)

clients == <<connected, buffered, again>>
sockets == <<sent, hungUp>>
turn == <<current, request>>
vars == <<server, asleep, clients, sockets, turn, controlled>>

\* The static variables of dispatch.c and connection.c.
Server ==
    [AllClients : SUBSET Client, SavedAllClients : SUBSET Client,
     ClientsWithInput : SUBSET Client, SavedClientsWithInput : SUBSET Client,
     IgnoredClientsWithInput : SUBSET Client, GrabImperviousClients : SUBSET Client,
     GrabInProgress : Client \union {0},
     grabState : {"none", "active", "kickout"}, grabClient : Client \union {0},
     grabWaiters : SUBSET Client]

-----------------------------------------------------------------------------
(***************************************************************************)
(* connection.c: what a call makes of the server's variables s.            *)
(***************************************************************************)
OnlyListenToOneClient(s, c) ==
    LET heard == s.GrabImperviousClients \union {c} IN
    IF s.GrabInProgress # 0 THEN s
    ELSE [s EXCEPT !.SavedClientsWithInput = s.ClientsWithInput \ heard,
                   !.ClientsWithInput = @ \cap heard,
                   !.SavedAllClients = s.AllClients,
                   !.AllClients = (@ \cap s.GrabImperviousClients) \union {c},
                   !.GrabInProgress = c]

\* Broken: forgets the input that was put aside.
ListenWithoutInput(s) ==
    IF s.GrabInProgress = 0 THEN s
    ELSE [s EXCEPT !.AllClients = @ \union s.SavedAllClients, !.GrabInProgress = 0]

\* Broken: restores the input only, not the clients to listen to.
ListenToInput(s) ==
    IF s.GrabInProgress = 0 THEN s
    ELSE [s EXCEPT !.ClientsWithInput = @ \union s.SavedClientsWithInput, !.GrabInProgress = 0]

ListenToAllClients(s) ==
    IF s.GrabInProgress = 0 THEN s
    ELSE [s EXCEPT !.AllClients = @ \union s.SavedAllClients,
                   !.ClientsWithInput = @ \union s.SavedClientsWithInput,
                   !.GrabInProgress = 0]

IgnoreClient(s, c) ==
    LET heard == s.GrabInProgress = 0 \/ c \in s.AllClients
        input == IF heard THEN s.ClientsWithInput ELSE s.SavedClientsWithInput
        t == [s EXCEPT !.IgnoredClientsWithInput = IF c \in input THEN @ \union {c} ELSE @ \ {c}]
    IN IF heard
         THEN [t EXCEPT !.ClientsWithInput = @ \ {c}, !.AllClients = @ \ {c}]
         ELSE [t EXCEPT !.SavedClientsWithInput = @ \ {c}, !.SavedAllClients = @ \ {c}]

\* Broken: lets a client in although the server is grabbed.
AttendAlways(s, c) ==
    [s EXCEPT !.AllClients = @ \union {c},
              !.ClientsWithInput = @ \union ({c} \cap s.IgnoredClientsWithInput)]

AttendClient(s, c) ==
    LET input == {c} \cap s.IgnoredClientsWithInput IN
    IF s.GrabInProgress \in {0, c} \/ c \in s.GrabImperviousClients
      THEN [s EXCEPT !.AllClients = @ \union {c}, !.ClientsWithInput = @ \union input]
      ELSE [s EXCEPT !.SavedAllClients = @ \union {c}, !.SavedClientsWithInput = @ \union input]

MakeClientGrabImpervious(s, c) == [s EXCEPT !.GrabImperviousClients = @ \union {c}]

MakeClientGrabPervious(s, c) ==
    LET t == [s EXCEPT !.GrabImperviousClients = @ \ {c}] IN
    IF s.GrabInProgress \in {0, c} THEN t
    ELSE [t EXCEPT !.SavedClientsWithInput = @ \union ({c} \cap s.ClientsWithInput),
                   !.ClientsWithInput = @ \ {c}, !.AllClients = @ \ {c}]

\* The highest word of the mask that is not empty, and the lowest bit in it.
NextWaiter(waiters) ==
    LET last == Max({c \div 32 : c \in waiters})
    IN Min({c \in waiters : c \div 32 = last})

UngrabServer(s) ==
    LET t == ListenToAllClients([s EXCEPT !.grabState = "none"])
        next == NextWaiter(s.grabWaiters)
    IN IF s.grabWaiters = {} THEN t
       ELSE AttendClient([t EXCEPT !.grabWaiters = @ \ {next}], next)

CloseDownFileDescriptor(s, c) ==
    LET t == [s EXCEPT !.AllClients = @ \ {c}, !.ClientsWithInput = @ \ {c},
                       !.GrabImperviousClients = @ \ {c}]
    IN IF s.GrabInProgress = 0 THEN t
       ELSE [t EXCEPT !.SavedAllClients = @ \ {c}, !.SavedClientsWithInput = @ \ {c}]

CloseDownClient(s, c) ==
    LET t == IF s.grabState # "none" /\ s.grabClient = c THEN UngrabServer(s) ELSE s
    IN CloseDownFileDescriptor([t EXCEPT !.grabWaiters = @ \ {c}], c)

-----------------------------------------------------------------------------
(***************************************************************************)
(* Turns and requests.                                                     *)
(***************************************************************************)
\* Has WaitForSomething anything to read of it?
Readable(c) == c \in server.AllClients /\ (sent[c] > 0 \/ c \in hungUp)

Schedule(c) ==
    /\ current = 0
    /\ \/ Readable(c)
       \/ /\ c \in server.ClientsWithInput
          /\ c \in server.AllClients \/ \A d \in Client : ~Readable(d)
    /\ IF server.grabState = "kickout"
         THEN server' = [server EXCEPT !.grabState = "active"] /\ UNCHANGED turn
         ELSE current' = c /\ UNCHANGED <<server, request>>
    /\ UNCHANGED <<asleep, clients, sockets>>

\* ReadRequestFromClient with n requests in the buffer, of which it takes one.
Take(c, n) ==
    /\ buffered' = [buffered EXCEPT ![c] = n - 1]
    /\ again' = again \ {c}
    /\ server' = [server EXCEPT !.ClientsWithInput = IF n > 1 THEN @ \union {c} ELSE @ \ {c}]
    /\ request' = IF c \in again THEN "GrabServer" ELSE "any"
    /\ UNCHANGED <<asleep, connected, hungUp, current>>

Reading(c) == current = c /\ request = "none"

ReadBuffered(c) ==
    /\ Reading(c) /\ buffered[c] > 0
    /\ Take(c, buffered[c])
    /\ UNCHANGED sent

ReadSocket(c) ==
    /\ Reading(c) /\ buffered[c] = 0
    /\ \E n \in 1..sent[c] : Take(c, n) /\ sent' = [sent EXCEPT ![c] = @ - n]

\* The socket is empty, or has only part of a request.
ReadNothing(c) ==
    /\ Reading(c) /\ buffered[c] = 0 /\ sent[c] = 0 /\ c \notin hungUp
    /\ server' = [server EXCEPT !.ClientsWithInput = @ \ {c}]
    /\ current' = 0
    /\ UNCHANGED <<asleep, clients, sockets, request>>

Gone(s, c) ==
    /\ server' = CloseDownClient(s, c)
    /\ asleep' = asleep \ {c}
    /\ connected' = connected \ {c}
    /\ buffered' = [buffered EXCEPT ![c] = 0] /\ again' = again \ {c}
    /\ sent' = [sent EXCEPT ![c] = 0] /\ hungUp' = hungUp \ {c}

ReadFails(c) ==
    /\ Reading(c) /\ buffered[c] = 0 /\ sent[c] = 0 /\ c \in hungUp
    /\ Gone(server, c)
    /\ current' = 0
    /\ UNCHANGED request

Expire(c) ==
    /\ Reading(c)
    /\ current' = 0
    /\ UNCHANGED <<server, asleep, clients, sockets, request>>

Executing(c, what) == current = c /\ request \in what
GoOn == request' = "none" /\ UNCHANGED current
Yield == request' = "none" /\ current' = 0

\* A request that does nothing here; on an error the turn ends.
Other(c) ==
    /\ Executing(c, {"any"})
    /\ GoOn \/ Yield
    /\ UNCHANGED <<server, asleep, clients, sockets>>

\* ProcGrabServer, the server being free, or grabbed by the client itself.
GrabServer(c) ==
    /\ Executing(c, {"any", "GrabServer"})
    /\ server.grabState = "none" \/ server.grabClient = c
    /\ server' = [OnlyListenToOneClient(server, c) EXCEPT !.grabState = "kickout", !.grabClient = c]
    /\ GoOn
    /\ UNCHANGED <<asleep, clients, sockets>>

\* ... and by another: the request is put back, and the client ignored.
AwaitGrab(c) ==
    /\ Executing(c, {"any", "GrabServer"})
    /\ server.grabState # "none" /\ server.grabClient # c
    /\ buffered' = [buffered EXCEPT ![c] = @ + 1] /\ again' = again \union {c}
    /\ server' = IgnoreClient([server EXCEPT
                   !.ClientsWithInput = IF c \in server.AllClients THEN @ \union {c} ELSE @,
                   !.IgnoredClientsWithInput = IF c \in server.AllClients THEN @ ELSE @ \union {c},
                   !.grabWaiters = @ \union {c}], c)
    /\ Yield
    /\ UNCHANGED <<asleep, connected, sockets>>

ProcUngrabServer(c) ==
    /\ Executing(c, {"any"})
    /\ server' = UngrabServer(server)
    /\ GoOn
    /\ UNCHANGED <<asleep, clients, sockets>>

\* XTestGrabControl.
Impervious(c) ==
    /\ Executing(c, {"any"}) /\ c \in Controlling
    /\ server' = MakeClientGrabImpervious(server, c)
    /\ GoOn
    /\ UNCHANGED <<asleep, clients, sockets>>

Pervious(c) ==
    /\ Executing(c, {"any"})
    /\ server' = MakeClientGrabPervious(server, c)
    /\ IF server.GrabInProgress \in {0, c} THEN GoOn ELSE Yield
    /\ UNCHANGED <<asleep, clients, sockets>>

\* Broken: the turn of the client goes on.
SleepOn(c) ==
    /\ Executing(c, {"any"})
    /\ server' = IgnoreClient(server, c)
    /\ asleep' = asleep \union {c}
    /\ GoOn
    /\ UNCHANGED <<clients, sockets>>

\* ProcSyncAwait, ClientSleep.
Sleep(c) ==
    /\ Executing(c, {"any"})
    /\ server' = IgnoreClient(server, c)
    /\ asleep' = asleep \union {c}
    /\ Yield
    /\ UNCHANGED <<clients, sockets>>

\* ... until a request of another client, or a timer, fires the trigger.
Wake(c) ==
    /\ c \in asleep
    /\ current = 0 \/ Executing(current, {"any"})
    /\ server' = AttendClient(server, c)
    /\ asleep' = asleep \ {c}
    /\ request' = "none" /\ UNCHANGED current
    /\ UNCHANGED <<clients, sockets>>

KillClient(c, d) ==
    /\ Executing(c, {"any"}) /\ d \in connected
    /\ Gone(server, d)
    /\ IF c = d THEN Yield ELSE GoOn

-----------------------------------------------------------------------------
(***************************************************************************)
(* Clients.                                                                *)
(***************************************************************************)
\* AllocNewConnection.
Connect(c) ==
    /\ current = 0 /\ c \notin connected
    /\ connected' = connected \union {c}
    /\ server' = IF server.GrabInProgress # 0
                   THEN [server EXCEPT !.SavedAllClients = @ \union {c}]
                   ELSE [server EXCEPT !.AllClients = @ \union {c}]
    /\ UNCHANGED <<asleep, buffered, again, sockets, turn>>

Send(c) ==
    /\ c \in connected \ hungUp /\ sent[c] < MaxRequests
    /\ sent' = [sent EXCEPT ![c] = @ + 1]
    /\ UNCHANGED <<server, asleep, clients, hungUp, turn>>

HangUp(c) ==
    /\ c \in connected \ hungUp
    /\ hungUp' = hungUp \union {c}
    /\ UNCHANGED <<server, asleep, clients, sent, turn>>

Init ==
    /\ server = [AllClients |-> {}, SavedAllClients |-> {},
                 ClientsWithInput |-> {}, SavedClientsWithInput |-> {},
                 IgnoredClientsWithInput |-> {}, GrabImperviousClients |-> {},
                 GrabInProgress |-> 0, grabState |-> "none", grabClient |-> 0,
                 grabWaiters |-> {}]
    /\ asleep = {} /\ connected = {} /\ again = {} /\ hungUp = {}
    /\ buffered = [c \in Client |-> 0] /\ sent = [c \in Client |-> 0]
    /\ current = 0 /\ request = "none" /\ controlled = FALSE

Turn(c) ==
    \/ ReadBuffered(c) \/ ReadSocket(c) \/ ReadNothing(c) \/ ReadFails(c) \/ Expire(c)
    \/ Other(c) \/ GrabServer(c) \/ AwaitGrab(c) \/ ProcUngrabServer(c)
    \/ Impervious(c) \/ Pervious(c) \/ Sleep(c)
    \/ \E d \in Client : KillClient(c, d)

Record == controlled' = (controlled \/ server'.GrabImperviousClients # {})

Next ==
    /\ \E c \in Client :
         Schedule(c) \/ Turn(c) \/ Wake(c) \/ Connect(c) \/ Send(c) \/ HangUp(c)
    /\ Record

Spec == Init /\ [][Next]_vars

-----------------------------------------------------------------------------
(***************************************************************************)
(* Properties.                                                             *)
(***************************************************************************)
\* Nothing is left of a client that is gone in a set the server goes through.
TypeOK ==
    /\ server \in Server
    /\ server.AllClients \union server.ClientsWithInput \subseteq connected
    /\ server.grabWaiters \union server.GrabImperviousClients \subseteq connected
    /\ asleep \subseteq connected /\ connected \subseteq Client
    /\ again \subseteq connected /\ hungUp \subseteq connected
    /\ buffered \in [Client -> 0..MaxRequests] /\ sent \in [Client -> 0..MaxRequests]
    /\ current \in Client \union {0} /\ request \in {"none", "any", "GrabServer"}
    /\ controlled \in BOOLEAN

Waiting == asleep \union server.grabWaiters

\* While a client has the server grabbed, only its requests are executed, and
\* those of impervious clients.  None is of a client that waits for a grab or,
\* unless there is grab control, that sleeps (connection.c:1138: "Removes one
\* client from input masks.  Must have cooresponding call to AttendClient").
GrabExclusive ==
    /\ TypeOK
    /\ server.grabState # "none" /\ request # "none" =>
         current \in server.GrabImperviousClients \union {server.grabClient}
    /\ ~controlled /\ request # "none" => current \notin Waiting

\* ListenToAllClients "Undoes OnlyListentToOneClient()": unless there is grab
\* control, the server listens with no grab to everybody who does not sleep or
\* wait, whatever became of them during the grab.
HeardWhenFree ==
    ~controlled /\ server.GrabInProgress = 0 =>
      connected \ Waiting \subseteq server.AllClients

\* io.c: ClientsWithInput "tells which clients have FULL requests left in
\* their buffers".  For those there may never be anything to select: no other
\* set brings them back.
InputNoticed ==
    ~controlled /\ current = 0 =>
      \A c \in connected : buffered[c] > 0 =>
        \/ c \in server.ClientsWithInput
        \/ server.GrabInProgress # 0 /\ c \in server.SavedClientsWithInput
        \/ c \in Waiting \cap server.IgnoredClientsWithInput
=============================================================================
