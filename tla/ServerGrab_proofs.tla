------------------------- MODULE ServerGrab_proofs -------------------------
(***************************************************************************)
(* Proofs about server grabs, for every set of clients, however many       *)
(* requests they send and whichever of them may be impervious.             *)
(*                                                                         *)
(* IInv has a part about the server's sets that holds always (Sets), one   *)
(* about them that holds until somebody uses grab control (Calm), and one  *)
(* about the client whose turn it is (InTurn).  There is one lemma for     *)
(* each operation on the sets, and then one for each action, by way of     *)
(* HandlerStep where a handler leaves the buffers alone.                   *)
(*                                                                         *)
(* Then proofs about the timers (Timers), which concern nothing of the     *)
(* above.                                                                  *)
(***************************************************************************)
EXTENDS ServerGrab, Timers, FiniteSetTheorems, SequenceTheorems,
        WellFoundedInduction, TLAPS

\* The client that UngrabServer lets in is one that waits: the indices have a
\* bound, so that there is a last word with a waiter, and a least one in it.
LEMMA LessThan ==
    \E R : IsWellFoundedOn(R, Nat) /\ \A x, y \in Nat : <<x, y>> \in R <=> x < y
<1> DEFINE R == OpToRel(<, Nat)
<1>1. IsWellFoundedOn(R, Nat)
  BY NatLessThanWellFounded
<1>2. \A x, y \in Nat : <<x, y>> \in R <=> x < y
  BY DEF OpToRel
<1> HIDE DEF R
<1> QED  BY <1>1, <1>2

LEMMA LeastOf ==
    ASSUME NEW W \in SUBSET Nat, W # {}
    PROVE  Min(W) \in W /\ \A y \in W : Min(W) <= y
<1>1. PICK R : IsWellFoundedOn(R, Nat) /\ \A x, y \in Nat : <<x, y>> \in R <=> x < y
  BY LessThan
<1>3. PICK x \in W : \A y \in W : ~(<<y, x>> \in R)
  <2>1. IsWellFoundedOn(R, Nat) /\ W \subseteq Nat /\ W # {}
    BY <1>1
  <2>2. \E x \in W : \A y \in W : ~(<<y, x>> \in R)
    BY <2>1, WFMin, Zenon
  <2> QED  BY <2>2
<1>4. \A y \in W : x <= y
  <2>1. \A y \in W : ~(y < x)
    BY <1>1, <1>3
  <2> QED  BY <2>1
<1> QED  BY <1>4 DEF Min

\* A set of numbers up to n has a greatest one: n less the least distance to n.
LEMMA GreatestOf ==
    ASSUME NEW n \in Nat, NEW W \in SUBSET (0..n), W # {}
    PROVE  Max(W) \in W
<1> DEFINE D == {n - x : x \in W}
<1>1. D \in SUBSET Nat /\ D # {}
  <2>1. \A x \in W : n - x \in Nat
    OBVIOUS
  <2> QED  BY <2>1
<1>2. Min(D) \in D /\ \A y \in D : Min(D) <= y
  BY <1>1, LeastOf
<1>3. PICK x \in W : Min(D) = n - x
  BY <1>2
<1>4. \A y \in W : n - x <= n - y
  BY <1>2, <1>3
<1>5. \A y \in W : y <= x
  BY <1>4
<1> QED  BY <1>5 DEF Max

LEMMA WaiterFound ==
    ASSUME NEW W \in SUBSET (1..MaxClients), W # {}, MaxClients \in Nat
    PROVE  NextWaiter(W) \in W
<1> DEFINE words == {c \div 32 : c \in W}
           best == {c \in W : c \div 32 = Max(words)}
<1>1. \A c \in W : c \div 32 \in 0..MaxClients
  OBVIOUS
<1>2. words \in SUBSET (0..MaxClients) /\ words # {}
  BY <1>1
<1>3. Max(words) \in words
  <2> HIDE DEF words
  <2> QED  BY <1>2, GreatestOf
<1>4. PICK c \in W : c \div 32 = Max(words)
  BY <1>3
<1>5. best \in SUBSET Nat /\ best # {}
  <2>1. W \in SUBSET Nat
    OBVIOUS
  <2> QED  BY <1>4, <2>1, Zenon
<1>6. Min(best) \in best
  BY <1>5, LeastOf, Zenon
<1> QED  BY <1>6 DEF NextWaiter

-----------------------------------------------------------------------------
\* The server's variables s fit the clients C that are connected: there is
\* nothing of others in its sets, and during a grab it hears and reads only the
\* client that has it and those that are impervious.
Sets(s, C) ==
    /\ s \in Server
    /\ s.AllClients \union s.ClientsWithInput \subseteq C
    /\ s.grabWaiters \union s.GrabImperviousClients \subseteq C
    /\ s.grabState # "none" <=> s.GrabInProgress # 0
    /\ s.GrabInProgress # 0 =>
         /\ s.grabClient = s.GrabInProgress /\ s.GrabInProgress \in C
         /\ s.AllClients \union s.ClientsWithInput
              \subseteq s.GrabImperviousClients \union {s.GrabInProgress}
         /\ s.SavedAllClients \union s.SavedClientsWithInput \subseteq C

\* ... and fit the clients A that sleep and those B with full requests in their
\* buffers, as long as nobody has used grab control.  Everybody who does not
\* sleep is heard or will be after the grab; who sleeps is not heard, nor after
\* the grab unless it is the one that has it; a full request is known of.
Calm(s, C, A, B) ==
    /\ s.GrabImperviousClients = {} /\ s.grabWaiters = {}
    /\ (s.AllClients \union s.ClientsWithInput) \cap A = {}
    /\ s.GrabInProgress = 0 => C \ A \subseteq s.AllClients
    /\ s.GrabInProgress # 0 =>
         /\ C \ A \subseteq s.AllClients \union s.SavedAllClients
         /\ (s.SavedAllClients \union s.SavedClientsWithInput) \cap A \subseteq {s.GrabInProgress}
         /\ s.GrabInProgress \notin s.SavedClientsWithInput
         /\ s.GrabInProgress \in s.AllClients \union A
    /\ \A c \in C \cap B :
         \/ c \in s.ClientsWithInput
         \/ s.GrabInProgress # 0 /\ c \in s.SavedClientsWithInput
         \/ c \in A \cap s.IgnoredClientsWithInput

\* The other variables.
Types ==
    /\ asleep \subseteq connected /\ connected \subseteq Client
    /\ again \subseteq connected /\ hungUp \subseteq connected
    /\ buffered \in [Client -> 0..MaxRequests] /\ sent \in [Client -> 0..MaxRequests]
    /\ current \in Client \union {0} /\ request \in {"none", "any", "GrabServer"}
    /\ controlled \in BOOLEAN

\* Does the server hear c, if it is grabbed?
MayRun(s, c) == s.GrabInProgress # 0 => c \in s.GrabImperviousClients \union {s.GrabInProgress}

\* Clients with full requests in their buffers.
Full == {c \in Client : buffered[c] > 0}

\* During a turn nobody else can grab the server.
InTurn ==
    /\ current # 0 => current \in connected /\ MayRun(server, current)
    /\ request # "none" => current # 0 /\ buffered[current] < MaxRequests
    /\ Full \subseteq connected

\* The inductive invariant.
IInv ==
    /\ Types /\ Sets(server, connected) /\ InTurn
    /\ ~controlled => Calm(server, connected, asleep, Full) /\ current \notin asleep

\* A grab keeps the sets sound, and is that of the client that asks for it.
LEMMA GrabStep ==
    ASSUME NEW C \in SUBSET Client, NEW c \in C, NEW s, Sets(s, C),
           s.grabState = "none" \/ s.grabClient = c
    PROVE  LET t == [OnlyListenToOneClient(s, c) EXCEPT !.grabState = "kickout", !.grabClient = c] IN
           /\ Sets(t, C) /\ MayRun(t, c)
           /\ t.GrabImperviousClients = s.GrabImperviousClients
           /\ \A A \in SUBSET C : \A B : Calm(s, C, A, B) /\ c \notin A => Calm(t, C, A, B)
<1> DEFINE t == [OnlyListenToOneClient(s, c) EXCEPT !.grabState = "kickout", !.grabClient = c]
<1> USE GrabAssumption
<1>0. s \in Server /\ c \in Client /\ c # 0
  BY DEF Sets
<1>1. CASE s.GrabInProgress # 0
  <2>1. /\ t \in Server
        /\ t.AllClients = s.AllClients
        /\ t.SavedAllClients = s.SavedAllClients
        /\ t.ClientsWithInput = s.ClientsWithInput
        /\ t.SavedClientsWithInput = s.SavedClientsWithInput
        /\ t.IgnoredClientsWithInput = s.IgnoredClientsWithInput
        /\ t.GrabImperviousClients = s.GrabImperviousClients
        /\ t.GrabInProgress = s.GrabInProgress
        /\ t.grabState = "kickout"
        /\ t.grabClient = c /\ t.grabWaiters = s.grabWaiters
    BY <1>0, <1>1 DEF Server, OnlyListenToOneClient
  <2> HIDE DEF t
  <2>2. Sets(t, C) /\ MayRun(t, c)
    BY <1>0, <1>1, <2>1 DEF Sets, MayRun
  <2>3. \A A \in SUBSET C : \A B : Calm(s, C, A, B) /\ c \notin A => Calm(t, C, A, B)
    BY <1>0, <1>1, <2>1 DEF Calm
  <2>4. /\ Sets(t, C) /\ MayRun(t, c)
        /\ t.GrabImperviousClients = s.GrabImperviousClients
        /\ \A A \in SUBSET C : \A B : Calm(s, C, A, B) /\ c \notin A => Calm(t, C, A, B)
    BY <1>1, <2>1, <2>2, <2>3
  <2> QED  BY <2>4 DEF t
<1>2. CASE s.GrabInProgress = 0
  <2>1. /\ t \in Server
        /\ t.AllClients = (s.AllClients \cap s.GrabImperviousClients) \union {c}
        /\ t.SavedAllClients = s.AllClients
        /\ t.ClientsWithInput = s.ClientsWithInput \cap (s.GrabImperviousClients \union {c})
        /\ t.SavedClientsWithInput = s.ClientsWithInput \ (s.GrabImperviousClients \union {c})
        /\ t.IgnoredClientsWithInput = s.IgnoredClientsWithInput
        /\ t.GrabImperviousClients = s.GrabImperviousClients
        /\ t.GrabInProgress = c
        /\ t.grabState = "kickout"
        /\ t.grabClient = c /\ t.grabWaiters = s.grabWaiters
    <3> DEFINE u == OnlyListenToOneClient(s, c)
    <3>1. u = [s EXCEPT !.SavedClientsWithInput =
                          s.ClientsWithInput \ (s.GrabImperviousClients \union {c}),
                        !.ClientsWithInput = @ \cap (s.GrabImperviousClients \union {c}),
                        !.SavedAllClients = s.AllClients,
                        !.AllClients = (@ \cap s.GrabImperviousClients) \union {c},
                        !.GrabInProgress = c]
      BY <1>2 DEF OnlyListenToOneClient
    <3>2. t = [u EXCEPT !.grabState = "kickout", !.grabClient = c]
      OBVIOUS
    <3> HIDE DEF t, u
    <3>3. /\ u \in Server
          /\ u.AllClients = (s.AllClients \cap s.GrabImperviousClients) \union {c}
          /\ u.SavedAllClients = s.AllClients
          /\ u.ClientsWithInput = s.ClientsWithInput \cap (s.GrabImperviousClients \union {c})
          /\ u.SavedClientsWithInput = s.ClientsWithInput \ (s.GrabImperviousClients \union {c})
          /\ u.IgnoredClientsWithInput = s.IgnoredClientsWithInput
          /\ u.GrabImperviousClients = s.GrabImperviousClients
          /\ u.GrabInProgress = c
          /\ u.grabWaiters = s.grabWaiters
      BY <1>0, <3>1 DEF Server
    <3> QED  BY <1>0, <3>2, <3>3 DEF Server
  <2> HIDE DEF t
  <2>2. Sets(t, C) /\ MayRun(t, c)
    BY <1>0, <1>2, <2>1 DEF Sets, MayRun
  <2>3. \A A \in SUBSET C : \A B : Calm(s, C, A, B) /\ c \notin A => Calm(t, C, A, B)
    BY <1>0, <1>2, <2>1 DEF Calm
  <2>4. /\ Sets(t, C) /\ MayRun(t, c)
        /\ t.GrabImperviousClients = s.GrabImperviousClients
        /\ \A A \in SUBSET C : \A B : Calm(s, C, A, B) /\ c \notin A => Calm(t, C, A, B)
    BY <1>2, <2>1, <2>2, <2>3
  <2> QED  BY <2>4 DEF t
<1> QED  BY <1>1, <1>2

\* A client that is ignored joins those that sleep.
LEMMA IgnoreStep ==
    ASSUME NEW C \in SUBSET Client, NEW c \in C, NEW s, Sets(s, C)
    PROVE  LET t == IgnoreClient(s, c) IN
           /\ Sets(t, C)
           /\ t.GrabImperviousClients = s.GrabImperviousClients
           /\ t.GrabInProgress = s.GrabInProgress
           /\ \A A \in SUBSET C : \A B :
             Calm(s, C, A, B) /\ c \notin A /\ MayRun(s, c) => Calm(t, C, A \union {c}, B)
<1> DEFINE t == IgnoreClient(s, c)
<1> USE GrabAssumption
<1>0. s \in Server /\ c \in Client /\ c # 0
  BY DEF Sets
<1>1. CASE s.GrabInProgress = 0 \/ c \in s.AllClients
  <2>1. /\ t \in Server
        /\ t.AllClients = s.AllClients \ {c}
        /\ t.SavedAllClients = s.SavedAllClients
        /\ t.ClientsWithInput = s.ClientsWithInput \ {c}
        /\ t.SavedClientsWithInput = s.SavedClientsWithInput
        /\ t.IgnoredClientsWithInput = IF c \in s.ClientsWithInput
             THEN s.IgnoredClientsWithInput \union {c} ELSE s.IgnoredClientsWithInput \ {c}
        /\ t.GrabImperviousClients = s.GrabImperviousClients
        /\ t.GrabInProgress = s.GrabInProgress /\ t.grabState = s.grabState
        /\ t.grabClient = s.grabClient /\ t.grabWaiters = s.grabWaiters
    <3> DEFINE u == [s EXCEPT !.IgnoredClientsWithInput =
                       IF c \in s.ClientsWithInput THEN @ \union {c} ELSE @ \ {c}]
    <3>1. /\ u \in Server
          /\ u.AllClients = s.AllClients
          /\ u.SavedAllClients = s.SavedAllClients
          /\ u.ClientsWithInput = s.ClientsWithInput
          /\ u.SavedClientsWithInput = s.SavedClientsWithInput
          /\ u.IgnoredClientsWithInput = IF c \in s.ClientsWithInput
               THEN s.IgnoredClientsWithInput \union {c} ELSE s.IgnoredClientsWithInput \ {c}
          /\ u.GrabImperviousClients = s.GrabImperviousClients
          /\ u.GrabInProgress = s.GrabInProgress /\ u.grabState = s.grabState
          /\ u.grabClient = s.grabClient /\ u.grabWaiters = s.grabWaiters
      BY <1>0 DEF Server
    <3>2. t = [u EXCEPT !.ClientsWithInput = @ \ {c}, !.AllClients = @ \ {c}]
      BY <1>1 DEF IgnoreClient
    <3> HIDE DEF t, u
    <3> QED  BY <3>1, <3>2 DEF Server
  <2> HIDE DEF t
  <2>2. Sets(t, C)
    BY <1>0, <1>1, <2>1 DEF Sets
  <2>3. \A A \in SUBSET C : \A B :
             Calm(s, C, A, B) /\ c \notin A /\ MayRun(s, c) => Calm(t, C, A \union {c}, B)
    BY <1>0, <1>1, <2>1 DEF Calm, MayRun
  <2>4. /\ Sets(t, C)
        /\ t.GrabImperviousClients = s.GrabImperviousClients
        /\ t.GrabInProgress = s.GrabInProgress
        /\ \A A \in SUBSET C : \A B :
             Calm(s, C, A, B) /\ c \notin A /\ MayRun(s, c) => Calm(t, C, A \union {c}, B)
    BY <1>1, <2>1, <2>2, <2>3
  <2> QED  BY <2>4 DEF t
<1>2. CASE ~(s.GrabInProgress = 0 \/ c \in s.AllClients)
  <2>1. /\ t \in Server
        /\ t.AllClients = s.AllClients
        /\ t.SavedAllClients = s.SavedAllClients \ {c}
        /\ t.ClientsWithInput = s.ClientsWithInput
        /\ t.SavedClientsWithInput = s.SavedClientsWithInput \ {c}
        /\ t.IgnoredClientsWithInput = IF c \in s.SavedClientsWithInput
             THEN s.IgnoredClientsWithInput \union {c} ELSE s.IgnoredClientsWithInput \ {c}
        /\ t.GrabImperviousClients = s.GrabImperviousClients
        /\ t.GrabInProgress = s.GrabInProgress /\ t.grabState = s.grabState
        /\ t.grabClient = s.grabClient /\ t.grabWaiters = s.grabWaiters
    <3> DEFINE u == [s EXCEPT !.IgnoredClientsWithInput =
                       IF c \in s.SavedClientsWithInput THEN @ \union {c} ELSE @ \ {c}]
    <3>1. /\ u \in Server
          /\ u.AllClients = s.AllClients
          /\ u.SavedAllClients = s.SavedAllClients
          /\ u.ClientsWithInput = s.ClientsWithInput
          /\ u.SavedClientsWithInput = s.SavedClientsWithInput
          /\ u.IgnoredClientsWithInput = IF c \in s.SavedClientsWithInput
               THEN s.IgnoredClientsWithInput \union {c} ELSE s.IgnoredClientsWithInput \ {c}
          /\ u.GrabImperviousClients = s.GrabImperviousClients
          /\ u.GrabInProgress = s.GrabInProgress /\ u.grabState = s.grabState
          /\ u.grabClient = s.grabClient /\ u.grabWaiters = s.grabWaiters
      BY <1>0 DEF Server
    <3>2. t = [u EXCEPT !.SavedClientsWithInput = @ \ {c}, !.SavedAllClients = @ \ {c}]
      BY <1>2 DEF IgnoreClient
    <3> HIDE DEF t, u
    <3> QED  BY <3>1, <3>2 DEF Server
  <2> HIDE DEF t
  <2>2. Sets(t, C)
    BY <1>0, <1>2, <2>1 DEF Sets
  <2>3. \A A \in SUBSET C : \A B :
             Calm(s, C, A, B) /\ c \notin A /\ MayRun(s, c) => Calm(t, C, A \union {c}, B)
    BY <1>0, <1>2, <2>1 DEF Calm, MayRun
  <2>4. /\ Sets(t, C)
        /\ t.GrabImperviousClients = s.GrabImperviousClients
        /\ t.GrabInProgress = s.GrabInProgress
        /\ \A A \in SUBSET C : \A B :
             Calm(s, C, A, B) /\ c \notin A /\ MayRun(s, c) => Calm(t, C, A \union {c}, B)
    BY <1>2, <2>1, <2>2, <2>3
  <2> QED  BY <2>4 DEF t
<1> QED  BY <1>1, <1>2

\* ... and leaves them when it is attended to.
LEMMA AttendStep ==
    ASSUME NEW C \in SUBSET Client, NEW c \in C, NEW s, Sets(s, C)
    PROVE  LET t == AttendClient(s, c) IN
           /\ Sets(t, C)
           /\ t.GrabImperviousClients = s.GrabImperviousClients
           /\ t.GrabInProgress = s.GrabInProgress
           /\ \A A \in SUBSET C : \A B : Calm(s, C, A, B) /\ c \in A => Calm(t, C, A \ {c}, B)
<1> DEFINE t == AttendClient(s, c)
<1> USE GrabAssumption
<1>0. s \in Server /\ c \in Client /\ c # 0
  BY DEF Sets
<1>1. CASE s.GrabInProgress \in {0, c} \/ c \in s.GrabImperviousClients
  <2>1. /\ t \in Server
        /\ t.AllClients = s.AllClients \union {c}
        /\ t.SavedAllClients = s.SavedAllClients
        /\ t.ClientsWithInput = s.ClientsWithInput \union ({c} \cap s.IgnoredClientsWithInput)
        /\ t.SavedClientsWithInput = s.SavedClientsWithInput
        /\ t.IgnoredClientsWithInput = s.IgnoredClientsWithInput
        /\ t.GrabImperviousClients = s.GrabImperviousClients
        /\ t.GrabInProgress = s.GrabInProgress /\ t.grabState = s.grabState
        /\ t.grabClient = s.grabClient /\ t.grabWaiters = s.grabWaiters
    BY <1>0, <1>1 DEF Server, AttendClient
  <2> HIDE DEF t
  <2>2. Sets(t, C)
    BY <1>0, <1>1, <2>1 DEF Sets
  <2>3. \A A \in SUBSET C : \A B : Calm(s, C, A, B) /\ c \in A => Calm(t, C, A \ {c}, B)
    BY <1>0, <1>1, <2>1 DEF Calm
  <2>4. /\ Sets(t, C)
        /\ t.GrabImperviousClients = s.GrabImperviousClients
        /\ t.GrabInProgress = s.GrabInProgress
        /\ \A A \in SUBSET C : \A B : Calm(s, C, A, B) /\ c \in A => Calm(t, C, A \ {c}, B)
    BY <1>1, <2>1, <2>2, <2>3
  <2> QED  BY <2>4 DEF t
<1>2. CASE ~(s.GrabInProgress \in {0, c} \/ c \in s.GrabImperviousClients)
  <2>1. /\ t \in Server
        /\ t.AllClients = s.AllClients
        /\ t.SavedAllClients = s.SavedAllClients \union {c}
        /\ t.ClientsWithInput = s.ClientsWithInput
        /\ t.SavedClientsWithInput = s.SavedClientsWithInput \union ({c} \cap s.IgnoredClientsWithInput)
        /\ t.IgnoredClientsWithInput = s.IgnoredClientsWithInput
        /\ t.GrabImperviousClients = s.GrabImperviousClients
        /\ t.GrabInProgress = s.GrabInProgress /\ t.grabState = s.grabState
        /\ t.grabClient = s.grabClient /\ t.grabWaiters = s.grabWaiters
    BY <1>0, <1>2 DEF Server, AttendClient
  <2> HIDE DEF t
  <2>2. Sets(t, C)
    BY <1>0, <1>2, <2>1 DEF Sets
  <2>3. \A A \in SUBSET C : \A B : Calm(s, C, A, B) /\ c \in A => Calm(t, C, A \ {c}, B)
    BY <1>0, <1>2, <2>1 DEF Calm
  <2>4. /\ Sets(t, C)
        /\ t.GrabImperviousClients = s.GrabImperviousClients
        /\ t.GrabInProgress = s.GrabInProgress
        /\ \A A \in SUBSET C : \A B : Calm(s, C, A, B) /\ c \in A => Calm(t, C, A \ {c}, B)
    BY <1>2, <2>1, <2>2, <2>3
  <2> QED  BY <2>4 DEF t
<1> QED  BY <1>1, <1>2

\* A client that is no longer impervious is not heard during a grab.
LEMMA PerviousStep ==
    ASSUME NEW C \in SUBSET Client, NEW c \in C, NEW s, Sets(s, C)
    PROVE  LET t == MakeClientGrabPervious(s, c) IN
           /\ Sets(t, C)
           /\ s.GrabInProgress \in {0, c} => MayRun(t, c)
           /\ t.GrabImperviousClients = s.GrabImperviousClients \ {c}
           /\ \A A \in SUBSET C : \A B : Calm(s, C, A, B) /\ MayRun(s, c) => Calm(t, C, A, B)
<1> DEFINE t == MakeClientGrabPervious(s, c)
<1> USE GrabAssumption
<1>0. s \in Server /\ c \in Client /\ c # 0
  BY DEF Sets
<1>1. CASE s.GrabInProgress \in {0, c}
  <2>1. /\ t \in Server
        /\ t.AllClients = s.AllClients
        /\ t.SavedAllClients = s.SavedAllClients
        /\ t.ClientsWithInput = s.ClientsWithInput
        /\ t.SavedClientsWithInput = s.SavedClientsWithInput
        /\ t.IgnoredClientsWithInput = s.IgnoredClientsWithInput
        /\ t.GrabImperviousClients = s.GrabImperviousClients \ {c}
        /\ t.GrabInProgress = s.GrabInProgress /\ t.grabState = s.grabState
        /\ t.grabClient = s.grabClient /\ t.grabWaiters = s.grabWaiters
    BY <1>0, <1>1 DEF Server, MakeClientGrabPervious
  <2> HIDE DEF t
  <2>2. Sets(t, C)
    BY <1>0, <1>1, <2>1 DEF Sets
  <2>3. s.GrabInProgress \in {0, c} => MayRun(t, c)
    BY <1>0, <1>1, <2>1 DEF MayRun
  <2>4. \A A \in SUBSET C : \A B : Calm(s, C, A, B) /\ MayRun(s, c) => Calm(t, C, A, B)
    BY <1>0, <1>1, <2>1 DEF Calm, MayRun
  <2>5. /\ Sets(t, C)
        /\ s.GrabInProgress \in {0, c} => MayRun(t, c)
        /\ t.GrabImperviousClients = s.GrabImperviousClients \ {c}
        /\ \A A \in SUBSET C : \A B : Calm(s, C, A, B) /\ MayRun(s, c) => Calm(t, C, A, B)
    BY <1>1, <2>1, <2>2, <2>3, <2>4
  <2> QED  BY <2>5 DEF t
<1>2. CASE ~(s.GrabInProgress \in {0, c})
  <2>1. /\ t \in Server
        /\ t.AllClients = s.AllClients \ {c}
        /\ t.SavedAllClients = s.SavedAllClients
        /\ t.ClientsWithInput = s.ClientsWithInput \ {c}
        /\ t.SavedClientsWithInput = s.SavedClientsWithInput \union ({c} \cap s.ClientsWithInput)
        /\ t.IgnoredClientsWithInput = s.IgnoredClientsWithInput
        /\ t.GrabImperviousClients = s.GrabImperviousClients \ {c}
        /\ t.GrabInProgress = s.GrabInProgress /\ t.grabState = s.grabState
        /\ t.grabClient = s.grabClient /\ t.grabWaiters = s.grabWaiters
    BY <1>0, <1>2 DEF Server, MakeClientGrabPervious
  <2> HIDE DEF t
  <2>2. Sets(t, C)
    BY <1>0, <1>2, <2>1 DEF Sets
  <2>3. s.GrabInProgress \in {0, c} => MayRun(t, c)
    BY <1>0, <1>2, <2>1 DEF MayRun
  <2>4. \A A \in SUBSET C : \A B : Calm(s, C, A, B) /\ MayRun(s, c) => Calm(t, C, A, B)
    BY <1>0, <1>2, <2>1 DEF Calm, MayRun
  <2>5. /\ Sets(t, C)
        /\ s.GrabInProgress \in {0, c} => MayRun(t, c)
        /\ t.GrabImperviousClients = s.GrabImperviousClients \ {c}
        /\ \A A \in SUBSET C : \A B : Calm(s, C, A, B) /\ MayRun(s, c) => Calm(t, C, A, B)
    BY <1>2, <2>1, <2>2, <2>3, <2>4
  <2> QED  BY <2>5 DEF t
<1> QED  BY <1>1, <1>2

\* Without a grab everybody is heard again, if the client that had it does not sleep.
LEMMA ListenStep ==
    ASSUME NEW C \in SUBSET Client, NEW s, Sets(s, C)
    PROVE  LET t == ListenToAllClients([s EXCEPT !.grabState = "none"]) IN
           /\ Sets(t, C)
           /\ t.GrabInProgress = 0
           /\ t.GrabImperviousClients = s.GrabImperviousClients
           /\ t.grabWaiters = s.grabWaiters
           /\ \A A \in SUBSET C : \A B : Calm(s, C, A, B) /\ s.GrabInProgress \notin A => Calm(t, C, A, B)
<1> DEFINE t == ListenToAllClients([s EXCEPT !.grabState = "none"])
<1> USE GrabAssumption
<1>0. s \in Server
  BY DEF Sets
<1>1. CASE s.GrabInProgress = 0
  <2>1. /\ t \in Server
        /\ t.AllClients = s.AllClients
        /\ t.SavedAllClients = s.SavedAllClients
        /\ t.ClientsWithInput = s.ClientsWithInput
        /\ t.SavedClientsWithInput = s.SavedClientsWithInput
        /\ t.IgnoredClientsWithInput = s.IgnoredClientsWithInput
        /\ t.GrabImperviousClients = s.GrabImperviousClients
        /\ t.GrabInProgress = s.GrabInProgress
        /\ t.grabState = "none" /\ t.grabClient = s.grabClient
        /\ t.grabWaiters = s.grabWaiters
    BY <1>0, <1>1 DEF Server, ListenToAllClients
  <2> HIDE DEF t
  <2>2. Sets(t, C)
    BY <1>0, <1>1, <2>1 DEF Sets
  <2>3. \A A \in SUBSET C : \A B : Calm(s, C, A, B) /\ s.GrabInProgress \notin A => Calm(t, C, A, B)
    BY <1>0, <1>1, <2>1 DEF Calm
  <2>4. /\ Sets(t, C)
        /\ t.GrabInProgress = 0
        /\ t.GrabImperviousClients = s.GrabImperviousClients
        /\ t.grabWaiters = s.grabWaiters
        /\ \A A \in SUBSET C : \A B : Calm(s, C, A, B) /\ s.GrabInProgress \notin A => Calm(t, C, A, B)
    BY <1>1, <2>1, <2>2, <2>3
  <2> QED  BY <2>4 DEF t
<1>2. CASE s.GrabInProgress # 0
  <2>1. /\ t \in Server
        /\ t.AllClients = s.AllClients \union s.SavedAllClients
        /\ t.SavedAllClients = s.SavedAllClients
        /\ t.ClientsWithInput = s.ClientsWithInput \union s.SavedClientsWithInput
        /\ t.SavedClientsWithInput = s.SavedClientsWithInput
        /\ t.IgnoredClientsWithInput = s.IgnoredClientsWithInput
        /\ t.GrabImperviousClients = s.GrabImperviousClients
        /\ t.GrabInProgress = 0
        /\ t.grabState = "none" /\ t.grabClient = s.grabClient
        /\ t.grabWaiters = s.grabWaiters
    BY <1>0, <1>2 DEF Server, ListenToAllClients
  <2> HIDE DEF t
  <2>2. Sets(t, C)
    BY <1>0, <1>2, <2>1 DEF Sets
  <2>3. \A A \in SUBSET C : \A B : Calm(s, C, A, B) /\ s.GrabInProgress \notin A => Calm(t, C, A, B)
    BY <1>0, <1>2, <2>1 DEF Calm
  <2>4. /\ Sets(t, C)
        /\ t.GrabInProgress = 0
        /\ t.GrabImperviousClients = s.GrabImperviousClients
        /\ t.grabWaiters = s.grabWaiters
        /\ \A A \in SUBSET C : \A B : Calm(s, C, A, B) /\ s.GrabInProgress \notin A => Calm(t, C, A, B)
    BY <1>2, <2>1, <2>2, <2>3
  <2> QED  BY <2>4 DEF t
<1> QED  BY <1>1, <1>2

\* A client that is gone, and has no grab, is in none of the sets.
LEMMA CloseStep ==
    ASSUME NEW C \in SUBSET Client, NEW c \in C, NEW s, Sets(s, C),
           s.GrabInProgress # c
    PROVE  LET t == CloseDownFileDescriptor([s EXCEPT !.grabWaiters = @ \ {c}], c) IN
           /\ Sets(t, C \ {c})
           /\ t.GrabInProgress = s.GrabInProgress
           /\ t.GrabImperviousClients = s.GrabImperviousClients \ {c}
           /\ \A A \in SUBSET C : \A B : Calm(s, C, A, B) => Calm(t, C \ {c}, A \ {c}, B \ {c})
<1> DEFINE t == CloseDownFileDescriptor([s EXCEPT !.grabWaiters = @ \ {c}], c)
<1> USE GrabAssumption
<1>0. s \in Server /\ c \in Client /\ c # 0
  BY DEF Sets
<1>1. CASE s.GrabInProgress = 0
  <2>1. /\ t \in Server
        /\ t.AllClients = s.AllClients \ {c}
        /\ t.SavedAllClients = s.SavedAllClients
        /\ t.ClientsWithInput = s.ClientsWithInput \ {c}
        /\ t.SavedClientsWithInput = s.SavedClientsWithInput
        /\ t.IgnoredClientsWithInput = s.IgnoredClientsWithInput
        /\ t.GrabImperviousClients = s.GrabImperviousClients \ {c}
        /\ t.GrabInProgress = s.GrabInProgress /\ t.grabState = s.grabState
        /\ t.grabClient = s.grabClient
        /\ t.grabWaiters = s.grabWaiters \ {c}
    BY <1>0, <1>1 DEF Server, CloseDownFileDescriptor
  <2> HIDE DEF t
  <2>2. Sets(t, C \ {c})
    BY <1>0, <1>1, <2>1 DEF Sets
  <2>3. \A A \in SUBSET C : \A B : Calm(s, C, A, B) => Calm(t, C \ {c}, A \ {c}, B \ {c})
    BY <1>0, <1>1, <2>1 DEF Calm
  <2>4. /\ Sets(t, C \ {c})
        /\ t.GrabInProgress = s.GrabInProgress
        /\ t.GrabImperviousClients = s.GrabImperviousClients \ {c}
        /\ \A A \in SUBSET C : \A B : Calm(s, C, A, B) => Calm(t, C \ {c}, A \ {c}, B \ {c})
    BY <1>1, <2>1, <2>2, <2>3
  <2> QED  BY <2>4 DEF t
<1>2. CASE s.GrabInProgress # 0
  <2>1. /\ t \in Server
        /\ t.AllClients = s.AllClients \ {c}
        /\ t.SavedAllClients = s.SavedAllClients \ {c}
        /\ t.ClientsWithInput = s.ClientsWithInput \ {c}
        /\ t.SavedClientsWithInput = s.SavedClientsWithInput \ {c}
        /\ t.IgnoredClientsWithInput = s.IgnoredClientsWithInput
        /\ t.GrabImperviousClients = s.GrabImperviousClients \ {c}
        /\ t.GrabInProgress = s.GrabInProgress /\ t.grabState = s.grabState
        /\ t.grabClient = s.grabClient
        /\ t.grabWaiters = s.grabWaiters \ {c}
    <3> DEFINE u == [s EXCEPT !.AllClients = @ \ {c}, !.ClientsWithInput = @ \ {c},
                              !.GrabImperviousClients = @ \ {c}, !.grabWaiters = @ \ {c}]
    <3>1. /\ u \in Server
          /\ u.AllClients = s.AllClients \ {c}
          /\ u.SavedAllClients = s.SavedAllClients
          /\ u.ClientsWithInput = s.ClientsWithInput \ {c}
          /\ u.SavedClientsWithInput = s.SavedClientsWithInput
          /\ u.IgnoredClientsWithInput = s.IgnoredClientsWithInput
          /\ u.GrabImperviousClients = s.GrabImperviousClients \ {c}
          /\ u.GrabInProgress = s.GrabInProgress /\ u.grabState = s.grabState
          /\ u.grabClient = s.grabClient
          /\ u.grabWaiters = s.grabWaiters \ {c}
      BY <1>0 DEF Server
    <3>2. t = [u EXCEPT !.SavedAllClients = @ \ {c}, !.SavedClientsWithInput = @ \ {c}]
      BY <1>0, <1>2 DEF Server, CloseDownFileDescriptor
    <3> HIDE DEF t, u
    <3> QED  BY <3>1, <3>2 DEF Server
  <2> HIDE DEF t
  <2>2. Sets(t, C \ {c})
    BY <1>0, <1>2, <2>1 DEF Sets
  <2>3. \A A \in SUBSET C : \A B : Calm(s, C, A, B) => Calm(t, C \ {c}, A \ {c}, B \ {c})
    BY <1>0, <1>2, <2>1 DEF Calm
  <2>4. /\ Sets(t, C \ {c})
        /\ t.GrabInProgress = s.GrabInProgress
        /\ t.GrabImperviousClients = s.GrabImperviousClients \ {c}
        /\ \A A \in SUBSET C : \A B : Calm(s, C, A, B) => Calm(t, C \ {c}, A \ {c}, B \ {c})
    BY <1>2, <2>1, <2>2, <2>3
  <2> QED  BY <2>4 DEF t
<1> QED  BY <1>1, <1>2

\* A read finds another full request in the buffer of client c, or none: d.
Noted(s, c, d) == [s EXCEPT !.ClientsWithInput = IF d THEN @ \union {c} ELSE @ \ {c}]
Filled(B, c, d) == IF d THEN B \union {c} ELSE B \ {c}

LEMMA InputStep ==
    ASSUME NEW C \in SUBSET Client, NEW c \in C, NEW s, Sets(s, C),
           NEW d \in BOOLEAN, MayRun(s, c)
    PROVE  LET t == Noted(s, c, d) IN
           /\ Sets(t, C)
           /\ t.GrabInProgress = s.GrabInProgress
           /\ t.GrabImperviousClients = s.GrabImperviousClients
           /\ \A A \in SUBSET C : \A B :
             Calm(s, C, A, B) /\ c \notin A =>
               Calm(t, C, A, Filled(B, c, d))
<1> DEFINE t == Noted(s, c, d)
<1> USE GrabAssumption
<1>0. s \in Server /\ c \in Client /\ c # 0
  BY DEF Sets
<1>1. CASE d
  <2>1. /\ t \in Server
        /\ t.AllClients = s.AllClients
        /\ t.SavedAllClients = s.SavedAllClients
        /\ t.ClientsWithInput = s.ClientsWithInput \union {c}
        /\ t.SavedClientsWithInput = s.SavedClientsWithInput
        /\ t.IgnoredClientsWithInput = s.IgnoredClientsWithInput
        /\ t.GrabImperviousClients = s.GrabImperviousClients
        /\ t.GrabInProgress = s.GrabInProgress /\ t.grabState = s.grabState
        /\ t.grabClient = s.grabClient /\ t.grabWaiters = s.grabWaiters
    BY <1>0, <1>1 DEF Server, Noted
  <2> HIDE DEF t
  <2>2. Sets(t, C)
    BY <1>0, <1>1, <2>1 DEF Sets, MayRun
  <2>3. \A A \in SUBSET C : \A B :
             Calm(s, C, A, B) /\ c \notin A =>
               Calm(t, C, A, Filled(B, c, d))
    BY <1>0, <1>1, <2>1 DEF Calm, Filled
  <2>4. /\ Sets(t, C)
        /\ t.GrabInProgress = s.GrabInProgress
        /\ t.GrabImperviousClients = s.GrabImperviousClients
        /\ \A A \in SUBSET C : \A B :
             Calm(s, C, A, B) /\ c \notin A =>
               Calm(t, C, A, Filled(B, c, d))
    BY <1>1, <2>1, <2>2, <2>3
  <2> QED  BY <2>4 DEF t
<1>2. CASE ~d
  <2>1. /\ t \in Server
        /\ t.AllClients = s.AllClients
        /\ t.SavedAllClients = s.SavedAllClients
        /\ t.ClientsWithInput = s.ClientsWithInput \ {c}
        /\ t.SavedClientsWithInput = s.SavedClientsWithInput
        /\ t.IgnoredClientsWithInput = s.IgnoredClientsWithInput
        /\ t.GrabImperviousClients = s.GrabImperviousClients
        /\ t.GrabInProgress = s.GrabInProgress /\ t.grabState = s.grabState
        /\ t.grabClient = s.grabClient /\ t.grabWaiters = s.grabWaiters
    BY <1>0, <1>2 DEF Server, Noted
  <2> HIDE DEF t
  <2>2. Sets(t, C)
    BY <1>0, <1>2, <2>1 DEF Sets, MayRun
  <2>3. \A A \in SUBSET C : \A B :
             Calm(s, C, A, B) /\ c \notin A =>
               Calm(t, C, A, Filled(B, c, d))
    BY <1>0, <1>2, <2>1 DEF Calm, Filled
  <2>4. /\ Sets(t, C)
        /\ t.GrabInProgress = s.GrabInProgress
        /\ t.GrabImperviousClients = s.GrabImperviousClients
        /\ \A A \in SUBSET C : \A B :
             Calm(s, C, A, B) /\ c \notin A =>
               Calm(t, C, A, Filled(B, c, d))
    BY <1>2, <2>1, <2>2, <2>3
  <2> QED  BY <2>4 DEF t
<1> QED  BY <1>1, <1>2

\* A new client is heard, or will be when the server is free.
LEMMA ConnectStep ==
    ASSUME NEW C \in SUBSET Client, NEW c \in Client \ C, NEW s, Sets(s, C)
    PROVE  LET t == IF s.GrabInProgress # 0 THEN [s EXCEPT !.SavedAllClients = @ \union {c}]
                    ELSE [s EXCEPT !.AllClients = @ \union {c}] IN
           /\ Sets(t, C \union {c})
           /\ t.GrabInProgress = s.GrabInProgress
           /\ t.GrabImperviousClients = s.GrabImperviousClients
           /\ \A A \in SUBSET C, B \in SUBSET C : Calm(s, C, A, B) => Calm(t, C \union {c}, A, B)
<1> DEFINE t == IF s.GrabInProgress # 0 THEN [s EXCEPT !.SavedAllClients = @ \union {c}]
                ELSE [s EXCEPT !.AllClients = @ \union {c}]
<1> USE GrabAssumption
<1>0. s \in Server /\ c \in Client /\ c # 0
  BY DEF Sets
<1>1. CASE s.GrabInProgress # 0
  <2>1. /\ t \in Server
        /\ t.AllClients = s.AllClients
        /\ t.SavedAllClients = s.SavedAllClients \union {c}
        /\ t.ClientsWithInput = s.ClientsWithInput
        /\ t.SavedClientsWithInput = s.SavedClientsWithInput
        /\ t.IgnoredClientsWithInput = s.IgnoredClientsWithInput
        /\ t.GrabImperviousClients = s.GrabImperviousClients
        /\ t.GrabInProgress = s.GrabInProgress /\ t.grabState = s.grabState
        /\ t.grabClient = s.grabClient /\ t.grabWaiters = s.grabWaiters
    BY <1>0, <1>1 DEF Server
  <2> HIDE DEF t
  <2>2. Sets(t, C \union {c})
    BY <1>0, <1>1, <2>1 DEF Sets
  <2>3. \A A \in SUBSET C, B \in SUBSET C : Calm(s, C, A, B) => Calm(t, C \union {c}, A, B)
    BY <1>0, <1>1, <2>1 DEF Calm, Sets
  <2>4. /\ Sets(t, C \union {c})
        /\ t.GrabInProgress = s.GrabInProgress
        /\ t.GrabImperviousClients = s.GrabImperviousClients
        /\ \A A \in SUBSET C, B \in SUBSET C : Calm(s, C, A, B) => Calm(t, C \union {c}, A, B)
    BY <2>1, <2>2, <2>3
  <2> QED  BY <2>4 DEF t
<1>2. CASE s.GrabInProgress = 0
  <2>1. /\ t \in Server
        /\ t.AllClients = s.AllClients \union {c}
        /\ t.SavedAllClients = s.SavedAllClients
        /\ t.ClientsWithInput = s.ClientsWithInput
        /\ t.SavedClientsWithInput = s.SavedClientsWithInput
        /\ t.IgnoredClientsWithInput = s.IgnoredClientsWithInput
        /\ t.GrabImperviousClients = s.GrabImperviousClients
        /\ t.GrabInProgress = s.GrabInProgress /\ t.grabState = s.grabState
        /\ t.grabClient = s.grabClient /\ t.grabWaiters = s.grabWaiters
    BY <1>0, <1>2 DEF Server
  <2> HIDE DEF t
  <2>2. Sets(t, C \union {c})
    BY <1>0, <1>2, <2>1 DEF Sets
  <2>3. \A A \in SUBSET C, B \in SUBSET C : Calm(s, C, A, B) => Calm(t, C \union {c}, A, B)
    BY <1>0, <1>2, <2>1 DEF Calm, Sets
  <2>4. /\ Sets(t, C \union {c})
        /\ t.GrabInProgress = s.GrabInProgress
        /\ t.GrabImperviousClients = s.GrabImperviousClients
        /\ \A A \in SUBSET C, B \in SUBSET C : Calm(s, C, A, B) => Calm(t, C \union {c}, A, B)
    BY <2>1, <2>2, <2>3
  <2> QED  BY <2>4 DEF t
<1> QED  BY <1>1, <1>2

\* The dispatcher notices the grab.
LEMMA KickStep ==
    ASSUME NEW C \in SUBSET Client, NEW s, Sets(s, C), s.grabState = "kickout"
    PROVE  LET t == [s EXCEPT !.grabState = "active"] IN
           /\ Sets(t, C)
           /\ t.GrabInProgress = s.GrabInProgress
           /\ t.GrabImperviousClients = s.GrabImperviousClients
           /\ \A A, B : Calm(s, C, A, B) => Calm(t, C, A, B)
  BY DEF Sets, Server, Calm

\* A client becomes impervious; what was heard before still is.
LEMMA ImperviousStep ==
    ASSUME NEW C \in SUBSET Client, NEW c \in C, NEW s, Sets(s, C)
    PROVE  LET t == MakeClientGrabImpervious(s, c) IN
           /\ Sets(t, C)
           /\ t.GrabInProgress = s.GrabInProgress
           /\ t.GrabImperviousClients = s.GrabImperviousClients \union {c}
  BY DEF Sets, Server, MakeClientGrabImpervious

\* A client waits for a grab; this takes grab control.
LEMMA AwaitStep ==
    ASSUME NEW C \in SUBSET Client, NEW c \in C, NEW s, Sets(s, C),
           s.grabState # "none", s.grabClient # c, MayRun(s, c)
    PROVE  LET heard == c \in s.AllClients
               t == IgnoreClient([s EXCEPT
                      !.ClientsWithInput = IF heard THEN @ \union {c} ELSE @,
                      !.IgnoredClientsWithInput = IF heard THEN @ ELSE @ \union {c},
                      !.grabWaiters = @ \union {c}], c)
           IN  Sets(t, C) /\ t.GrabImperviousClients = s.GrabImperviousClients
               /\ \A A, B : ~Calm(s, C, A, B)
<1> DEFINE heard == c \in s.AllClients
           u == [s EXCEPT
                   !.ClientsWithInput = IF heard THEN @ \union {c} ELSE @,
                   !.IgnoredClientsWithInput = IF heard THEN @ ELSE @ \union {c},
                   !.grabWaiters = @ \union {c}]
<1>1. Sets(u, C) /\ u.GrabImperviousClients = s.GrabImperviousClients
  <2> DEFINE input == IF heard THEN s.ClientsWithInput \union {c} ELSE s.ClientsWithInput
             ignored == IF heard THEN s.IgnoredClientsWithInput
                        ELSE s.IgnoredClientsWithInput \union {c}
  <2>1. /\ input \subseteq Client /\ ignored \subseteq Client /\ input \subseteq C
        /\ s.GrabInProgress # 0 => input \subseteq s.GrabImperviousClients \union {s.GrabInProgress}
    BY DEF Sets, Server
  <2>2. u = [s EXCEPT !.ClientsWithInput = input, !.IgnoredClientsWithInput = ignored,
                      !.grabWaiters = @ \union {c}]
    BY DEF Sets, Server
  <2> HIDE DEF input, ignored, u
  <2> QED  BY <2>1, <2>2 DEF Sets, Server
<1>2. \A A, B : ~Calm(s, C, A, B)
  BY DEF Calm, MayRun, Sets
<1> HIDE DEF u
<1>3. Sets(IgnoreClient(u, c), C) /\ IgnoreClient(u, c).GrabImperviousClients = s.GrabImperviousClients
  BY <1>1, IgnoreStep
<1> QED  BY <1>2, <1>3 DEF u

\* The grab ends, and the next client that waits is let in.
LEMMA UngrabStep ==
    ASSUME NEW C \in SUBSET Client, NEW s, Sets(s, C)
    PROVE  LET t == UngrabServer(s) IN
           /\ Sets(t, C) /\ t.GrabInProgress = 0
           /\ t.GrabImperviousClients = s.GrabImperviousClients
           /\ \A A \in SUBSET C : \A B :
                Calm(s, C, A, B) /\ s.GrabInProgress \notin A => Calm(t, C, A, B)
<1> DEFINE u == ListenToAllClients([s EXCEPT !.grabState = "none"])
           next == NextWaiter(s.grabWaiters)
           v == [u EXCEPT !.grabWaiters = @ \ {next}]
<1>1. /\ Sets(u, C) /\ u.GrabInProgress = 0
      /\ u.GrabImperviousClients = s.GrabImperviousClients
      /\ u.grabWaiters = s.grabWaiters
      /\ \A A \in SUBSET C : \A B :
           Calm(s, C, A, B) /\ s.GrabInProgress \notin A => Calm(u, C, A, B)
  BY ListenStep
<1>2. UngrabServer(s) = IF s.grabWaiters = {} THEN u ELSE AttendClient(v, next)
  BY DEF UngrabServer
<1> HIDE DEF u
<1>3. CASE s.grabWaiters = {}
  BY <1>1, <1>2, <1>3
<1>4. CASE s.grabWaiters # {}
  <2>1. next \in C
    <3>1. s.grabWaiters \in SUBSET (1..MaxClients) /\ s.grabWaiters \subseteq C
      BY GrabAssumption DEF Sets
    <3> QED  BY <1>4, <3>1, GrabAssumption, WaiterFound
  <2> HIDE DEF next
  <2>2. Sets(v, C) /\ v.GrabInProgress = 0 /\ v.GrabImperviousClients = s.GrabImperviousClients
    BY <1>1 DEF Sets, Server
  <2> HIDE DEF v
  <2>3. /\ Sets(AttendClient(v, next), C) /\ AttendClient(v, next).GrabInProgress = 0
        /\ AttendClient(v, next).GrabImperviousClients = s.GrabImperviousClients
    BY <2>1, <2>2, AttendStep
  <2>4. \A A, B : ~Calm(s, C, A, B)
    BY <1>4 DEF Calm
  <2> QED  BY <1>2, <1>4, <2>3, <2>4
<1> QED  BY <1>3, <1>4

\* A client goes, and with it the grab it has.
LEMMA CloseDownStep ==
    ASSUME NEW C \in SUBSET Client, NEW c \in C, NEW s, Sets(s, C)
    PROVE  LET t == CloseDownClient(s, c) IN
           /\ Sets(t, C \ {c})
           /\ \A d : d # c /\ MayRun(s, d) => MayRun(t, d)
           /\ \A A \in SUBSET C : \A B :
                Calm(s, C, A, B) /\ s.GrabInProgress \notin A =>
                  Calm(t, C \ {c}, A \ {c}, B \ {c})
<1> DEFINE u == IF s.grabState # "none" /\ s.grabClient = c THEN UngrabServer(s) ELSE s
           t == CloseDownFileDescriptor([u EXCEPT !.grabWaiters = @ \ {c}], c)
<1>1. CloseDownClient(s, c) = t
  BY DEF CloseDownClient
<1>2. c # 0
  BY GrabAssumption
<1>3. /\ Sets(u, C) /\ u.GrabInProgress # c /\ u.GrabInProgress \in {0, s.GrabInProgress}
      /\ u.GrabImperviousClients = s.GrabImperviousClients
      /\ \A A \in SUBSET C : \A B :
           Calm(s, C, A, B) /\ s.GrabInProgress \notin A => Calm(u, C, A, B)
  <2>1. CASE s.grabState # "none" /\ s.grabClient = c
    BY <1>2, <2>1, UngrabStep
  <2>2. CASE ~(s.grabState # "none" /\ s.grabClient = c)
    <3>1. s.GrabInProgress # c
      BY <1>2, <2>2 DEF Sets
    <3> QED  BY <2>2, <3>1
  <2> QED  BY <2>1, <2>2
<1> HIDE DEF u
<1>4. /\ Sets(t, C \ {c}) /\ t.GrabInProgress = u.GrabInProgress
      /\ t.GrabImperviousClients = u.GrabImperviousClients \ {c}
      /\ \A A \in SUBSET C : \A B : Calm(u, C, A, B) => Calm(t, C \ {c}, A \ {c}, B \ {c})
  BY <1>3, CloseStep
<1> HIDE DEF t
<1>5. \A d : d # c /\ MayRun(s, d) => MayRun(t, d)
  BY <1>3, <1>4 DEF MayRun
<1> QED  BY <1>1, <1>3, <1>4, <1>5

-----------------------------------------------------------------------------
(***************************************************************************)
(* Every action keeps IInv.                                                *)
(***************************************************************************)
\* The four parts of it after a step.
Parts ==
    /\ Types' /\ Sets(server', connected') /\ InTurn'
    /\ ~controlled' => Calm(server', connected', asleep', Full') /\ current' \notin asleep'

LEMMA PartsOf == Parts => IInv'
  BY DEF Parts, IInv

\* What holds for the client whose turn it is.
LEMMA TurnFacts ==
    ASSUME IInv, NEW c \in Client, current = c
    PROVE  /\ connected \in SUBSET Client /\ c \in connected /\ asleep \in SUBSET connected
           /\ Sets(server, connected) /\ MayRun(server, c) /\ c # 0
           /\ ~controlled => /\ Calm(server, connected, asleep, Full) /\ c \notin asleep
                             /\ server.GrabInProgress \notin asleep
                             /\ server.GrabInProgress \in {0, c}
<1>1. c # 0
  BY GrabAssumption
<1>2. /\ connected \in SUBSET Client /\ c \in connected /\ asleep \in SUBSET connected
      /\ Sets(server, connected) /\ MayRun(server, c)
      /\ ~controlled => Calm(server, connected, asleep, Full) /\ c \notin asleep
  BY <1>1 DEF IInv, Types, InTurn
<1>3. ASSUME ~controlled PROVE server.GrabInProgress \in {0, c}
  BY <1>2, <1>3 DEF MayRun, Calm
<1>4. ASSUME ~controlled PROVE server.GrabInProgress \notin asleep
  <2>1. 0 \notin asleep
    BY <1>2, GrabAssumption
  <2> QED  BY <1>2, <1>3, <1>4, <2>1
<1> QED  BY <1>1, <1>2, <1>3, <1>4

\* Steps that touch neither the server's sets nor what is in the buffers.
LEMMA QuietStep ==
    ASSUME IInv, Record, UNCHANGED <<server, asleep, connected, buffered>>,
           again' \subseteq connected, hungUp' \subseteq connected,
           sent' \in [Client -> 0..MaxRequests],
           request' \in {"none", request},
           current' \in {0, current}, request' # "none" => current' = current
    PROVE  IInv'
<1>1. Types'
  BY DEF IInv, Types, Record
<1>2. Sets(server', connected')
  BY DEF IInv
<1>3. Full' = Full
  BY DEF Full
<1>4. InTurn'
  BY <1>3 DEF IInv, InTurn, MayRun
<1>5. ~controlled' => Calm(server', connected', asleep', Full') /\ current' \notin asleep'
  <2>1. 0 \notin asleep
    BY GrabAssumption DEF IInv, Types
  <2> QED  BY <1>3, <2>1 DEF IInv, Record
<1> QED  BY <1>1, <1>2, <1>4, <1>5, PartsOf DEF Parts

\* Who gets a turn is heard.
LEMMA ScheduleStep ==
    ASSUME IInv, Record, NEW c \in Client, Schedule(c)
    PROVE  IInv'
<1>1. /\ connected \in SUBSET Client /\ Sets(server, connected)
      /\ c \in server.AllClients \union server.ClientsWithInput
  BY DEF IInv, Types, Schedule, Readable
<1>2. c \in connected /\ MayRun(server, c)
  BY <1>1 DEF Sets, MayRun
<1>3. CASE server.grabState = "kickout"
  <2>1. /\ server' = [server EXCEPT !.grabState = "active"]
        /\ UNCHANGED <<asleep, connected, buffered, again, sent, hungUp, current, request>>
    BY <1>3 DEF Schedule, clients, sockets, turn
  <2>2. /\ Sets(server', connected) /\ server'.GrabInProgress = server.GrabInProgress
        /\ server'.GrabImperviousClients = server.GrabImperviousClients
        /\ \A A, B : Calm(server, connected, A, B) => Calm(server', connected, A, B)
    BY <1>1, <1>3, <2>1, KickStep
  <2>3. Full' = Full
    BY <2>1 DEF Full
  <2>4. Types'
    BY <2>1 DEF IInv, Types, Record
  <2>5. InTurn'
    BY <2>1, <2>2, <2>3 DEF IInv, InTurn, MayRun
  <2>6. ~controlled' => Calm(server', connected', asleep', Full') /\ current' \notin asleep'
    BY <2>1, <2>2, <2>3 DEF IInv, Record
  <2> QED  BY <2>1, <2>2, <2>4, <2>5, <2>6, PartsOf DEF Parts
<1>4. CASE server.grabState # "kickout"
  <2>1. /\ UNCHANGED <<server, asleep, connected, buffered, again, sent, hungUp, request>>
        /\ current = 0 /\ current' = c
    BY <1>4 DEF Schedule, clients, sockets
  <2>2. Full' = Full
    BY <2>1 DEF Full
  <2>3. Types'
    BY <2>1 DEF IInv, Types, Record
  <2>4. InTurn'
    BY <1>2, <2>1, <2>2 DEF IInv, InTurn, MayRun
  <2>5. ~controlled' => Calm(server', connected', asleep', Full') /\ current' \notin asleep'
    <3>1. ~controlled' => ~controlled
      BY DEF Record, IInv, Types
    <3>2. ~controlled => Calm(server, connected, asleep, Full)
      BY DEF IInv
    <3>3. Calm(server, connected, asleep, Full) => c \notin asleep
      BY <1>1 DEF Calm
    <3> QED  BY <2>1, <2>2, <3>1, <3>2, <3>3
  <2> QED  BY <1>1, <2>1, <2>3, <2>4, <2>5, PartsOf DEF Parts
<1> QED  BY <1>3, <1>4

\* A request is taken from the buffer, which may hold more.
LEMMA TakeStep ==
    ASSUME IInv, Record, NEW c \in Client, Reading(c), NEW n \in 1..MaxRequests, Take(c, n),
           sent' \in [Client -> 0..MaxRequests]
    PROVE  IInv'
<1>1. /\ connected \in SUBSET Client /\ c \in connected /\ asleep \in SUBSET connected
      /\ Sets(server, connected) /\ MayRun(server, c) /\ c # 0
      /\ ~controlled => Calm(server, connected, asleep, Full) /\ c \notin asleep
  BY TurnFacts DEF Reading
<1>2. /\ buffered' = [buffered EXCEPT ![c] = n - 1] /\ again' = again \ {c}
      /\ request' \in {"any", "GrabServer"}
      /\ UNCHANGED <<asleep, connected, hungUp, current>> /\ current = c
  BY DEF Take, Reading
<1> DEFINE d == n > 1
<1>3. /\ Sets(server', connected) /\ server'.GrabInProgress = server.GrabInProgress
      /\ server'.GrabImperviousClients = server.GrabImperviousClients
      /\ \A A \in SUBSET connected : \A B :
           Calm(server, connected, A, B) /\ c \notin A =>
             Calm(server', connected, A, IF d THEN B \union {c} ELSE B \ {c})
  <2>1. server' = [server EXCEPT !.ClientsWithInput = IF d THEN @ \union {c} ELSE @ \ {c}]
    BY DEF Take
  <2>2. d \in BOOLEAN
    OBVIOUS
  <2> HIDE DEF d
  <2>3. c \in connected /\ connected \in SUBSET Client /\ Sets(server, connected) /\ MayRun(server, c)
    BY <1>1
  <2>4. LET t == Noted(server, c, d) IN
        /\ Sets(t, connected)
        /\ t.GrabInProgress = server.GrabInProgress
        /\ t.GrabImperviousClients = server.GrabImperviousClients
        /\ \A A \in SUBSET connected : \A B :
             Calm(server, connected, A, B) /\ c \notin A =>
               Calm(t, connected, A, Filled(B, c, d))
    BY <2>2, <2>3, InputStep
  <2> QED  BY <2>1, <2>4 DEF Noted, Filled
<1>4. buffered \in [Client -> 0..MaxRequests] /\ buffered' \in [Client -> 0..MaxRequests]
  BY <1>2, GrabAssumption DEF IInv, Types
<1>5. Full' = IF d THEN Full \union {c} ELSE Full \ {c}
  <2>1. \A x \in Client : buffered'[x] = IF x = c THEN n - 1 ELSE buffered[x]
    BY <1>2, <1>4
  <2>2. n - 1 > 0 <=> d
    OBVIOUS
  <2> QED  BY <2>1, <2>2 DEF Full
<1>6. Types'
  BY <1>1, <1>2, <1>4 DEF IInv, Types, Record
<1>7. InTurn'
  <2>1. buffered'[c] < MaxRequests
    BY <1>2, <1>4, GrabAssumption
  <2>2. Full' \subseteq connected
    BY <1>1, <1>5 DEF IInv, InTurn
  <2> QED  BY <1>1, <1>2, <1>3, <2>1, <2>2 DEF InTurn, MayRun
<1>8. ~controlled' => Calm(server', connected', asleep', Full') /\ current' \notin asleep'
  <2>1. ~controlled' => ~controlled
    BY DEF Record, IInv, Types
  <2> HIDE DEF d
  <2> QED  BY <1>1, <1>2, <1>3, <1>5, <2>1
<1> QED  BY <1>2, <1>3, <1>6, <1>7, <1>8, PartsOf DEF Parts

\* Steps of the client whose turn it is that leave the buffers as they are, and
\* what is required of what they do to the server's sets.
LEMMA HandlerStep ==
    ASSUME IInv, Record, NEW c \in Client, current = c,
           UNCHANGED <<connected, buffered, again, sent, hungUp>>,
           Sets(server', connected), asleep' \in SUBSET connected,
           request' = "none", current' \in {0, c}, current' = c => MayRun(server', c),
           ~controlled' /\ ~controlled /\ c \notin asleep /\ Calm(server, connected, asleep, Full) =>
             Calm(server', connected, asleep', Full) /\ current' \notin asleep'
    PROVE  IInv'
<1>1. /\ connected \in SUBSET Client /\ c \in connected
      /\ ~controlled => Calm(server, connected, asleep, Full) /\ c \notin asleep
  BY TurnFacts
<1>2. Full' = Full
  BY DEF Full
<1>3. Types'
  BY <1>1 DEF IInv, Types, Record
<1>4. InTurn'
  BY <1>1, <1>2 DEF IInv, InTurn
<1>5. ~controlled' => ~controlled
  BY DEF Record, IInv, Types
<1> QED  BY <1>1, <1>2, <1>3, <1>4, <1>5, PartsOf DEF Parts

LEMMA TurnQuiet ==
    ASSUME IInv, Record, NEW c \in Client,
           Expire(c) \/ Other(c)
    PROVE  IInv'
  BY QuietStep DEF Expire, Other, Reading, Executing, GoOn, Yield, IInv, Types, clients, sockets

LEMMA ReadStep ==
    ASSUME IInv, Record, NEW c \in Client, ReadBuffered(c) \/ ReadSocket(c)
    PROVE  IInv'
<1>1. buffered \in [Client -> 0..MaxRequests] /\ sent \in [Client -> 0..MaxRequests]
  BY DEF IInv, Types
<1>2. CASE ReadBuffered(c)
  <2>1. buffered[c] \in 1..MaxRequests /\ sent' \in [Client -> 0..MaxRequests]
    BY <1>1, <1>2, GrabAssumption DEF ReadBuffered
  <2> QED  BY <1>2, <2>1, TakeStep DEF ReadBuffered
<1>3. CASE ReadSocket(c)
  <2>1. PICK n \in 1..sent[c] : Take(c, n) /\ sent' = [sent EXCEPT ![c] = @ - n]
    BY <1>3 DEF ReadSocket
  <2>2. n \in 1..MaxRequests /\ sent' \in [Client -> 0..MaxRequests]
    BY <1>1, <2>1, GrabAssumption
  <2> QED  BY <1>3, <2>1, <2>2, TakeStep DEF ReadSocket
<1> QED  BY <1>2, <1>3

LEMMA ReadNothingStep ==
    ASSUME IInv, Record, NEW c \in Client, ReadNothing(c)
    PROVE  IInv'
<1>1. /\ connected \in SUBSET Client /\ c \in connected /\ asleep \in SUBSET connected
      /\ Sets(server, connected) /\ MayRun(server, c)
  BY TurnFacts DEF ReadNothing, Reading
<1>2. /\ UNCHANGED <<asleep, connected, buffered, again, sent, hungUp, request>>
      /\ current = c /\ current' = 0 /\ request = "none" /\ buffered[c] = 0
  BY DEF ReadNothing, Reading, clients, sockets
<1>3. /\ Sets(server', connected)
      /\ \A A \in SUBSET connected : \A B :
           Calm(server, connected, A, B) /\ c \notin A => Calm(server', connected, A, B \ {c})
  <2>1. server' = Noted(server, c, FALSE) /\ \A B : Filled(B, c, FALSE) = B \ {c}
    BY DEF ReadNothing, Noted, Filled
  <2>2. c \in connected /\ connected \in SUBSET Client /\ Sets(server, connected) /\ MayRun(server, c)
    BY <1>1
  <2>3. LET t == Noted(server, c, FALSE) IN
        /\ Sets(t, connected)
        /\ \A A \in SUBSET connected : \A B :
             Calm(server, connected, A, B) /\ c \notin A => Calm(t, connected, A, Filled(B, c, FALSE))
    BY <2>2, InputStep
  <2> QED  BY <2>1, <2>3
<1>4. Full \ {c} = Full
  BY <1>2 DEF Full
<1>5. 0 \notin asleep
  BY <1>1, GrabAssumption
<1>6. c \notin asleep /\ Calm(server, connected, asleep, Full) =>
        Calm(server', connected, asleep', Full) /\ current' \notin asleep'
  <2>1. c \notin asleep /\ Calm(server, connected, asleep, Full) =>
          Calm(server', connected, asleep, Full \ {c})
    BY <1>1, <1>3
  <2> QED  BY <1>2, <1>4, <1>5, <2>1
<1>7. /\ UNCHANGED <<connected, buffered, again, sent, hungUp>>
      /\ Sets(server', connected) /\ asleep' \in SUBSET connected
      /\ request' = "none" /\ current = c /\ current' \in {0, c} /\ current' # c
  BY <1>1, <1>2, <1>3, GrabAssumption
<1> QED  BY <1>6, <1>7, HandlerStep

LEMMA GrabServerStep ==
    ASSUME IInv, Record, NEW c \in Client, GrabServer(c)
    PROVE  IInv'
<1>1. /\ connected \in SUBSET Client /\ c \in connected /\ asleep \in SUBSET connected
      /\ Sets(server, connected)
  BY TurnFacts DEF GrabServer, Executing
<1>2. /\ UNCHANGED <<asleep, connected, buffered, again, sent, hungUp>>
      /\ current = c /\ current' = c /\ request' = "none"
      /\ server.grabState = "none" \/ server.grabClient = c
  BY DEF GrabServer, Executing, GoOn, clients, sockets
<1>3. /\ Sets(server', connected) /\ MayRun(server', c)
      /\ \A A \in SUBSET connected : \A B :
           Calm(server, connected, A, B) /\ c \notin A => Calm(server', connected, A, B)
  <2>1. server' = [OnlyListenToOneClient(server, c) EXCEPT !.grabState = "kickout", !.grabClient = c]
    BY DEF GrabServer
  <2> QED  BY <1>1, <1>2, <2>1, GrabStep
<1> QED  BY <1>1, <1>2, <1>3, HandlerStep

LEMMA AwaitGrabStep ==
    ASSUME IInv, Record, NEW c \in Client, AwaitGrab(c)
    PROVE  IInv'
<1>1. /\ connected \in SUBSET Client /\ c \in connected /\ asleep \in SUBSET connected
      /\ Sets(server, connected) /\ MayRun(server, c)
      /\ ~controlled => Calm(server, connected, asleep, Full)
  BY TurnFacts DEF AwaitGrab, Executing
<1>2. /\ UNCHANGED <<asleep, connected, sent, hungUp>>
      /\ buffered' = [buffered EXCEPT ![c] = @ + 1] /\ again' = again \union {c}
      /\ current = c /\ current' = 0 /\ request # "none" /\ request' = "none"
      /\ server.grabState # "none" /\ server.grabClient # c
  BY DEF AwaitGrab, Executing, Yield, sockets
<1>3. Sets(server', connected) /\ \A A, B : ~Calm(server, connected, A, B)
  BY <1>1, <1>2, AwaitStep DEF AwaitGrab
<1>4. controlled /\ controlled'
  BY <1>1, <1>3 DEF Record, IInv, Types
<1>5. /\ buffered \in [Client -> 0..MaxRequests] /\ buffered[c] < MaxRequests
      /\ Full \subseteq connected
  BY <1>2 DEF IInv, InTurn, Types
<1>6. buffered' \in [Client -> 0..MaxRequests] /\ Full' \subseteq connected
  <2>1. buffered[c] + 1 \in 0..MaxRequests
    BY <1>5, GrabAssumption
  <2>2. buffered' \in [Client -> 0..MaxRequests]
    BY <1>2, <1>5, <2>1
  <2>3. \A x \in Client : x # c => buffered'[x] = buffered[x]
    BY <1>2, <1>5
  <2> QED  BY <1>1, <1>5, <2>2, <2>3 DEF Full
<1>7. Types'
  BY <1>1, <1>2, <1>6 DEF IInv, Types, Record
<1>8. InTurn'
  BY <1>2, <1>6 DEF InTurn
<1> QED  BY <1>2, <1>3, <1>4, <1>7, <1>8, PartsOf DEF Parts

LEMMA UngrabServerStep ==
    ASSUME IInv, Record, NEW c \in Client, ProcUngrabServer(c)
    PROVE  IInv'
<1>1. /\ connected \in SUBSET Client /\ c \in connected /\ asleep \in SUBSET connected
      /\ Sets(server, connected) /\ (~controlled => server.GrabInProgress \notin asleep)
  BY TurnFacts DEF ProcUngrabServer, Executing
<1>2. /\ UNCHANGED <<asleep, connected, buffered, again, sent, hungUp>>
      /\ current = c /\ current' = c /\ request' = "none" /\ server' = UngrabServer(server)
  BY DEF ProcUngrabServer, Executing, GoOn, clients, sockets
<1>3. /\ Sets(server', connected) /\ MayRun(server', c)
      /\ \A A \in SUBSET connected : \A B :
           Calm(server, connected, A, B) /\ server.GrabInProgress \notin A => Calm(server', connected, A, B)
  BY <1>1, <1>2, UngrabStep DEF MayRun
<1> QED  BY <1>1, <1>2, <1>3, HandlerStep

LEMMA ControlStep ==
    ASSUME IInv, Record, NEW c \in Client, Impervious(c) \/ Pervious(c)
    PROVE  IInv'
<1>1. /\ connected \in SUBSET Client /\ c \in connected /\ asleep \in SUBSET connected
      /\ Sets(server, connected) /\ MayRun(server, c)
  BY TurnFacts DEF Impervious, Pervious, Executing
<1>2. /\ UNCHANGED <<asleep, connected, buffered, again, sent, hungUp>>
      /\ current = c /\ current' \in {0, c} /\ request' = "none"
  BY DEF Impervious, Pervious, Executing, GoOn, Yield, clients, sockets
<1>3. CASE Impervious(c)
  <2>1. /\ Sets(server', connected) /\ MayRun(server', c)
        /\ server'.GrabImperviousClients # {}
    <3>1. server' = MakeClientGrabImpervious(server, c)
      BY <1>3 DEF Impervious
    <3>2. /\ Sets(server', connected) /\ server'.GrabInProgress = server.GrabInProgress
          /\ server'.GrabImperviousClients = server.GrabImperviousClients \union {c}
      BY <1>1, <3>1, ImperviousStep
    <3> QED  BY <1>1, <3>2 DEF MayRun
  <2>2. controlled'
    BY <2>1 DEF Record
  <2> QED  BY <1>1, <1>2, <2>1, <2>2, HandlerStep
<1>4. CASE Pervious(c)
  <2>1. /\ Sets(server', connected) /\ (server.GrabInProgress \in {0, c} => MayRun(server', c))
        /\ \A A \in SUBSET connected : \A B : Calm(server, connected, A, B) => Calm(server', connected, A, B)
    BY <1>1, <1>4, PerviousStep DEF Pervious
  <2>2. current' = c => MayRun(server', c)
    <3>1. c # 0
      BY GrabAssumption
    <3> QED  BY <1>4, <2>1, <3>1 DEF Pervious, Yield
  <2>3. 0 \notin asleep
    BY <1>1, GrabAssumption
  <2> QED  BY <1>1, <1>2, <2>1, <2>2, <2>3, HandlerStep
<1> QED  BY <1>3, <1>4

LEMMA SleepStep ==
    ASSUME IInv, Record, NEW c \in Client, Sleep(c)
    PROVE  IInv'
<1>1. /\ connected \in SUBSET Client /\ c \in connected /\ asleep \in SUBSET connected
      /\ Sets(server, connected) /\ MayRun(server, c) /\ c # 0
  BY TurnFacts DEF Sleep, Executing
<1>2. /\ UNCHANGED <<connected, buffered, again, sent, hungUp>>
      /\ current = c /\ current' = 0 /\ request' = "none"
      /\ server' = IgnoreClient(server, c) /\ asleep' = asleep \union {c}
  BY DEF Sleep, Executing, Yield, clients, sockets
<1>3. /\ Sets(server', connected)
      /\ \A A \in SUBSET connected : \A B :
           Calm(server, connected, A, B) /\ c \notin A => Calm(server', connected, A \union {c}, B)
  BY <1>1, <1>2, IgnoreStep
<1>4. 0 \notin asleep'
  BY <1>1, <1>2, GrabAssumption
<1>5. asleep' \in SUBSET connected
  BY <1>1, <1>2
<1> QED  BY <1>1, <1>2, <1>3, <1>4, <1>5, HandlerStep

LEMMA WakeStep ==
    ASSUME IInv, Record, NEW c \in Client, Wake(c)
    PROVE  IInv'
<1>1. /\ UNCHANGED <<connected, buffered, again, sent, hungUp, current>>
      /\ request' = "none" /\ server' = AttendClient(server, c)
      /\ c \in asleep /\ asleep' = asleep \ {c}
  BY DEF Wake, clients, sockets
<1>2. /\ connected \in SUBSET Client /\ c \in connected /\ asleep \in SUBSET connected
      /\ Sets(server, connected)
  BY <1>1 DEF IInv, Types
<1>3. /\ Sets(server', connected) /\ server'.GrabInProgress = server.GrabInProgress
      /\ server'.GrabImperviousClients = server.GrabImperviousClients
      /\ \A A \in SUBSET connected : \A B :
           Calm(server, connected, A, B) /\ c \in A => Calm(server', connected, A \ {c}, B)
  BY <1>1, <1>2, AttendStep
<1>4. Full' = Full
  BY <1>1 DEF Full
<1>5. Types'
  BY <1>1, <1>2 DEF IInv, Types, Record
<1>6. InTurn'
  BY <1>1, <1>3, <1>4 DEF IInv, InTurn, MayRun
<1>7. ~controlled' => Calm(server', connected', asleep', Full') /\ current' \notin asleep'
  <2>1. ~controlled' => ~controlled
    BY DEF Record, IInv, Types
  <2>2. ~controlled => Calm(server, connected, asleep, Full) /\ current \notin asleep
    BY DEF IInv
  <2> QED  BY <1>1, <1>2, <1>3, <1>4, <2>1, <2>2
<1> QED  BY <1>1, <1>3, <1>5, <1>6, <1>7, PartsOf DEF Parts

\* A client d goes in the turn of c, which may be d.
LEMMA GoneStep ==
    ASSUME IInv, Record, NEW c \in Client, current = c, NEW d \in connected,
           Gone(server, d), request' = "none", current' \in {0, c}, current' = c => c # d
    PROVE  IInv'
<1>1. /\ connected \in SUBSET Client /\ c \in connected /\ asleep \in SUBSET connected
      /\ Sets(server, connected) /\ MayRun(server, c) /\ c # 0
      /\ ~controlled => /\ Calm(server, connected, asleep, Full) /\ c \notin asleep
                        /\ server.GrabInProgress \notin asleep
  BY TurnFacts
<1>2. /\ asleep' = asleep \ {d} /\ connected' = connected \ {d}
      /\ buffered' = [buffered EXCEPT ![d] = 0] /\ again' = again \ {d}
      /\ sent' = [sent EXCEPT ![d] = 0] /\ hungUp' = hungUp \ {d}
      /\ server' = CloseDownClient(server, d)
  BY DEF Gone
<1>3. /\ Sets(server', connected')
      /\ \A e : e # d /\ MayRun(server, e) => MayRun(server', e)
      /\ \A A \in SUBSET connected : \A B :
           Calm(server, connected, A, B) /\ server.GrabInProgress \notin A =>
             Calm(server', connected', A \ {d}, B \ {d})
  BY <1>1, <1>2, CloseDownStep
<1>4. /\ buffered \in [Client -> 0..MaxRequests] /\ Full \subseteq connected
  BY DEF IInv, Types, InTurn
<1>5. Full' = Full \ {d}
  <2>1. \A x \in Client : buffered'[x] = IF x = d THEN 0 ELSE buffered[x]
    BY <1>1, <1>2, <1>4
  <2> QED  BY <2>1 DEF Full
<1>6. Types'
  <2>1. buffered' \in [Client -> 0..MaxRequests] /\ sent' \in [Client -> 0..MaxRequests]
    BY <1>2, GrabAssumption DEF IInv, Types
  <2> QED  BY <1>2, <2>1 DEF IInv, Types, Record
<1>7. InTurn'
  BY <1>1, <1>2, <1>3, <1>4, <1>5 DEF InTurn
<1>8. ~controlled' => Calm(server', connected', asleep', Full') /\ current' \notin asleep'
  <2>1. ~controlled' => ~controlled
    BY DEF Record, IInv, Types
  <2>2. 0 \notin asleep
    BY <1>1, GrabAssumption
  <2> QED  BY <1>1, <1>2, <1>3, <1>5, <2>1, <2>2
<1> QED  BY <1>3, <1>6, <1>7, <1>8, PartsOf DEF Parts

LEMMA LeaveStep ==
    ASSUME IInv, Record, NEW c \in Client, ReadFails(c) \/ \E d \in Client : KillClient(c, d)
    PROVE  IInv'
<1>1. current = c
  BY DEF ReadFails, KillClient, Reading, Executing
<1>2. c \in connected /\ c # 0
  BY <1>1, TurnFacts
<1>3. CASE ReadFails(c)
  BY <1>1, <1>2, <1>3, GoneStep DEF ReadFails, Reading
<1>4. CASE \E d \in Client : KillClient(c, d)
  <2>1. PICK d \in Client : KillClient(c, d)
    BY <1>4
  <2>2. /\ Gone(server, d) /\ request' = "none" /\ current' \in {0, c} /\ (current' = c => c # d)
        /\ d \in connected
    BY <1>1, <1>2, <2>1 DEF KillClient, Yield, GoOn
  <2> QED  BY <1>1, <2>2, GoneStep
<1> QED  BY <1>3, <1>4

LEMMA ConnectedStep ==
    ASSUME IInv, Record, NEW c \in Client, Connect(c)
    PROVE  IInv'
<1>1. /\ UNCHANGED <<asleep, buffered, again, sent, hungUp, current, request>>
      /\ current = 0 /\ c \notin connected /\ connected' = connected \union {c}
  BY DEF Connect, sockets, turn
<1>2. /\ connected \in SUBSET Client /\ asleep \in SUBSET connected /\ Full \in SUBSET connected
      /\ Sets(server, connected)
  BY DEF IInv, Types, InTurn
<1>3. /\ Sets(server', connected')
      /\ \A A \in SUBSET connected, B \in SUBSET connected :
           Calm(server, connected, A, B) => Calm(server', connected', A, B)
  <2>1. server' = IF server.GrabInProgress # 0
                    THEN [server EXCEPT !.SavedAllClients = @ \union {c}]
                    ELSE [server EXCEPT !.AllClients = @ \union {c}]
    BY DEF Connect
  <2> QED  BY <1>1, <1>2, <2>1, ConnectStep
<1>4. Full' = Full
  BY <1>1 DEF Full
<1>5. Types'
  BY <1>1 DEF IInv, Types, Record
<1>6. InTurn'
  BY <1>1, <1>2, <1>4 DEF IInv, InTurn
<1>7. ~controlled' => Calm(server', connected', asleep', Full') /\ current' \notin asleep'
  <2>1. ~controlled' => ~controlled
    BY DEF Record, IInv, Types
  <2>2. ~controlled => Calm(server, connected, asleep, Full) /\ current \notin asleep
    BY DEF IInv
  <2> QED  BY <1>1, <1>2, <1>3, <1>4, <2>1, <2>2
<1> QED  BY <1>3, <1>5, <1>6, <1>7, PartsOf DEF Parts

LEMMA ClientStep ==
    ASSUME IInv, Record, NEW c \in Client, Send(c) \/ HangUp(c)
    PROVE  IInv'
<1>1. CASE Send(c)
  <2>1. sent' \in [Client -> 0..MaxRequests]
    BY <1>1, GrabAssumption DEF Send, IInv, Types
  <2> QED  BY <1>1, <2>1, QuietStep DEF Send, clients, turn, IInv, Types
<1>2. CASE HangUp(c)
  BY <1>2, QuietStep DEF HangUp, clients, turn, IInv, Types
<1> QED  BY <1>1, <1>2

LEMMA InitIInv == Init => IInv
<1> SUFFICES ASSUME Init PROVE IInv
  OBVIOUS
<1>1. Types /\ InTurn
  <2>1. /\ buffered = [c \in Client |-> 0] /\ sent = [c \in Client |-> 0]
        /\ 0 \in 0..MaxRequests
    BY GrabAssumption DEF Init
  <2>2. Full = {}
    BY <2>1 DEF Full
  <2> QED  BY <2>1, <2>2 DEF Init, Types, InTurn
<1>2. Sets(server, connected)
  BY DEF Init, Sets, Server
<1>3. Calm(server, connected, asleep, Full) /\ current \notin asleep
  BY DEF Init, Calm
<1> QED  BY <1>1, <1>2, <1>3 DEF IInv

LEMMA NextIInv == IInv /\ [Next]_vars => IInv'
<1> SUFFICES ASSUME IInv, [Next]_vars PROVE IInv'
  OBVIOUS
<1>1. ASSUME NEW c \in Client, Turn(c), Record PROVE IInv'
  BY <1>1, ReadStep, ReadNothingStep, LeaveStep, TurnQuiet, GrabServerStep, AwaitGrabStep,
     UngrabServerStep, ControlStep, SleepStep DEF Turn
<1>2. ASSUME NEW c \in Client, Schedule(c) \/ Wake(c) \/ Connect(c) \/ Send(c) \/ HangUp(c), Record
      PROVE  IInv'
  BY <1>2, ScheduleStep, WakeStep, ConnectedStep, ClientStep
<1>3. CASE UNCHANGED vars
  BY <1>3 DEF vars, clients, sockets, turn, IInv, Types, InTurn, Full
<1> QED  BY <1>1, <1>2, <1>3 DEF Next

LEMMA Invariance == Spec => []IInv
<1> QED  BY InitIInv, NextIInv, PTL DEF Spec

\* For any number of clients, any of which may be impervious, sleep, wait, be
\* killed or hang up: while one has the server grabbed, no request of another
\* that is not impervious is executed.
THEOREM GrabsExclude == Spec => []GrabExclusive
<1>1. IInv => TypeOK
  BY DEF IInv, Types, Sets, TypeOK
<1>2. IInv => (server.grabState # "none" /\ request # "none" =>
                 current \in server.GrabImperviousClients \union {server.grabClient})
  BY DEF IInv, InTurn, MayRun, Sets
<1>3. IInv => (~controlled /\ request # "none" => current \notin Waiting)
  BY DEF IInv, Calm, Waiting
<1> QED  BY <1>1, <1>2, <1>3, Invariance, PTL DEF GrabExclusive

\* Whatever becomes of clients during a grab, the server hears all that do not
\* sleep after it, unless there is grab control.
THEOREM AllHeardWhenFree == Spec => []HeardWhenFree
<1>1. IInv => HeardWhenFree
  BY DEF IInv, Calm, HeardWhenFree, Waiting
<1> QED  BY <1>1, Invariance, PTL

\* No full request is left in a buffer that nobody looks at, unless there is
\* grab control.
THEOREM InputStaysNoticed == Spec => []InputNoticed
<1>1. IInv => InputNoticed
  BY DEF IInv, Types, Calm, Full, InputNoticed, Waiting
<1> QED  BY <1>1, Invariance, PTL

-----------------------------------------------------------------------------
(***************************************************************************)
(* The timers, which WaitForSomething looks after between two turns, for   *)
(* any records, any even range of the clock, any delays and any steps of   *)
(* the clock.  ListInv says what is linked; OrderInv adds the order,       *)
(* DelayInv what is left of the delays, and PassInv how long a pass takes. *)
(***************************************************************************)
\* m is l with e inserted as its i-th element, and l without its i-th.
IsInserted(m, l, i, e, S) ==
    /\ m \in Seq(S) /\ Len(m) = Len(l) + 1
    /\ \A j \in 1..Len(l)+1 : m[j] = IF j < i THEN l[j] ELSE IF j = i THEN e ELSE l[j - 1]

IsRemoved(m, l, i, S) ==
    /\ m \in Seq(S) /\ Len(m) = Len(l) - 1
    /\ \A j \in 1..Len(l)-1 : m[j] = IF j < i THEN l[j] ELSE l[j + 1]

LEMMA Inserted ==
    ASSUME NEW S, NEW l \in Seq(S), NEW i \in 1..Len(l)+1, NEW e \in S
    PROVE  IsInserted(InsertAt(l, i, e), l, i, e, S)
<1> DEFINE p == SubSeq(l, 1, i - 1)
           q == SubSeq(l, i, Len(l))
<1>1. Len(l) \in Nat /\ i \in Nat
  BY LenProperties
<1>2. /\ p \in Seq(S) /\ Len(p) = i - 1
      /\ \A j \in 1..i-1 : p[j] = l[j]
  BY <1>1
<1>3. /\ q \in Seq(S) /\ Len(q) = Len(l) - i + 1
      /\ \A j \in 1..Len(l)-i+1 : q[j] = l[i + j - 1]
  <2>1. \A k \in i..Len(l) : l[k] \in S
    BY <1>1, ElementOfSeq
  <2>2. /\ q \in Seq(S) /\ Len(q) = IF i <= Len(l) THEN Len(l) - i + 1 ELSE 0
        /\ \A j \in 1..Len(l)-i+1 : q[j] = l[i + j - 1]
    BY <1>1, <2>1, SubSeqProperties
  <2> QED  BY <1>1, <2>2
<1>4. InsertAt(l, i, e) = p \o <<e>> \o q
  BY DEF InsertAt
<1> HIDE DEF p, q
<1> DEFINE r == p \o <<e>>
<1>5. /\ r \in Seq(S) /\ Len(r) = i
      /\ \A j \in 1..i : r[j] = IF j < i THEN l[j] ELSE e
  <2>1. <<e>> \in Seq(S) /\ Len(<<e>>) = 1 /\ <<e>>[1] = e
    OBVIOUS
  <2>2. /\ r \in Seq(S) /\ Len(r) = Len(p) + Len(<<e>>)
        /\ \A j \in 1..Len(p)+Len(<<e>>) :
              r[j] = IF j <= Len(p) THEN p[j] ELSE <<e>>[j - Len(p)]
    BY <1>2, <2>1, ConcatProperties
  <2>3. Len(p) + Len(<<e>>) = i /\ i - (i - 1) = 1
    BY <1>1, <1>2, <2>1
  <2>4. ASSUME NEW j \in 1..i PROVE r[j] = IF j < i THEN l[j] ELSE e
    <3>1. CASE j < i
      <4>1. j <= Len(p) /\ j \in 1..Len(p)+Len(<<e>>) /\ j \in 1..i-1
        BY <1>1, <1>2, <2>3, <3>1
      <4>2. r[j] = p[j] /\ p[j] = l[j]
        <5>1. r[j] = p[j]
          BY <2>2, <4>1
        <5> QED  BY <1>2, <4>1, <5>1
      <4> QED  BY <3>1, <4>2
    <3>2. CASE j = i
      <4>1. j - Len(p) = 1 /\ ~(j <= Len(p)) /\ j \in 1..Len(p)+Len(<<e>>)
        BY <1>1, <1>2, <2>3, <3>2
      <4>2. r[j] = <<e>>[j - Len(p)]
        BY <2>2, <4>1
      <4> QED  BY <1>1, <2>1, <3>2, <4>1, <4>2
    <3>3. j < i \/ j = i
      BY <1>1
    <3> QED  BY <3>1, <3>2, <3>3
  <2> QED  BY <2>2, <2>3, <2>4
<1> HIDE DEF r
<1>6. /\ r \o q \in Seq(S) /\ Len(r \o q) = Len(l) + 1
      /\ \A j \in 1..Len(l)+1 : (r \o q)[j] = IF j <= i THEN r[j] ELSE q[j - i]
  <2>1. /\ r \o q \in Seq(S) /\ Len(r \o q) = Len(r) + Len(q)
        /\ \A j \in 1..Len(r)+Len(q) :
              (r \o q)[j] = IF j <= Len(r) THEN r[j] ELSE q[j - Len(r)]
    BY <1>3, <1>5, ConcatProperties
  <2>2. Len(r) = i /\ Len(r) + Len(q) = Len(l) + 1
    BY <1>1, <1>3, <1>5
  <2> QED  BY <2>1, <2>2
<1>7. ASSUME NEW j \in 1..Len(l)+1
      PROVE  (r \o q)[j] = IF j < i THEN l[j] ELSE IF j = i THEN e ELSE l[j - 1]
  <2>1. CASE j <= i
    BY <1>1, <1>5, <1>6, <2>1
  <2>2. CASE j > i
    <3>1. j - i \in 1..Len(l)-i+1 /\ i + (j - i) - 1 = j - 1
      BY <1>1, <2>2
    <3> QED  BY <1>1, <1>3, <1>6, <2>2, <3>1
  <2>3. j <= i \/ j > i
    BY <1>1
  <2> QED  BY <2>1, <2>2, <2>3
<1> QED  BY <1>4, <1>6, <1>7 DEF r, IsInserted

LEMMA Removed ==
    ASSUME NEW S, NEW l \in Seq(S), NEW i \in 1..Len(l)
    PROVE  IsRemoved(RemoveAt(l, i), l, i, S)
<1> DEFINE p == SubSeq(l, 1, i - 1)
           q == SubSeq(l, i + 1, Len(l))
<1>1. Len(l) \in Nat /\ i \in Nat
  BY LenProperties
<1>2. /\ p \in Seq(S) /\ Len(p) = i - 1
      /\ \A j \in 1..i-1 : p[j] = l[j]
  BY <1>1
<1>3. /\ q \in Seq(S) /\ Len(q) = Len(l) - i
      /\ \A j \in 1..Len(l)-i : q[j] = l[i + j]
  <2>1. \A k \in i+1..Len(l) : l[k] \in S
    BY <1>1, ElementOfSeq
  <2>2. /\ q \in Seq(S) /\ Len(q) = IF i + 1 <= Len(l) THEN Len(l) - (i + 1) + 1 ELSE 0
        /\ \A j \in 1..Len(l)-(i+1)+1 : q[j] = l[(i + 1) + j - 1]
    BY <1>1, <2>1, SubSeqProperties
  <2>3. \A j \in 1..Len(l)-i : (i + 1) + j - 1 = i + j
    BY <1>1
  <2> QED  BY <1>1, <2>2, <2>3
<1>4. RemoveAt(l, i) = p \o q
  BY DEF RemoveAt
<1> HIDE DEF p, q
<1>5. /\ p \o q \in Seq(S) /\ Len(p \o q) = Len(l) - 1
      /\ \A j \in 1..Len(l)-1 : (p \o q)[j] = IF j <= i - 1 THEN p[j] ELSE q[j - (i - 1)]
  <2>1. /\ p \o q \in Seq(S) /\ Len(p \o q) = Len(p) + Len(q)
        /\ \A j \in 1..Len(p)+Len(q) :
              (p \o q)[j] = IF j <= Len(p) THEN p[j] ELSE q[j - Len(p)]
    BY <1>2, <1>3, ConcatProperties
  <2>2. Len(p) = i - 1 /\ Len(p) + Len(q) = Len(l) - 1
    BY <1>1, <1>2, <1>3
  <2> QED  BY <2>1, <2>2
<1>6. ASSUME NEW j \in 1..Len(l)-1
      PROVE  (p \o q)[j] = IF j < i THEN l[j] ELSE l[j + 1]
  <2>1. CASE j < i
    BY <1>1, <1>2, <1>5, <2>1
  <2>2. CASE j >= i
    <3>1. j - (i - 1) \in 1..Len(l)-i /\ i + (j - (i - 1)) = j + 1
      BY <1>1, <2>2
    <3> QED  BY <1>1, <1>3, <1>5, <2>2, <3>1
  <2>3. j < i \/ j >= i
    BY <1>1
  <2> QED  BY <2>1, <2>2, <2>3
<1> QED  BY <1>4, <1>5, <1>6 DEF IsRemoved

-----------------------------------------------------------------------------
(***************************************************************************)
(* Times: the arithmetic of the clock.                                     *)
(***************************************************************************)
LEMMA ModSmall == ASSUME NEW m \in Nat \ {0}, NEW a \in 0..m-1 PROVE a % m = a
  OBVIOUS

LEMMA ModBack == ASSUME NEW m \in Nat \ {0}, NEW a \in 0..m-1 PROVE (a + m) % m = a
  OBVIOUS

LEMMA ModNeg == ASSUME NEW m \in Nat \ {0}, NEW a \in 0..m-1 PROVE (a - m) % m = a
  OBVIOUS

LEMMA Halves == Modulus \in Nat \ {0} /\ Half \in Nat \ {0} /\ Modulus = 2 * Half /\ 0 \in Time
  BY TimersAssumption DEF Half, Time

LEMMA ModRange == \A a \in Int : a % Modulus \in Time
  BY Halves DEF Time

LEMMA Differences ==
    ASSUME NEW x \in Time, NEW y \in Time
    PROVE  Minus(x, y) \in Time /\ Minus(x, y) = IF x >= y THEN x - y ELSE x - y + Modulus
<1>1. CASE x >= y
  <2>1. x - y \in 0..Modulus-1
    BY <1>1, Halves DEF Time
  <2> QED  BY <1>1, <2>1, Halves, ModSmall DEF Minus, Time
<1>2. CASE x < y
  <2>1. x - y + Modulus \in 0..Modulus-1 /\ (x - y + Modulus) - Modulus = x - y
    BY <1>2, Halves DEF Time
  <2>2. (x - y) % Modulus = x - y + Modulus
    BY <2>1, Halves, ModNeg
  <2> QED  BY <1>2, <2>1, <2>2, Halves DEF Minus, Time
<1> QED  BY <1>1, <1>2, Halves DEF Time

LEMMA Sums ==
    ASSUME NEW x \in Time, NEW d \in Time
    PROVE  /\ (x + d) % Modulus \in Time
           /\ (x + d) % Modulus = IF x + d < Modulus THEN x + d ELSE x + d - Modulus
<1>1. CASE x + d < Modulus
  <2>1. x + d \in 0..Modulus-1
    BY <1>1, Halves DEF Time
  <2> QED  BY <1>1, <2>1, Halves, ModSmall DEF Time
<1>2. CASE x + d >= Modulus
  <2>1. x + d - Modulus \in 0..Modulus-1 /\ (x + d - Modulus) + Modulus = x + d
    BY <1>2, Halves DEF Time
  <2>2. (x + d) % Modulus = x + d - Modulus
    BY <2>1, Halves, ModBack
  <2> QED  BY <1>2, <2>1, <2>2, Halves DEF Time
<1> QED  BY <1>1, <1>2, Halves DEF Time

\* Counted from a time that no expiry time is half the range after, the
\* comparison is that of numbers.
LEMMA Ordering ==
    ASSUME NEW b \in Time, NEW x \in Time, NEW y \in Time,
           Minus(x, b) < Half, Minus(y, b) < Half
    PROVE  NotAfter(x, y) <=> Minus(x, b) <= Minus(y, b)
<1>1. /\ Minus(x, b) = IF x >= b THEN x - b ELSE x - b + Modulus
      /\ Minus(y, b) = IF y >= b THEN y - b ELSE y - b + Modulus
      /\ Minus(x, y) = IF x >= y THEN x - y ELSE x - y + Modulus
  BY Differences
<1> QED  BY <1>1, Halves DEF NotAfter, Time

LEMMA Leasts ==
    ASSUME NEW n \in Nat, NEW P \in SUBSET (1..n), P # {}
    PROVE  First(P) \in P /\ \A j \in P : First(P) <= j
<1>1. \E i \in P : \A j \in P : i <= j
  <2>1. PICK R : IsWellFoundedOn(R, Nat) /\ \A x, y \in Nat : <<x, y>> \in R <=> x < y
    BY LessThan
  <2>2. IsWellFoundedOn(R, Nat) /\ P \subseteq Nat /\ P # {}
    BY <2>1
  <2>3. PICK i \in P : \A j \in P : ~(<<j, i>> \in R)
    BY <2>2, WFMin, Zenon
  <2>4. \A j \in P : ~(j < i)
    BY <2>1, <2>2, <2>3
  <2> QED  BY <2>2, <2>4
<1> QED  BY <1>1 DEF First

-----------------------------------------------------------------------------
(***************************************************************************)
(* Lists.                                                                  *)
(***************************************************************************)
Once(l) == \A i, j \in 1..Len(l) : i # j => l[i].timer # l[j].timer
InOrder(l) == \A i, j \in 1..Len(l) : i < j => NotAfter(l[i].expires, l[j].expires)
Near(l) == \E first \in Time : \A i \in 1..Len(l) : Minus(l[i].expires, first) < Half
Lacks(l, t) == \A i \in 1..Len(l) : l[i].timer # t

\* m is l, or lacks one of its entries.
Shortened(m, l) ==
    /\ m \in Seq(Entry)
    /\ \E k \in 1..Len(l)+1 : \A j \in 1..Len(m) :
         IF j < k THEN j \in 1..Len(l) /\ m[j] = l[j]
                  ELSE j + 1 \in 1..Len(l) /\ m[j] = l[j + 1]

LEMMA EntryAt ==
    ASSUME NEW l \in Seq(Entry), NEW i \in 1..Len(l)
    PROVE  /\ Len(l) \in Nat /\ l[i] \in Entry /\ i \in Nat
           /\ l[i].timer \in Timer /\ l[i].expires \in Time /\ l[i].owed \in Time
<1>1. l[i] \in Entry /\ Len(l) \in Nat
  BY ElementOfSeq, LenProperties
<1> QED  BY <1>1 DEF Entry

LEMMA ShortenedKeeps ==
    ASSUME NEW l \in Seq(Entry), NEW m, Shortened(m, l)
    PROVE  /\ \A j \in 1..Len(m) : \E i \in 1..Len(l) : m[j] = l[i]
           /\ Once(l) => Once(m)
           /\ InOrder(l) => InOrder(m)
<1>1. PICK k \in 1..Len(l)+1 : \A j \in 1..Len(m) :
         IF j < k THEN j \in 1..Len(l) /\ m[j] = l[j]
                  ELSE j + 1 \in 1..Len(l) /\ m[j] = l[j + 1]
  BY DEF Shortened
<1>2. Len(l) \in Nat /\ Len(m) \in Nat /\ k \in Nat
  BY LenProperties DEF Shortened
<1> DEFINE at(j) == IF j < k THEN j ELSE j + 1
<1>3. \A j \in 1..Len(m) : at(j) \in 1..Len(l) /\ m[j] = l[at(j)]
  BY <1>1, <1>2
<1>4. \A i, j \in 1..Len(m) : (i < j => at(i) < at(j)) /\ (i # j => at(i) # at(j))
  BY <1>2
<1> HIDE DEF at
<1>5. Once(l) => Once(m)
  BY <1>3, <1>4 DEF Once
<1>6. InOrder(l) => InOrder(m)
  BY <1>3, <1>4 DEF InOrder
<1> QED  BY <1>3, <1>5, <1>6

LEMMA RemovedShortened ==
    ASSUME NEW l \in Seq(Entry), NEW i \in 1..Len(l)
    PROVE  /\ Shortened(RemoveAt(l, i), l)
           /\ \A t : Once(l) /\ l[i].timer = t => Lacks(RemoveAt(l, i), t)
<1> DEFINE m == RemoveAt(l, i)
<1>1. IsRemoved(m, l, i, Entry)
  BY Removed
<1> HIDE DEF m
<1>2. Len(l) \in Nat /\ i \in 1..Len(l)+1 /\ Len(m) = Len(l) - 1
  BY <1>1, LenProperties DEF IsRemoved
<1>3. Shortened(m, l)
  <2>1. \A j \in 1..Len(m) :
          IF j < i THEN j \in 1..Len(l) /\ m[j] = l[j]
                   ELSE j + 1 \in 1..Len(l) /\ m[j] = l[j + 1]
    BY <1>1, <1>2 DEF IsRemoved
  <2>2. m \in Seq(Entry)
    BY <1>1 DEF IsRemoved
  <2> QED  BY <1>2, <2>1, <2>2 DEF Shortened
<1>4. ASSUME Once(l), NEW j \in 1..Len(m) PROVE m[j].timer # l[i].timer
  <2>1. CASE j < i
    BY <1>1, <1>2, <1>4, <2>1 DEF IsRemoved, Once
  <2>2. CASE j >= i
    <3>1. j + 1 \in 1..Len(l) /\ j + 1 # i /\ m[j] = l[j + 1]
      BY <1>1, <1>2, <2>2 DEF IsRemoved
    <3> QED  BY <1>4, <3>1 DEF Once
  <2> QED  BY <1>2, <2>1, <2>2
<1> QED  BY <1>3, <1>4 DEF Lacks, m

LEMMA Unlinked ==
    ASSUME timers \in Seq(Entry), NEW t
    PROVE  Shortened(Without(t), timers) /\ (Once(timers) => Lacks(Without(t), t))
<1>1. Len(timers) \in Nat
  BY LenProperties
<1>2. CASE Listed(t)
  <2>1. First(Places(t)) \in Places(t)
    BY <1>1, <1>2, Leasts DEF Listed, Places
  <2>2. /\ First(Places(t)) \in 1..Len(timers)
        /\ timers[First(Places(t))].timer = t
    BY <2>1 DEF Places
  <2>3. Without(t) = RemoveAt(timers, First(Places(t)))
    BY <1>2 DEF Without, RemoveAt
  <2> QED  BY <2>2, <2>3, RemovedShortened
<1>3. CASE ~Listed(t)
  <2>1. Without(t) = timers
    BY <1>3 DEF Without
  <2>2. Shortened(timers, timers)
    BY <1>1 DEF Shortened
  <2>3. Lacks(timers, t)
    BY <1>3 DEF Listed, Places, Lacks
  <2> QED  BY <2>1, <2>2, <2>3
<1> QED  BY <1>2, <1>3

LEMMA PlaceFound ==
    ASSUME NEW l \in Seq(Entry), NEW e \in Entry, NEW time
    PROVE  \E k \in 1..Len(l)+1 :
             /\ IsInserted(Link(l, e, time), l, k, e, Entry)
             /\ \A j \in 1..Len(l) : j < k => NotAfter(l[j].expires, time)
             /\ k \in 1..Len(l) => ~NotAfter(l[k].expires, time)
<1> DEFINE later == {i \in 1..Len(l) : ~NotAfter(l[i].expires, time)}
           k == IF later = {} THEN Len(l) + 1 ELSE First(later)
<1>1. Len(l) \in Nat
  BY LenProperties
<1>2. later # {} => First(later) \in later /\ \A j \in later : First(later) <= j
  BY <1>1, Leasts
<1>3. Link(l, e, time) = InsertAt(l, k, e)
  BY DEF Link, InsertAt
<1>4. k \in 1..Len(l)+1
  BY <1>1, <1>2
<1>5. \A j \in 1..Len(l) : j < k => NotAfter(l[j].expires, time)
  BY <1>1, <1>2
<1>6. k \in 1..Len(l) => ~NotAfter(l[k].expires, time)
  BY <1>1, <1>2
<1> HIDE DEF k
<1>7. IsInserted(InsertAt(l, k, e), l, k, e, Entry)
  BY <1>4, Inserted
<1> QED  BY <1>3, <1>4, <1>5, <1>6, <1>7

LEMMA LinkedIn ==
    ASSUME NEW l \in Seq(Entry), NEW e \in Entry, NEW time
    PROVE  /\ Link(l, e, time) \in Seq(Entry)
           /\ \A j \in 1..Len(Link(l, e, time)) :
                Link(l, e, time)[j] = e \/ \E i \in 1..Len(l) : Link(l, e, time)[j] = l[i]
           /\ Once(l) /\ Lacks(l, e.timer) => Once(Link(l, e, time))
<1> DEFINE m == Link(l, e, time)
<1>1. PICK k \in 1..Len(l)+1 : IsInserted(m, l, k, e, Entry)
  BY PlaceFound
<1> HIDE DEF m
<1>2. Len(l) \in Nat /\ Len(m) = Len(l) + 1 /\ k \in Nat
  BY <1>1, LenProperties DEF IsInserted
<1>3. \A j \in 1..Len(m) :
        IF j < k THEN j \in 1..Len(l) /\ m[j] = l[j]
        ELSE IF j = k THEN m[j] = e
        ELSE j - 1 \in 1..Len(l) /\ m[j] = l[j - 1]
  BY <1>1, <1>2 DEF IsInserted
<1>4. ASSUME Once(l), Lacks(l, e.timer) PROVE Once(m)
  <2> SUFFICES ASSUME NEW i \in 1..Len(m), NEW j \in 1..Len(m), i < j
               PROVE  m[i].timer # m[j].timer
    BY <1>2 DEF Once
  <2>1. CASE j < k
    BY <1>2, <1>3, <1>4, <2>1 DEF Once
  <2>2. CASE j = k
    <3>1. m[j] = e /\ i \in 1..Len(l) /\ m[i] = l[i]
      BY <1>2, <1>3, <2>2
    <3> QED  BY <1>4, <3>1 DEF Lacks
  <2>3. CASE j > k /\ i = k
    BY <1>2, <1>3, <1>4, <2>3 DEF Lacks
  <2>4. CASE j > k /\ i < k
    <3>1. /\ j - 1 # i /\ i \in 1..Len(l) /\ m[i] = l[i]
          /\ j - 1 \in 1..Len(l) /\ m[j] = l[j - 1]
      BY <1>2, <1>3, <2>4
    <3> QED  BY <1>4, <3>1 DEF Once
  <2>5. CASE j > k /\ i > k
    <3>1. /\ j - 1 # i - 1 /\ i - 1 \in 1..Len(l) /\ m[i] = l[i - 1]
          /\ j - 1 \in 1..Len(l) /\ m[j] = l[j - 1]
      BY <1>2, <1>3, <2>5
    <3> QED  BY <1>4, <3>1 DEF Once
  <2> QED  BY <1>2, <2>1, <2>2, <2>3, <2>4, <2>5
<1>5. m \in Seq(Entry)
  BY <1>1 DEF IsInserted
<1>6. \A j \in 1..Len(m) : m[j] = e \/ \E i \in 1..Len(l) : m[j] = l[i]
  BY <1>3
<1> QED  BY <1>4, <1>5, <1>6 DEF m

\* An entry that is given the place for its own time goes where it belongs.
LEMMA LinkedInOrder ==
    ASSUME NEW l \in Seq(Entry), NEW e \in Entry,
           InOrder(l), Near(Link(l, e, e.expires))
    PROVE  InOrder(Link(l, e, e.expires))
<1> DEFINE m == Link(l, e, e.expires)
<1>1. PICK k \in 1..Len(l)+1 :
        /\ IsInserted(m, l, k, e, Entry)
        /\ \A j \in 1..Len(l) : j < k => NotAfter(l[j].expires, e.expires)
        /\ k \in 1..Len(l) => ~NotAfter(l[k].expires, e.expires)
  BY PlaceFound
<1>2. PICK b \in Time : \A i \in 1..Len(m) : Minus(m[i].expires, b) < Half
  BY DEF Near
<1> HIDE DEF m
<1>3. Len(l) \in Nat /\ Len(m) = Len(l) + 1 /\ k \in Nat /\ m \in Seq(Entry)
  BY <1>1, LenProperties DEF IsInserted
<1>4. /\ \A j \in 1..Len(m) : j < k => j \in 1..Len(l) /\ m[j] = l[j]
      /\ k \in 1..Len(m) /\ m[k] = e
      /\ \A j \in 1..Len(m) : j > k => j - 1 \in 1..Len(l) /\ j - 1 >= k /\ m[j] = l[j - 1]
  BY <1>1, <1>3 DEF IsInserted
<1> DEFINE off(i) == Minus(m[i].expires, b)
<1>5. ASSUME NEW i \in 1..Len(m), NEW j \in 1..Len(m)
      PROVE  off(i) \in Int /\ off(j) \in Int
             /\ (NotAfter(m[i].expires, m[j].expires) <=> off(i) <= off(j))
  <2>1. m[i].expires \in Time /\ m[j].expires \in Time
    BY <1>3, EntryAt
  <2>2. NotAfter(m[i].expires, m[j].expires) <=> off(i) <= off(j)
    BY <1>2, <2>1, Ordering
  <2>3. off(i) \in Time /\ off(j) \in Time
    BY <2>1, Differences
  <2> QED  BY <2>2, <2>3, Halves DEF Time
<1> HIDE DEF off
<1>6. ASSUME NEW j \in 1..Len(m), j > k PROVE off(k) < off(j)
  <2>1. k \in 1..Len(l) /\ k + 1 \in 1..Len(m) /\ m[k + 1] = l[k]
    BY <1>3, <1>4, <1>6
  <2>2. ~NotAfter(m[k + 1].expires, m[k].expires)
    BY <1>1, <1>4, <2>1
  <2>3. off(k) < off(k + 1)
    BY <1>4, <1>5, <2>1, <2>2
  <2>4. CASE j = k + 1
    BY <2>3, <2>4
  <2>5. CASE j > k + 1
    <3>1. NotAfter(l[k].expires, l[j - 1].expires)
      BY <1>3, <1>4, <1>6, <2>1, <2>5 DEF InOrder
    <3>2. NotAfter(m[k + 1].expires, m[j].expires)
      BY <1>4, <1>6, <2>1, <3>1
    <3>3. off(k + 1) <= off(j)
      BY <1>5, <2>1, <3>2
    <3> QED  BY <1>4, <1>5, <2>1, <2>3, <3>3
  <2> QED  BY <1>3, <1>6, <2>4, <2>5
<1>7. ASSUME NEW i \in 1..Len(m), NEW j \in 1..Len(m), i < j
      PROVE  NotAfter(m[i].expires, m[j].expires)
  <2>1. CASE j < k
    BY <1>3, <1>4, <1>7, <2>1 DEF InOrder
  <2>2. CASE j = k
    BY <1>1, <1>4, <1>7, <2>2
  <2>3. CASE j > k /\ i = k
    BY <1>4, <1>5, <1>6, <2>3
  <2>4. CASE j > k /\ i < k
    <3>1. j - 1 \in 1..Len(l) /\ i \in 1..Len(l) /\ i < j - 1 /\ m[i] = l[i] /\ m[j] = l[j - 1]
      BY <1>3, <1>4, <2>4
    <3> QED  BY <3>1 DEF InOrder
  <2>5. CASE j > k /\ i > k
    <3>1. /\ j - 1 \in 1..Len(l) /\ i - 1 \in 1..Len(l) /\ i - 1 < j - 1
          /\ m[i] = l[i - 1] /\ m[j] = l[j - 1]
      BY <1>3, <1>4, <1>7, <2>5
    <3> QED  BY <3>1 DEF InOrder
  <2> QED  BY <1>3, <1>7, <2>1, <2>2, <2>3, <2>4, <2>5
<1> QED  BY <1>7 DEF InOrder, m

-----------------------------------------------------------------------------
(***************************************************************************)
(* Types, and what is linked.                                              *)
(***************************************************************************)
\* A timer that TimerSet has called is not in the list when it is put there.
Pending == pc = "callback" /\ caller = "TimerSet" => Lacks(timers, cur.timer)

ListInv == TimersTypeOK /\ Linked /\ Pending

Control ==
    /\ left \in Nat \union {Forever}
    /\ pc \in {"dispatch", "select", "run", "rewind", "callback"}
    /\ cur \in Entry \union {None} /\ (cur # None <=> pc = "callback")
    /\ caller \in {"DoTimer", "TimerSet"} /\ back \in {"dispatch", "run", "rewind"}

LinkedIs(l, a) == Once(l) /\ \A i \in 1..Len(l) : l[i].timer \in a

LEMMA LinkedParts ==
    /\ TimersTypeOK => timers \in Seq(Entry) /\ allocated \subseteq Timer /\ clock \in Time /\ now \in Time
                 /\ Control /\ steps \in 0..MaxSteps /\ calls \in 0..MaxCalls
    /\ Linked <=> LinkedIs(timers, allocated)
    /\ Linked' <=> LinkedIs(timers', allocated')
  BY DEF TimersTypeOK, Control, Linked, LinkedIs, Once

LEMMA CallTypes ==
    ASSUME NEW entry \in Entry, NEW by \in {"DoTimer", "TimerSet"},
           NEW next \in {"dispatch", "run", "rewind"}, Call(entry, by, next)
    PROVE  Control'
  BY TimersAssumption DEF Call, Control

LEMMA ResumeTypes ==
    ASSUME Control, NEW next \in {"dispatch", "run", "rewind", "callback"},
           next = "callback" => pc = "callback", Resume(next)
    PROVE  Control'
  BY DEF Resume, Control

LEMMA WithoutLinked ==
    ASSUME ListInv, NEW t, NEW a,
           \A i \in 1..Len(timers) : timers[i].timer # t => timers[i].timer \in a
    PROVE  /\ Without(t) \in Seq(Entry) /\ LinkedIs(Without(t), a) /\ Lacks(Without(t), t)
           /\ \A u : Lacks(timers, u) => Lacks(Without(t), u)
<1> DEFINE m == Without(t)
<1>1. timers \in Seq(Entry) /\ LinkedIs(timers, allocated)
  BY LinkedParts DEF ListInv
<1>2. Shortened(m, timers) /\ Lacks(m, t)
  BY <1>1, Unlinked DEF LinkedIs
<1> HIDE DEF m
<1>3. Once(m) /\ \A j \in 1..Len(m) : \E i \in 1..Len(timers) : m[j] = timers[i]
  BY <1>1, <1>2, ShortenedKeeps DEF LinkedIs
<1>4. \A j \in 1..Len(m) : m[j].timer \in a
  BY <1>2, <1>3 DEF Lacks
<1>5. \A u : Lacks(timers, u) => Lacks(m, u)
  BY <1>3 DEF Lacks
<1>6. m \in Seq(Entry)
  BY <1>2 DEF Shortened
<1> QED  BY <1>2, <1>3, <1>4, <1>5, <1>6 DEF LinkedIs, m

LEMMA LinkLinked ==
    ASSUME NEW l \in Seq(Entry), NEW a, LinkedIs(l, a), NEW e \in Entry, NEW time,
           Lacks(l, e.timer), e.timer \in a
    PROVE  /\ Link(l, e, time) \in Seq(Entry) /\ LinkedIs(Link(l, e, time), a)
           /\ \A u : Lacks(l, u) /\ u # e.timer => Lacks(Link(l, e, time), u)
<1> DEFINE m == Link(l, e, time)
<1>1. /\ m \in Seq(Entry) /\ Once(m)
      /\ \A j \in 1..Len(m) : m[j] = e \/ \E i \in 1..Len(l) : m[j] = l[i]
  BY LinkedIn DEF LinkedIs
<1> HIDE DEF m
<1>2. \A j \in 1..Len(m) : m[j].timer \in a
  BY <1>1 DEF LinkedIs
<1>3. \A u : Lacks(l, u) /\ u # e.timer => Lacks(m, u)
  BY <1>1 DEF Lacks
<1> QED  BY <1>1, <1>2, <1>3 DEF LinkedIs, m

\* The entry that TimerSet makes.
Fresh(t, d) == [timer |-> t, expires |-> (clock + d) % Modulus, delta |-> d, owed |-> d]

LEMMA FreshEntry ==
    ASSUME clock \in Time, NEW t \in Timer, NEW d \in Time
    PROVE  /\ Fresh(t, d) \in Entry /\ Fresh(t, d).timer = t /\ Fresh(t, d).owed = d
           /\ Fresh(t, d).expires = (clock + d) % Modulus
           /\ Minus(Fresh(t, d).expires, clock) = d
           /\ NotAfter(Fresh(t, d).expires, clock) <=> d = 0 \/ d >= Half
<1> DEFINE x == (clock + d) % Modulus
<1>1. x \in Time /\ x = IF clock + d < Modulus THEN clock + d ELSE clock + d - Modulus
  BY Sums
<1>2. Minus(x, clock) = IF x >= clock THEN x - clock ELSE x - clock + Modulus
  BY <1>1, Differences
<1>3. Minus(x, clock) = d
  BY <1>1, <1>2, Halves DEF Time
<1> HIDE DEF x
<1>4. NotAfter(x, clock) <=> d = 0 \/ d >= Half
  BY <1>3 DEF NotAfter
<1>5. Fresh(t, d).expires = x
  BY DEF Fresh, x
<1>6. Fresh(t, d) \in Entry /\ Fresh(t, d).timer = t /\ Fresh(t, d).owed = d
  BY <1>1 DEF Fresh, Entry, x
<1> QED  BY <1>3, <1>4, <1>5, <1>6 DEF x

\* What TimerSet does.
LEMMA TimerSetCases ==
    ASSUME clock \in Time, NEW t \in Timer, NEW d \in Time, NEW next, TimerSet(t, d, next)
    PROVE  \/ d = 0 /\ timers' = Without(t) /\ Resume(next)
           \/ d >= Half /\ timers' = Without(t) /\ Call(Fresh(t, d), "TimerSet", next)
           \/ d # 0 /\ d < Half /\ timers' = Link(Without(t), Fresh(t, d), Fresh(t, d).expires) /\ Resume(next)
<1>1. NotAfter(Fresh(t, d).expires, clock) <=> d = 0 \/ d >= Half
  BY FreshEntry
<1>2. /\ d = 0 => timers' = Without(t) /\ Resume(next)
      /\ d # 0 /\ NotAfter(Fresh(t, d).expires, clock) =>
           timers' = Without(t) /\ Call(Fresh(t, d), "TimerSet", next)
      /\ d # 0 /\ ~NotAfter(Fresh(t, d).expires, clock) =>
           timers' = Link(Without(t), Fresh(t, d), Fresh(t, d).expires) /\ Resume(next)
  BY DEF TimerSet, Fresh
<1> QED  BY <1>1, <1>2, Halves DEF Time

LEMMA TimerSetInv ==
    ASSUME ListInv, NEW t \in Timer, NEW d \in Time, t \in allocated', allocated \subseteq allocated',
           NEW next \in {"dispatch", "run", "rewind", "callback"},
           next = "callback" => pc = "callback" /\ d < Half /\ ~(caller = "TimerSet" /\ t = cur.timer),
           TimerSet(t, d, next)
    PROVE  timers' \in Seq(Entry) /\ Linked' /\ Control' /\ Pending'
<1>1. /\ timers \in Seq(Entry) /\ clock \in Time /\ Control /\ Pending
      /\ LinkedIs(timers, allocated)
  BY LinkedParts DEF ListInv
<1>2. /\ Without(t) \in Seq(Entry) /\ LinkedIs(Without(t), allocated') /\ Lacks(Without(t), t)
      /\ \A u : Lacks(timers, u) => Lacks(Without(t), u)
  <2>1. \A i \in 1..Len(timers) : timers[i].timer # t => timers[i].timer \in allocated'
    BY <1>1 DEF LinkedIs
  <2> QED  BY <2>1, WithoutLinked
<1>3. Fresh(t, d) \in Entry /\ Fresh(t, d).timer = t
  BY <1>1, FreshEntry
<1>4. CASE timers' = Without(t) /\ Resume(next)
  <2>1. Control'
    BY <1>1, <1>4, ResumeTypes
  <2>2. Pending'
    BY <1>1, <1>2, <1>4 DEF Pending, Resume
  <2> QED  BY <1>2, <1>4, <2>1, <2>2, LinkedParts
<1>5. CASE d >= Half /\ timers' = Without(t) /\ Call(Fresh(t, d), "TimerSet", next)
  <2>1. next \in {"dispatch", "run", "rewind"}
    BY <1>5, Halves DEF Time
  <2>2. Control'
    BY <1>3, <1>5, <2>1, CallTypes
  <2>3. Pending'
    BY <1>2, <1>3, <1>5 DEF Pending, Call
  <2> QED  BY <1>2, <1>5, <2>2, <2>3, LinkedParts
<1>6. CASE timers' = Link(Without(t), Fresh(t, d), Fresh(t, d).expires) /\ Resume(next)
  <2>1. /\ timers' \in Seq(Entry) /\ LinkedIs(timers', allocated')
        /\ \A u : Lacks(Without(t), u) /\ u # t => Lacks(timers', u)
    BY <1>2, <1>3, <1>6, LinkLinked
  <2>2. Control'
    BY <1>1, <1>6, ResumeTypes
  <2>3. Pending'
    BY <1>1, <1>2, <1>6, <2>1 DEF Pending, Resume
  <2> QED  BY <2>1, <2>2, <2>3, LinkedParts
<1> QED  BY <1>1, <1>4, <1>5, <1>6, TimerSetCases

LEMMA DoTimerInv ==
    ASSUME ListInv, NEW i \in 1..Len(timers), NEW next \in {"dispatch", "run", "rewind"},
           DoTimer(timers[i], next), allocated' = allocated
    PROVE  timers' \in Seq(Entry) /\ Linked' /\ Control' /\ Pending'
<1> DEFINE e == timers[i]
<1>1. e \in Entry /\ LinkedIs(timers, allocated)
  BY EntryAt, LinkedParts DEF ListInv
<1>2. timers' = Without(e.timer) /\ Call(e, "DoTimer", next)
  BY DEF DoTimer
<1> HIDE DEF e
<1>3. Without(e.timer) \in Seq(Entry) /\ LinkedIs(Without(e.timer), allocated)
  BY <1>1, WithoutLinked DEF LinkedIs
<1>4. Control' /\ Pending'
  BY <1>1, <1>2, CallTypes DEF Pending, Call
<1> QED  BY <1>2, <1>3, <1>4, LinkedParts
LEMMA CallingInv ==
    ASSUME ListInv, Calling
    PROVE  /\ clock' \in Time /\ steps' \in 0..MaxSteps /\ calls' \in 0..MaxCalls
           /\ pc \in {"dispatch", "callback"}
<1>1. clock \in Time /\ steps \in 0..MaxSteps /\ calls \in 0..MaxCalls
  BY LinkedParts DEF ListInv
<1> QED  BY <1>1, TimersAssumption DEF Calling

LEMMA SetInv == ASSUME ListInv, NEW t \in Timer, NEW d \in Delays \union {0}, Set(t, d) PROVE ListInv'
<1>1. /\ t \in allocated' /\ allocated \subseteq allocated' /\ allocated' \subseteq Timer
      /\ now' \in Time
  BY LinkedParts DEF Set, ListInv
<1>2. d \in Time
  BY TimersAssumption, Halves
<1>3. TimerSet(t, d, pc) /\ (pc = "callback" => d < Half /\ ~(caller = "TimerSet" /\ t = cur.timer))
  BY DEF Set
<1>4. Calling
  BY DEF Set
<1>5. pc \in {"dispatch", "callback"}
  BY <1>4, CallingInv
<1>6. timers' \in Seq(Entry) /\ Linked' /\ Control' /\ Pending'
  BY <1>1, <1>2, <1>3, <1>5, TimerSetInv
<1> QED  BY <1>1, <1>4, <1>6, CallingInv DEF ListInv, TimersTypeOK, Control

LEMMA CancelInv ==
    ASSUME ListInv, NEW t \in Timer, Cancel(t) \/ Free(t)
    PROVE  ListInv'
<1>1. Calling /\ timers' = Without(t) /\ UNCHANGED controlVars
      /\ (allocated' = allocated \/ allocated' = allocated \ {t})
  BY DEF Cancel, Free
<1>2. /\ LinkedIs(timers, allocated) /\ Control /\ allocated \subseteq Timer /\ now \in Time
  BY LinkedParts DEF ListInv
<1>3. /\ Without(t) \in Seq(Entry) /\ LinkedIs(Without(t), allocated') /\ Lacks(Without(t), t)
      /\ \A u : Lacks(timers, u) => Lacks(Without(t), u)
  <2>1. \A i \in 1..Len(timers) : timers[i].timer # t => timers[i].timer \in allocated'
    BY <1>1, <1>2 DEF LinkedIs
  <2> QED  BY <2>1, WithoutLinked
<1>4. Pending'
  BY <1>1, <1>3 DEF ListInv, Pending, controlVars
<1>5. Linked' /\ timers' \in Seq(Entry)
  BY <1>1, <1>3, LinkedParts
<1>6. Control' /\ now' \in Time
  BY <1>1, <1>2 DEF Control, controlVars
<1>7. clock' \in Time /\ steps' \in 0..MaxSteps /\ calls' \in 0..MaxCalls
  BY <1>1, CallingInv
<1>8. allocated' \subseteq Timer
  BY <1>1, <1>2
<1> QED  BY <1>4, <1>5, <1>6, <1>7, <1>8 DEF ListInv, TimersTypeOK, Control

LEMMA TimerForceInv == ASSUME ListInv, NEW t \in Timer, TimerForce(t) PROVE ListInv'
<1>1. /\ Calling /\ pc = "dispatch" /\ Listed(t) /\ DoTimer(timers[First(Places(t))], pc)
      /\ allocated' = allocated /\ now' = now
  BY DEF TimerForce
<1>2. First(Places(t)) \in 1..Len(timers)
  <2>1. Len(timers) \in Nat
    BY LenProperties, LinkedParts DEF ListInv
  <2> QED  BY <1>1, <2>1, Leasts DEF Listed, Places
<1>3. timers' \in Seq(Entry) /\ Linked' /\ Control' /\ Pending'
  BY <1>1, <1>2, DoTimerInv
<1>4. allocated' \subseteq Timer /\ now' \in Time
  BY <1>1, LinkedParts DEF ListInv
<1> QED  BY <1>1, <1>3, <1>4, CallingInv DEF ListInv, TimersTypeOK, Control

LEMMA ReturnInv == ASSUME ListInv, Return PROVE ListInv'
<1>1. Resume(back) /\ UNCHANGED <<timers, allocated, clock, now, steps, calls>>
  BY DEF Return
<1>2. Control /\ back \in {"dispatch", "run", "rewind"}
  BY LinkedParts DEF ListInv, Control
<1>3. Control' /\ pc' # "callback"
  <2>1. Control'
    BY <1>1, <1>2, ResumeTypes
  <2> QED  BY <1>1, <1>2, <2>1 DEF Resume
<1> QED  BY <1>1, <1>3 DEF ListInv, TimersTypeOK, Control, Linked, Pending

LEMMA ReturnDelayInv == ASSUME ListInv, NEW d \in Delays, ReturnDelay(d) PROVE ListInv'
<1>1. /\ pc = "callback" /\ cur.timer \in allocated /\ UNCHANGED <<allocated, clock, now, steps, calls>>
      /\ caller = "DoTimer" => TimerSet(cur.timer, d, back)
      /\ caller # "DoTimer" => timers' = Link(timers, cur, d) /\ Resume(back)
  BY DEF ReturnDelay
<1>2. /\ Control /\ back \in {"dispatch", "run", "rewind"} /\ cur \in Entry /\ cur.timer \in Timer
      /\ caller \in {"DoTimer", "TimerSet"} /\ timers \in Seq(Entry) /\ LinkedIs(timers, allocated)
      /\ d \in Time
  BY <1>1, LinkedParts, TimersAssumption DEF ListInv, Control, Entry
<1>3. timers' \in Seq(Entry) /\ Linked' /\ Control' /\ Pending'
  <2>1. CASE caller = "DoTimer"
    BY <1>1, <1>2, <2>1, TimerSetInv
  <2>2. CASE caller = "TimerSet"
    <3>1. timers' = Link(timers, cur, d) /\ Resume(back) /\ Lacks(timers, cur.timer)
      BY <1>1, <2>2 DEF ListInv, Pending
    <3>2. timers' \in Seq(Entry) /\ LinkedIs(timers', allocated)
      BY <1>1, <1>2, <3>1, LinkLinked
    <3>3. Control'
      BY <1>2, <3>1, ResumeTypes
    <3>4. Pending'
      BY <1>2, <3>1 DEF Pending, Resume
    <3> QED  BY <1>1, <3>2, <3>3, <3>4, LinkedParts
  <2> QED  BY <1>2, <2>1, <2>2
<1> QED  BY <1>1, <1>3 DEF ListInv, TimersTypeOK, Control

LEMMA UntilTypes ==
    ASSUME timers \in Seq(Entry), NEW time \in Time
    PROVE  Until(timers, time) \in Nat \union {Forever}
<1>1. CASE timers = <<>>
  BY <1>1 DEF Until
<1>2. CASE timers # <<>>
  <2>1. Head(timers) \in Entry
    BY <1>2, HeadTailProperties
  <2>2. Minus(Head(timers).expires, time) \in Time
    BY <2>1, Differences DEF Entry
  <2> QED  BY <1>2, <2>2, Halves DEF Until, Time
<1> QED  BY <1>1, <1>2

LEMMA WaitInv == ASSUME ListInv, Wait \/ WakeUp \/ WakeBusy PROVE ListInv'
<1>1. timers \in Seq(Entry) /\ clock \in Time /\ now \in Time /\ Control
  BY LinkedParts DEF ListInv
<1>2. /\ UNCHANGED <<timers, allocated, clock, cur, caller, back, steps, calls>>
      /\ pc \in {"dispatch", "select"} /\ pc' \in {"rewind", "select", "run", "dispatch"}
      /\ now' \in Time /\ left' \in Nat \union {Forever}
  BY <1>1, UntilTypes DEF Wait, WakeUp, WakeBusy, Control
<1> QED  BY <1>2 DEF ListInv, TimersTypeOK, Linked, Pending

LEMMA CheckAllTimersInv == ASSUME ListInv, CheckAllTimers PROVE ListInv'
<1> DEFINE affected == {i \in 1..Len(timers) : Rewound(timers[i])}
<1>1. timers \in Seq(Entry) /\ clock \in Time /\ now \in Time /\ Control /\ allocated \subseteq Timer
  BY LinkedParts DEF ListInv
<1>2. pc = "rewind" /\ UNCHANGED <<allocated, clock, steps, calls>>
  BY DEF CheckAllTimers
<1>3. CASE affected # {}
  <2>1. DoTimer(timers[First(affected)], "rewind") /\ now' = now
    BY <1>3 DEF CheckAllTimers
  <2>2. First(affected) \in 1..Len(timers)
    <3>1. Len(timers) \in Nat
      BY <1>1, LenProperties
    <3> QED  BY <1>3, <3>1, Leasts
  <2> HIDE DEF affected
  <2>3. timers' \in Seq(Entry) /\ Linked' /\ Control' /\ Pending'
    BY <1>2, <2>1, <2>2, DoTimerInv
  <2> QED  BY <1>1, <1>2, <2>1, <2>3 DEF ListInv, TimersTypeOK, Control
<1>4. CASE affected = {}
  <2>1. pc' = "select" /\ left' = Until(timers, now) /\ now' = 0 /\ UNCHANGED <<timers, cur, caller, back>>
    BY <1>4 DEF CheckAllTimers
  <2>2. left' \in Nat \union {Forever} /\ now' \in Time
    BY <1>1, <2>1, UntilTypes, Halves
  <2> QED  BY <1>2, <2>1, <2>2 DEF ListInv, TimersTypeOK, Linked, Pending
<1> QED  BY <1>3, <1>4

LEMMA RunInv == ASSUME ListInv, Run PROVE ListInv'
<1>1. timers \in Seq(Entry) /\ clock \in Time /\ now \in Time /\ Control /\ allocated \subseteq Timer
  BY LinkedParts DEF ListInv
<1>2. pc = "run" /\ UNCHANGED <<allocated, clock, steps, calls>>
  BY DEF Run, Pass
<1>3. CASE timers # <<>> /\ NotAfter(Head(timers).expires, now)
  <2>1. DoTimer(Head(timers), "run") /\ now' = now
    BY <1>3 DEF Run, Pass
  <2>2. 1 \in 1..Len(timers) /\ Head(timers) = timers[1]
    BY <1>1, <1>3, HeadTailProperties, LenProperties, EmptySeq
  <2>3. timers' \in Seq(Entry) /\ Linked' /\ Control' /\ Pending'
    BY <1>2, <2>1, <2>2, DoTimerInv
  <2> QED  BY <1>1, <1>2, <2>1, <2>3 DEF ListInv, TimersTypeOK, Control
<1>4. CASE ~(timers # <<>> /\ NotAfter(Head(timers).expires, now))
  <2>1. pc' = "dispatch" /\ now' = 0 /\ UNCHANGED <<timers, cur, caller, back, left>>
    BY <1>4 DEF Run, Pass
  <2> QED  BY <1>2, <2>1, Halves DEF ListInv, TimersTypeOK, Linked, Pending
<1> QED  BY <1>3, <1>4

\* What a tick makes of an entry.
Older(e) == [e EXCEPT !.owed = IF @ > 0 THEN @ - 1 ELSE 0]

LEMMA OlderEntry ==
    ASSUME NEW e \in Entry
    PROVE  /\ Older(e) \in Entry /\ Older(e).timer = e.timer /\ Older(e).expires = e.expires
           /\ Older(e).owed = IF e.owed > 0 THEN e.owed - 1 ELSE 0
<1>1. e.owed \in Time
  BY DEF Entry
<1> DEFINE o == IF e.owed > 0 THEN e.owed - 1 ELSE 0
<1>2. o \in Time
  BY <1>1, Halves DEF Time
<1>3. Older(e) = [e EXCEPT !.owed = o]
  BY DEF Older
<1> HIDE DEF o
<1>4. /\ [e EXCEPT !.owed = o] \in Entry /\ [e EXCEPT !.owed = o].timer = e.timer
      /\ [e EXCEPT !.owed = o].expires = e.expires /\ [e EXCEPT !.owed = o].owed = o
  BY <1>2 DEF Entry
<1> QED  BY <1>3, <1>4 DEF o

LEMMA TickedList ==
    ASSUME NEW l, Len(l) \in Nat, \A i \in 1..Len(l) : Older(l[i]) \in Entry,
           timers' = [i \in 1..Len(l) |-> [l[i] EXCEPT !.owed = IF @ > 0 THEN @ - 1 ELSE 0]]
    PROVE  /\ timers' \in Seq(Entry) /\ Len(timers') = Len(l)
           /\ \A i \in 1..Len(l) : timers'[i] = Older(l[i])
<1>1. timers' = [i \in 1..Len(l) |-> Older(l[i])]
  BY DEF Older
<1> QED  BY <1>1, SeqDef, LenProperties

LEMMA TickInv == ASSUME ListInv, Tick PROVE ListInv'
<1>1. timers \in Seq(Entry) /\ clock \in Time /\ Control /\ Len(timers) \in Nat
  BY LinkedParts, LenProperties DEF ListInv
<1>2. /\ clock' = (clock + 1) % Modulus
      /\ left' = IF left > 0 THEN left - 1 ELSE left
      /\ timers' = [i \in 1..Len(timers) |->
           [timers[i] EXCEPT !.owed = IF @ > 0 THEN @ - 1 ELSE 0]]
      /\ UNCHANGED <<allocated, pc, cur, caller, back, now, steps, calls>>
  BY DEF Tick
<1>3. clock' \in Time
  BY <1>1, <1>2, ModRange DEF Time
<1>4. left' \in Nat \union {Forever}
  BY <1>1, <1>2 DEF Control, Forever
<1>5. \A i \in 1..Len(timers) :
        Older(timers[i]) \in Entry /\ Older(timers[i]).timer = timers[i].timer
  BY <1>1, EntryAt, OlderEntry
<1>6. /\ timers' \in Seq(Entry) /\ Len(timers') = Len(timers)
      /\ \A i \in 1..Len(timers) : timers'[i] = Older(timers[i])
  BY <1>1, <1>2, <1>5, TickedList
<1> QED  BY <1>2, <1>3, <1>4, <1>5, <1>6 DEF ListInv, TimersTypeOK, Linked, Pending, Lacks

LEMMA StepInv == ASSUME ListInv, NEW s \in Steps, Step(s) PROVE ListInv'
<1>1. clock \in Time /\ steps \in 0..MaxSteps /\ s \in Time
  BY LinkedParts, TimersAssumption DEF ListInv
<1>2. /\ steps < MaxSteps /\ steps' = steps + 1 /\ clock' = (clock + s) % Modulus
      /\ UNCHANGED <<timers, allocated, controlVars, calls>>
  BY DEF Step
<1>3. clock' \in Time /\ steps' \in 0..MaxSteps
  BY <1>1, <1>2, Sums, TimersAssumption
<1> QED  BY <1>2, <1>3 DEF ListInv, TimersTypeOK, Linked, Pending, controlVars

LEMMA NextListInv == ListInv /\ [TimersNext]_timerVars => ListInv'
<1> SUFFICES ASSUME ListInv, [TimersNext]_timerVars PROVE ListInv'
  OBVIOUS
<1>1. CASE TimerCall
  BY <1>1, SetInv, CancelInv, TimerForceInv DEF TimerCall
<1>2. CASE ServerStep
  BY <1>2, ReturnInv, ReturnDelayInv, WaitInv, CheckAllTimersInv, RunInv DEF ServerStep
<1>3. CASE WakeUp \/ WakeBusy
  BY <1>3, WaitInv
<1>4. CASE Tick
  BY <1>4, TickInv
<1>5. CASE \E s \in Steps : Step(s)
  BY <1>5, StepInv
<1>6. CASE UNCHANGED timerVars
  BY <1>6 DEF timerVars, controlVars, ListInv, TimersTypeOK, Linked, Pending
<1> QED  BY <1>1, <1>2, <1>3, <1>4, <1>5, <1>6 DEF TimersNext

LEMMA InitListInv == TimersInit => ListInv
<1> SUFFICES ASSUME TimersInit PROVE ListInv
  OBVIOUS
<1>1. timers = <<>> /\ timers \in Seq(Entry) /\ Len(timers) = 0
  BY EmptySeq DEF TimersInit
<1> QED  BY <1>1, Halves, TimersAssumption DEF TimersInit, ListInv, TimersTypeOK, Linked, Pending

\* Whatever the rest of the server and the callbacks do, and whenever the
\* clock is set, the list has no record twice and none that was freed (os/WaitFor.c).
THEOREM ListStaysLinked == TimersSpec => [](TimersTypeOK /\ Linked)
<1>1. TimersInit => ListInv
  BY InitListInv
<1>2. ListInv /\ [TimersNext]_timerVars => ListInv'
  BY NextListInv
<1>3. ListInv => TimersTypeOK /\ Linked
  BY DEF ListInv
<1> QED  BY <1>1, <1>2, <1>3, PTL DEF TimersSpec

-----------------------------------------------------------------------------
(***************************************************************************)
(* Order and delays, when no delay is half the range: TimerSet calls       *)
(* nobody then.                                                            *)
(***************************************************************************)
ShortDelays == \A d \in Delays : d < Half

\* What any step but that of the clock does to the list.
ListStep ==
    \/ Shortened(timers', timers)
    \/ \E t \in Timer, d \in Delays :
         timers' = Link(Without(t), Fresh(t, d), Fresh(t, d).expires)

LEMMA SameList == ASSUME timers \in Seq(Entry), timers' = timers PROVE ListStep
<1>1. Len(timers) \in Nat
  BY LenProperties
<1>2. Shortened(timers, timers)
  BY <1>1 DEF Shortened
<1> QED  BY <1>2 DEF ListStep

LEMMA TimerSetListStep ==
    ASSUME timers \in Seq(Entry), clock \in Time, caller = "DoTimer",
           ShortDelays, NEW t \in Timer, NEW d \in Delays \union {0}, NEW next, TimerSet(t, d, next)
    PROVE  ListStep /\ caller' = "DoTimer" /\ Resume(next)
<1>0. d \in Time /\ d < Half
  BY TimersAssumption, Halves DEF ShortDelays
<1>1. \/ timers' = Without(t) /\ Resume(next)
      \/ /\ d \in Delays /\ timers' = Link(Without(t), Fresh(t, d), Fresh(t, d).expires)
         /\ Resume(next)
  BY <1>0, TimerSetCases, Halves DEF Time
<1>2. Shortened(Without(t), timers)
  BY Unlinked
<1>3. ListStep
  BY <1>1, <1>2 DEF ListStep
<1>4. caller' = "DoTimer" /\ Resume(next)
  BY <1>1 DEF Resume
<1> QED  BY <1>3, <1>4

LEMMA DoTimerListStep ==
    ASSUME timers \in Seq(Entry), NEW e, NEW next, DoTimer(e, next)
    PROVE  ListStep /\ caller' = "DoTimer" /\ back' = next /\ cur' = e
<1>1. timers' = Without(e.timer) /\ Call(e, "DoTimer", next)
  BY DEF DoTimer
<1>2. Shortened(Without(e.timer), timers)
  BY Unlinked
<1> QED  BY <1>1, <1>2 DEF ListStep, Call

LEMMA CallListStep ==
    ASSUME ShortDelays, ListInv, caller = "DoTimer", TimerCall
    PROVE  /\ ListStep /\ caller' = "DoTimer" /\ clock' = clock /\ steps' = steps
           /\ pc # "callback" /\ pc' = "callback" => back' = "dispatch"
<1>1. timers \in Seq(Entry) /\ clock \in Time
  BY LinkedParts DEF ListInv
<1>2. ASSUME NEW t \in Timer, Cancel(t) \/ Free(t)
      PROVE  ListStep /\ caller' = "DoTimer" /\ clock' = clock /\ steps' = steps /\ pc' = pc
  <2>1. timers' = Without(t) /\ UNCHANGED controlVars /\ Calling
    BY <1>2 DEF Cancel, Free
  <2>2. Shortened(Without(t), timers)
    BY <1>1, Unlinked
  <2> QED  BY <2>1, <2>2 DEF ListStep, Calling, controlVars
<1>3. ASSUME NEW t \in Timer, TimerForce(t)
      PROVE  ListStep /\ caller' = "DoTimer" /\ clock' = clock /\ steps' = steps /\ back' = "dispatch"
  <2>1. DoTimer(timers[First(Places(t))], "dispatch") /\ Calling
    BY <1>3 DEF TimerForce
  <2> QED  BY <1>1, <2>1, DoTimerListStep DEF Calling
<1>4. ASSUME NEW t \in Timer, NEW d \in Delays \union {0}, Set(t, d)
      PROVE  /\ ListStep /\ caller' = "DoTimer" /\ clock' = clock /\ steps' = steps
             /\ pc # "callback" => pc' = pc
  <2>1. TimerSet(t, d, pc) /\ Calling
    BY <1>4 DEF Set
  <2> QED  BY <1>1, <2>1, TimerSetListStep DEF Calling, Resume
<1> QED  BY <1>2, <1>3, <1>4 DEF TimerCall

LEMMA ServerListStep ==
    ASSUME ShortDelays, ListInv, caller = "DoTimer", ServerStep \/ WakeUp \/ WakeBusy
    PROVE  /\ ListStep /\ caller' = "DoTimer" /\ clock' = clock /\ steps' = steps
           /\ pc # "callback" /\ pc' = "callback" =>
                \/ back' = "rewind"
                \/ Run /\ timers # <<>> /\ NotAfter(Head(timers).expires, now) /\ cur' = Head(timers)
<1>1. timers \in Seq(Entry) /\ clock \in Time /\ Control
  BY LinkedParts DEF ListInv
<1>2. CASE Return
  <2>1. Resume(back) /\ timers' = timers /\ clock' = clock /\ steps' = steps /\ pc = "callback"
    BY <1>2 DEF Return
  <2> QED  BY <1>1, <2>1, SameList DEF Resume
<1>3. ASSUME NEW d \in Delays, ReturnDelay(d)
      PROVE  ListStep /\ caller' = "DoTimer" /\ clock' = clock /\ steps' = steps /\ pc = "callback"
  <2>1. /\ TimerSet(cur.timer, d, back) /\ clock' = clock /\ steps' = steps /\ pc = "callback"
    BY <1>3 DEF ReturnDelay
  <2>2. cur.timer \in Timer
    BY <1>1, <2>1 DEF Control, Entry
  <2> QED  BY <1>1, <2>1, <2>2, TimerSetListStep
<1>4. CASE Wait \/ WakeUp \/ WakeBusy
  <2>1. timers' = timers /\ caller' = caller /\ clock' = clock /\ steps' = steps /\ pc' # "callback"
    BY <1>4 DEF Wait, WakeUp, WakeBusy
  <2> QED  BY <1>1, <2>1, SameList
<1>5. CASE CheckAllTimers
  <2> DEFINE affected == {i \in 1..Len(timers) : Rewound(timers[i])}
  <2>1. clock' = clock /\ steps' = steps
    BY <1>5 DEF CheckAllTimers
  <2>2. CASE affected # {}
    <3>1. DoTimer(timers[First(affected)], "rewind")
      BY <1>5, <2>2 DEF CheckAllTimers
    <3> QED  BY <1>1, <2>1, <3>1, DoTimerListStep
  <2>3. CASE affected = {}
    <3>1. pc' = "select" /\ UNCHANGED <<timers, cur, caller, back>>
      BY <1>5, <2>3 DEF CheckAllTimers
    <3> QED  BY <1>1, <2>1, <3>1, SameList
  <2> QED  BY <2>2, <2>3
<1>6. CASE Run
  <2>1. clock' = clock /\ steps' = steps
    BY <1>6 DEF Run, Pass
  <2>2. CASE timers # <<>> /\ NotAfter(Head(timers).expires, now)
    <3>1. DoTimer(Head(timers), "run")
      BY <1>6, <2>2 DEF Run, Pass
    <3> QED  BY <1>1, <1>6, <2>1, <2>2, <3>1, DoTimerListStep
  <2>3. CASE ~(timers # <<>> /\ NotAfter(Head(timers).expires, now))
    <3>1. pc' = "dispatch" /\ UNCHANGED <<timers, cur, caller, back>>
      BY <1>6, <2>3 DEF Run, Pass
    <3> QED  BY <1>1, <2>1, <3>1, SameList
  <2> QED  BY <2>2, <2>3
<1> QED  BY <1>2, <1>3, <1>4, <1>5, <1>6 DEF ServerStep

LEMMA ClockStep ==
    ASSUME ListInv, Tick
    PROVE  /\ clock' = (clock + 1) % Modulus /\ caller' = caller /\ pc' = pc /\ steps' = steps
           /\ Len(timers') = Len(timers)
           /\ \A i \in 1..Len(timers) : timers'[i] = Older(timers[i]) /\ timers[i] \in Entry
<1>1. timers \in Seq(Entry) /\ Len(timers) \in Nat
  BY LinkedParts, LenProperties DEF ListInv
<1>2. /\ clock' = (clock + 1) % Modulus /\ caller' = caller /\ pc' = pc /\ steps' = steps
      /\ timers' = [i \in 1..Len(timers) |->
           [timers[i] EXCEPT !.owed = IF @ > 0 THEN @ - 1 ELSE 0]]
  BY DEF Tick
<1>3. \A i \in 1..Len(timers) : timers[i] \in Entry /\ Older(timers[i]) \in Entry
  BY <1>1, EntryAt, OlderEntry
<1> QED  BY <1>1, <1>2, <1>3, TickedList

OrderInv == ListInv /\ Sorted /\ caller = "DoTimer"

LEMMA NextOrderInv ==
    ASSUME ShortDelays, OrderInv, CloseTogether', [TimersNext]_timerVars
    PROVE  OrderInv'
<1>1. ListInv /\ InOrder(timers) /\ caller = "DoTimer" /\ timers \in Seq(Entry) /\ clock \in Time
  BY LinkedParts DEF OrderInv, ListInv, Sorted, InOrder
<1>2. Near(timers')
  BY DEF CloseTogether, Near
<1>3. ASSUME ListStep PROVE InOrder(timers')
  <2>1. CASE Shortened(timers', timers)
    BY <1>1, <2>1, ShortenedKeeps
  <2>2. ASSUME NEW t \in Timer, NEW d \in Delays,
               timers' = Link(Without(t), Fresh(t, d), Fresh(t, d).expires)
        PROVE  InOrder(timers')
    <3>1. Shortened(Without(t), timers)
      BY <1>1, Unlinked
    <3>2. InOrder(Without(t)) /\ Without(t) \in Seq(Entry)
      BY <1>1, <3>1, ShortenedKeeps DEF Shortened
    <3>3. Fresh(t, d) \in Entry
      BY <1>1, FreshEntry, TimersAssumption
    <3> QED  BY <1>2, <2>2, <3>2, <3>3, LinkedInOrder
  <2> QED  BY <1>3, <2>1, <2>2 DEF ListStep
<1>4. InOrder(timers') /\ caller' = "DoTimer"
  <2>1. CASE TimerCall
    BY <1>1, <1>3, <2>1, CallListStep
  <2>2. CASE ServerStep \/ WakeUp \/ WakeBusy
    BY <1>1, <1>3, <2>2, ServerListStep
  <2>3. CASE Tick
    <3>1. /\ Len(timers') = Len(timers) /\ caller' = caller
          /\ \A i \in 1..Len(timers) : timers'[i].expires = timers[i].expires
      BY <1>1, <2>3, ClockStep, OlderEntry
    <3> QED  BY <1>1, <3>1 DEF InOrder
  <2>4. CASE (\E s \in Steps : Step(s)) \/ UNCHANGED timerVars
    BY <1>1, <2>4 DEF Step, timerVars, controlVars
  <2> QED  BY <2>1, <2>2, <2>3, <2>4 DEF TimersNext
<1>5. ListInv'
  BY <1>1, NextListInv
<1> QED  BY <1>4, <1>5 DEF OrderInv, Sorted, InOrder

\* The list stays sorted, also across a wrap of the clock and when it is set,
\* whatever callbacks do, as long as the expiry times in it lie within half the
\* range (os/WaitFor.c:515).
THEOREM ListStaysSound ==
    ASSUME ShortDelays
    PROVE  TimersSpec /\ []CloseTogether => []ListSound
<1>1. TimersInit => OrderInv
  <2> SUFFICES ASSUME TimersInit PROVE OrderInv
    OBVIOUS
  <2>1. ListInv /\ caller = "DoTimer" /\ Len(timers) = 0
    BY InitListInv, EmptySeq DEF TimersInit
  <2> QED  BY <2>1 DEF OrderInv, Sorted
<1>2. OrderInv /\ CloseTogether' /\ [TimersNext]_timerVars => OrderInv'
  BY NextOrderInv
<1>3. OrderInv => ListSound
  BY DEF OrderInv, ListInv, ListSound
<1> QED  BY <1>1, <1>2, <1>3, PTL DEF TimersSpec

-----------------------------------------------------------------------------
\* Until the clock is set, what is left of a delay is the time to its end.
OwedIs(l, c) == \A i \in 1..Len(l) : l[i].owed = 0 \/ l[i].owed = Minus(l[i].expires, c)

DelayInv == ListInv /\ caller = "DoTimer" /\ (steps = 0 => OwedIs(timers, clock))

LEMMA OwedListStep ==
    ASSUME ListInv, ListStep, OwedIs(timers, clock)
    PROVE  OwedIs(timers', clock)
<1>1. timers \in Seq(Entry) /\ clock \in Time
  BY LinkedParts DEF ListInv
<1>2. ASSUME NEW m, Shortened(m, timers) PROVE OwedIs(m, clock)
  BY <1>1, <1>2, ShortenedKeeps DEF OwedIs
<1>3. ASSUME NEW t \in Timer, NEW d \in Delays,
             timers' = Link(Without(t), Fresh(t, d), Fresh(t, d).expires)
      PROVE  OwedIs(timers', clock)
  <2> DEFINE l == Without(t)
             e == Fresh(t, d)
  <2>1. Shortened(l, timers)
    BY <1>1, Unlinked
  <2>2. OwedIs(l, clock) /\ l \in Seq(Entry)
    BY <1>2, <2>1 DEF Shortened
  <2>3. e \in Entry /\ e.owed = Minus(e.expires, clock)
    BY <1>1, FreshEntry, TimersAssumption
  <2>4. timers' = Link(l, e, e.expires)
    BY <1>3
  <2> HIDE DEF l, e
  <2>5. \A j \in 1..Len(timers') : timers'[j] = e \/ \E i \in 1..Len(l) : timers'[j] = l[i]
    BY <2>2, <2>3, <2>4, LinkedIn
  <2> QED  BY <2>2, <2>3, <2>5 DEF OwedIs
<1> QED  BY <1>2, <1>3 DEF ListStep

LEMMA OwedTick ==
    ASSUME NEW e \in Entry, clock \in Time, e.owed = 0 \/ e.owed = Minus(e.expires, clock)
    PROVE  Older(e).owed = 0 \/ Older(e).owed = Minus(Older(e).expires, (clock + 1) % Modulus)
<1>1. e.owed \in Time /\ e.expires \in Time
  BY DEF Entry
<1>2. Older(e).expires = e.expires /\ Older(e).owed = IF e.owed > 0 THEN e.owed - 1 ELSE 0
  BY OlderEntry
<1>3. CASE e.owed = 0
  BY <1>2, <1>3
<1>4. CASE e.owed > 0
  <2>1. Modulus > 1 /\ 1 \in Time
    BY Halves DEF Time
  <2> DEFINE x == e.expires
             c == (clock + 1) % Modulus
  <2>2. c \in Time /\ c = IF clock + 1 < Modulus THEN clock + 1 ELSE clock + 1 - Modulus
    BY <2>1, Sums
  <2>3. /\ Minus(x, clock) = IF x >= clock THEN x - clock ELSE x - clock + Modulus
        /\ Minus(x, c) = IF x >= c THEN x - c ELSE x - c + Modulus
    BY <1>1, <2>2, Differences
  <2>4. e.owed = Minus(x, clock)
    BY <1>4
  <2>5. Minus(x, c) = e.owed - 1
    <3>1. x \in Time /\ e.owed \in Time
      BY <1>1
    <3> HIDE DEF x, c
    <3> QED  BY <1>4, <2>2, <2>3, <2>4, <3>1, Halves DEF Time
  <2> QED  BY <1>2, <1>4, <2>5
<1> QED  BY <1>1, <1>3, <1>4 DEF Time

LEMMA NextDelayInv ==
    ASSUME ShortDelays, DelayInv, [TimersNext]_timerVars
    PROVE  DelayInv'
<1>1. ListInv /\ caller = "DoTimer" /\ clock \in Time /\ steps \in Nat
  BY LinkedParts, TimersAssumption DEF DelayInv, ListInv
<1>2. CASE TimerCall
  BY <1>1, <1>2, CallListStep, OwedListStep, NextListInv DEF DelayInv
<1>3. CASE ServerStep \/ WakeUp \/ WakeBusy
  BY <1>1, <1>3, ServerListStep, OwedListStep, NextListInv DEF DelayInv
<1>4. CASE Tick
  <2>1. /\ clock' = (clock + 1) % Modulus /\ caller' = caller /\ steps' = steps
        /\ Len(timers') = Len(timers)
        /\ \A i \in 1..Len(timers) : timers'[i] = Older(timers[i]) /\ timers[i] \in Entry
    BY <1>1, <1>4, ClockStep
  <2>2. ASSUME OwedIs(timers, clock) PROVE OwedIs(timers', clock')
    <3> SUFFICES ASSUME NEW i \in 1..Len(timers)
                 PROVE  timers'[i].owed = 0 \/ timers'[i].owed = Minus(timers'[i].expires, clock')
      BY <2>1 DEF OwedIs
    <3>1. timers[i] \in Entry /\ (timers[i].owed = 0 \/ timers[i].owed = Minus(timers[i].expires, clock))
      BY <2>1, <2>2 DEF OwedIs
    <3> QED  BY <1>1, <2>1, <3>1, OwedTick
  <2> QED  BY <1>1, <2>1, <2>2, NextListInv DEF DelayInv
<1>5. CASE \E s \in Steps : Step(s)
  <2>1. caller' = caller /\ steps' = steps + 1
    BY <1>5 DEF Step, controlVars
  <2> QED  BY <1>1, <2>1, NextListInv DEF DelayInv
<1>6. CASE UNCHANGED timerVars
  BY <1>1, <1>6, NextListInv DEF DelayInv, timerVars, controlVars
<1> QED  BY <1>2, <1>3, <1>4, <1>5, <1>6 DEF TimersNext

-----------------------------------------------------------------------------
(***************************************************************************)
(* A pass calls each timer once at most, since one that is set meanwhile   *)
(* expires later: Spent is the time for which those that were due when it  *)
(* began, and are not among P any more, may have kept it.                  *)
(***************************************************************************)
ShortCallbacks ==
    /\ IsFiniteSet(Timer)
    /\ \A d \in Delays \union {0} : Cardinality(Timer) * Lag + d < Half

Due(l, time) == {t \in Timer : \E i \in 1..Len(l) : l[i].timer = t /\ NotAfter(l[i].expires, time)}
Spent(P) == (Cardinality(Timer) - Cardinality(P)) * Lag
InPass == pc = "run" \/ (pc = "callback" /\ back = "run")

PassInv ==
    /\ pc = "run" => left = 0
    /\ pc = "callback" => left \in Nat
    /\ steps = 0 /\ InPass => Minus(clock, now) + left <= Spent(Due(timers, now))
    /\ \A i \in 1..Len(timers) : Cardinality(Timer) * Lag + timers[i].owed < Half

LEMMA Products ==
    ASSUME NEW m \in Nat, NEW k \in Nat, k <= m, NEW x \in Nat
    PROVE  /\ (m - k) * x \in Nat /\ (m - k) * x <= m * x
           /\ k < m => (m - k) * x >= x
           /\ \A j \in Nat : j <= k => (m - k) * x <= (m - j) * x
           /\ \A j \in Nat : j < k => (m - k) * x + x <= (m - j) * x
<1>1. \A a, b \in Nat : a <= b => a * x \in Nat /\ a * x <= b * x
  OBVIOUS
<1>2. \A a, b \in Nat : a < b => a * x + x <= b * x
  <2>1. \A a \in Nat : (a + 1) * x = a * x + x
    OBVIOUS
  <2> QED  BY <1>1, <2>1
<1>3. m - k \in Nat /\ m - k <= m /\ 0 * x = 0
  OBVIOUS
<1>4. \A j \in Nat : j <= k => m - j \in Nat /\ m - k <= m - j
  OBVIOUS
<1>5. \A j \in Nat : j < k => m - j \in Nat /\ m - k < m - j
  OBVIOUS
<1> QED  BY <1>1, <1>2, <1>3, <1>4, <1>5

LEMMA Budget ==
    ASSUME IsFiniteSet(Timer), NEW P \in SUBSET Timer
    PROVE  /\ Spent(P) \in Nat /\ Spent(P) <= Cardinality(Timer) * Lag
           /\ Cardinality(Timer) * Lag \in Nat
           /\ \A R \in SUBSET P : Spent(P) <= Spent(R)
           /\ \A t \in P : \A R \in SUBSET P : t \notin R => Spent(P) + Lag <= Spent(R)
<1> DEFINE n == Cardinality(Timer)
           k == Cardinality(P)
<1>1. n \in Nat /\ k \in Nat /\ k <= n /\ IsFiniteSet(P) /\ Lag \in Nat
  BY FS_CardinalityType, FS_Subset, TimersAssumption
<1>2. \A R \in SUBSET P : Cardinality(R) \in Nat /\ Cardinality(R) <= k
  BY <1>1, FS_CardinalityType, FS_Subset
<1>3. ASSUME NEW t \in P, NEW R \in SUBSET P, t \notin R
      PROVE  Cardinality(R) < k
  <2>1. IsFiniteSet(P \ {t}) /\ Cardinality(P \ {t}) = k - 1 /\ R \in SUBSET (P \ {t})
    BY <1>1, <1>3, FS_RemoveElement
  <2>2. Cardinality(R) <= k - 1
    BY <2>1, FS_Subset
  <2> QED  BY <1>1, <1>2, <2>2
<1> HIDE DEF n, k
<1>4. /\ (n - k) * Lag \in Nat /\ (n - k) * Lag <= n * Lag
      /\ \A j \in Nat : j <= k => (n - k) * Lag <= (n - j) * Lag
      /\ \A j \in Nat : j < k => (n - k) * Lag + Lag <= (n - j) * Lag
  BY <1>1, Products
<1>5. n * Lag \in Nat
  BY <1>1
<1>6. Spent(P) = (n - k) * Lag /\ \A R : Spent(R) = (n - Cardinality(R)) * Lag
  BY DEF Spent, n, k
<1>7. \A R \in SUBSET P : Spent(P) <= Spent(R)
  BY <1>2, <1>4, <1>6
<1>8. \A t \in P : \A R \in SUBSET P : t \notin R => Spent(P) + Lag <= Spent(R)
  BY <1>2, <1>3, <1>4, <1>6
<1> QED  BY <1>4, <1>5, <1>6, <1>7, <1>8 DEF n

LEMMA ShortOnes ==
    ASSUME ShortCallbacks
    PROVE  /\ ShortDelays /\ IsFiniteSet(Timer) /\ Cardinality(Timer) * Lag \in Nat
           /\ \A d \in Delays \union {0} : Cardinality(Timer) * Lag + d < Half
<1>1. Cardinality(Timer) * Lag \in Nat
  BY Budget DEF ShortCallbacks
<1>2. ASSUME NEW d \in Delays PROVE d < Half
  <2>1. Cardinality(Timer) * Lag + d < Half /\ d \in Nat
    BY TimersAssumption, Halves DEF ShortCallbacks, Time
  <2> QED  BY <1>1, <2>1, Halves
<1> QED  BY <1>1, <1>2 DEF ShortCallbacks, ShortDelays

\* A timer set during a pass is not due in it.
LEMMA SetLater ==
    ASSUME clock \in Time, NEW time \in Time, NEW t \in Timer, NEW d \in Time, d # 0,
           Minus(clock, time) + d < Half
    PROVE  ~NotAfter(Fresh(t, d).expires, time)
<1> DEFINE x == Fresh(t, d).expires
<1>1. x = (clock + d) % Modulus
  BY FreshEntry
<1>2. x \in Time /\ x = IF clock + d < Modulus THEN clock + d ELSE clock + d - Modulus
  BY <1>1, Sums
<1> HIDE DEF x
<1>3. /\ Minus(x, time) = IF x >= time THEN x - time ELSE x - time + Modulus
      /\ Minus(clock, time) = IF clock >= time THEN clock - time ELSE clock - time + Modulus
      /\ Minus(x, time) \in Time /\ Minus(clock, time) \in Time
  BY <1>2, Differences
<1>4. Minus(x, time) = Minus(clock, time) + d
  BY <1>2, <1>3, Halves DEF Time
<1>5. Minus(x, time) > 0 /\ Minus(x, time) < Half /\ Minus(x, time) \in Int
  BY <1>3, <1>4, Halves DEF Time
<1>6. ~NotAfter(x, time)
  BY <1>5, Halves DEF NotAfter
<1> QED  BY <1>6 DEF x

LEMMA DueShortened ==
    ASSUME NEW l \in Seq(Entry), NEW m, Shortened(m, l), NEW time
    PROVE  Due(m, time) \subseteq Due(l, time)
<1>1. \A j \in 1..Len(m) : \E i \in 1..Len(l) : m[j] = l[i]
  BY ShortenedKeeps
<1> QED  BY <1>1 DEF Due

\* No step adds to the timers that the pass will call.
LEMMA DueListStep ==
    ASSUME ShortCallbacks, ListInv, ListStep, Minus(clock, now) <= Cardinality(Timer) * Lag
    PROVE  Due(timers', now) \subseteq Due(timers, now)
<1>1. timers \in Seq(Entry) /\ clock \in Time /\ now \in Time
  BY LinkedParts DEF ListInv
<1>2. CASE Shortened(timers', timers)
  BY <1>1, <1>2, DueShortened
<1>3. ASSUME NEW t \in Timer, NEW d \in Delays,
             timers' = Link(Without(t), Fresh(t, d), Fresh(t, d).expires)
      PROVE  Due(timers', now) \subseteq Due(timers, now)
  <2> DEFINE l == Without(t)
             e == Fresh(t, d)
  <2>1. Shortened(l, timers)
    BY <1>1, Unlinked
  <2>2. Due(l, now) \subseteq Due(timers, now) /\ l \in Seq(Entry)
    BY <1>1, <2>1, DueShortened DEF Shortened
  <2>3. d \in Time /\ d # 0 /\ d \in Delays \union {0}
    BY TimersAssumption
  <2>4. Minus(clock, now) + d < Half
    <3>1. Cardinality(Timer) * Lag + d < Half /\ Cardinality(Timer) * Lag \in Nat
      BY <2>3, ShortOnes
    <3>2. Minus(clock, now) \in Time
      BY <1>1, Differences
    <3> QED  BY <2>3, <3>1, <3>2, Halves DEF Time
  <2>5. e \in Entry /\ ~NotAfter(e.expires, now)
    BY <1>1, <2>3, <2>4, FreshEntry, SetLater
  <2>6. timers' = Link(l, e, e.expires)
    BY <1>3
  <2> HIDE DEF l, e
  <2>7. \A j \in 1..Len(timers') : timers'[j] = e \/ \E i \in 1..Len(l) : timers'[j] = l[i]
    BY <2>2, <2>5, <2>6, LinkedIn
  <2>8. Due(timers', now) \subseteq Due(l, now)
    BY <2>5, <2>7 DEF Due
  <2> QED  BY <2>2, <2>8
<1> QED  BY <1>2, <1>3 DEF ListStep

LEMMA OwedBounded ==
    ASSUME ShortCallbacks, ListInv, ListStep,
           \A i \in 1..Len(timers) : Cardinality(Timer) * Lag + timers[i].owed < Half
    PROVE  \A i \in 1..Len(timers') : Cardinality(Timer) * Lag + timers'[i].owed < Half
<1>1. timers \in Seq(Entry) /\ clock \in Time
  BY LinkedParts DEF ListInv
<1>2. ASSUME NEW m, Shortened(m, timers)
      PROVE  \A i \in 1..Len(m) : Cardinality(Timer) * Lag + m[i].owed < Half
  <2>1. \A j \in 1..Len(m) : \E i \in 1..Len(timers) : m[j] = timers[i]
    BY <1>1, <1>2, ShortenedKeeps
  <2> QED  BY <2>1
<1>3. ASSUME NEW t \in Timer, NEW d \in Delays,
             timers' = Link(Without(t), Fresh(t, d), Fresh(t, d).expires)
      PROVE  \A i \in 1..Len(timers') : Cardinality(Timer) * Lag + timers'[i].owed < Half
  <2> DEFINE l == Without(t)
             e == Fresh(t, d)
  <2>1. Shortened(l, timers)
    BY <1>1, Unlinked
  <2>2. l \in Seq(Entry) /\ \A i \in 1..Len(l) : Cardinality(Timer) * Lag + l[i].owed < Half
    BY <1>2, <2>1 DEF Shortened
  <2>3. e \in Entry /\ Cardinality(Timer) * Lag + e.owed < Half
    BY <1>1, FreshEntry, TimersAssumption, ShortOnes
  <2>4. timers' = Link(l, e, e.expires)
    BY <1>3
  <2> HIDE DEF l, e
  <2>5. \A j \in 1..Len(timers') : timers'[j] = e \/ \E i \in 1..Len(l) : timers'[j] = l[i]
    BY <2>2, <2>3, <2>4, LinkedIn
  <2> QED  BY <2>2, <2>3, <2>5
<1> QED  BY <1>2, <1>3 DEF ListStep

\* What a step other than those of the clock does to the pass: it is not in one
\* then, or does not concern it, or a callback returns, or the pass begins, or it
\* calls the first timer.
Course ==
    \/ pc' \notin {"run", "callback"}
    \/ pc' = "callback" /\ back' # "run" /\ left' \in Nat
    \/ UNCHANGED <<pc, back, left, now>>
    \/ pc = "callback" /\ pc' = back /\ left' = 0 /\ now' = now
    \/ pc' = "run" /\ left' = 0 /\ now' = clock
    \/ /\ pc = "run" /\ pc' = "callback" /\ back' = "run" /\ left' = Lag /\ now' = now
       /\ timers # <<>> /\ NotAfter(Head(timers).expires, now)
       /\ timers' = Without(Head(timers).timer)

LEMMA TimerSetResumes ==
    ASSUME ListInv, ShortDelays, NEW t \in Timer, NEW d \in Delays \union {0}, NEW next,
           caller = "DoTimer", TimerSet(t, d, next)
    PROVE  Resume(next)
  BY LinkedParts, TimerSetListStep DEF ListInv

LEMMA CallCourse ==
    ASSUME ShortDelays, ListInv, caller = "DoTimer", TimerCall
    PROVE  Course
<1>1. ASSUME NEW t \in Timer, Cancel(t) \/ Free(t) PROVE Course
  BY <1>1 DEF Cancel, Free, controlVars, Course
<1>2. ASSUME NEW t \in Timer, TimerForce(t) PROVE Course
  <2>1. pc' = "callback" /\ back' = "dispatch" /\ left' = Lag
    BY <1>2 DEF TimerForce, DoTimer, Call
  <2> QED  BY <2>1, TimersAssumption DEF Course
<1>3. ASSUME NEW t \in Timer, NEW d \in Delays \union {0}, Set(t, d) PROVE Course
  <2>1. TimerSet(t, d, pc) /\ now' = now /\ pc \in {"dispatch", "callback"}
    BY <1>3 DEF Set, Calling
  <2>2. Resume(pc)
    BY <2>1, TimerSetResumes
  <2> QED  BY <2>1, <2>2 DEF Resume, Course
<1> QED  BY <1>1, <1>2, <1>3 DEF TimerCall

LEMMA ServerCourse ==
    ASSUME ShortDelays, ListInv, caller = "DoTimer", ServerStep \/ WakeUp \/ WakeBusy
    PROVE  Course
<1>1. back # "callback" /\ (pc = "callback" => cur.timer \in Timer)
  BY LinkedParts DEF ListInv, Control, Entry
<1>2. CASE Return
  BY <1>1, <1>2 DEF Return, Resume, Course
<1>3. ASSUME NEW d \in Delays, ReturnDelay(d) PROVE Course
  <2>1. pc = "callback" /\ TimerSet(cur.timer, d, back) /\ now' = now
    BY <1>3 DEF ReturnDelay
  <2>2. Resume(back)
    BY <1>1, <2>1, TimerSetResumes
  <2> QED  BY <1>1, <2>1, <2>2 DEF Resume, Course
<1>4. CASE Wait
  BY <1>4 DEF Wait, Course
<1>5. CASE WakeUp \/ WakeBusy
  BY <1>5 DEF WakeUp, WakeBusy, Course
<1>6. CASE CheckAllTimers
  <2>1. \/ pc' = "select"
        \/ pc' = "callback" /\ back' = "rewind" /\ left' = Lag
    BY <1>6 DEF CheckAllTimers, DoTimer, Call
  <2> QED  BY <2>1, TimersAssumption DEF Course
<1>7. CASE Run
  <2>1. CASE timers # <<>> /\ NotAfter(Head(timers).expires, now)
    <3>1. DoTimer(Head(timers), "run") /\ now' = now /\ pc = "run"
      BY <1>7, <2>1 DEF Run, Pass
    <3> QED  BY <2>1, <3>1 DEF DoTimer, Call, Course
  <2>2. CASE ~(timers # <<>> /\ NotAfter(Head(timers).expires, now))
    <3>1. pc' = "dispatch"
      BY <1>7, <2>2 DEF Run, Pass
    <3> QED  BY <3>1 DEF Course
  <2> QED  BY <2>1, <2>2
<1> QED  BY <1>2, <1>3, <1>4, <1>5, <1>6, <1>7 DEF ServerStep

\* A pass and a delay are shorter than half the range.
LEMMA PassBounded ==
    ASSUME ShortCallbacks, ListInv, PassInv, steps = 0, InPass
    PROVE  /\ left \in Nat
           /\ Minus(clock, now) \in Nat
           /\ Minus(clock, now) + left <= Spent(Due(timers, now))
           /\ Minus(clock, now) <= Cardinality(Timer) * Lag
           /\ Spent(Due(timers, now)) \in Nat
           /\ Spent(Due(timers, now)) <= Cardinality(Timer) * Lag
<1>1. clock \in Time /\ now \in Time
  BY LinkedParts DEF ListInv
<1>2. Minus(clock, now) \in Nat
  BY <1>1, Differences, Halves DEF Time
<1>3. left \in Nat /\ Minus(clock, now) + left <= Spent(Due(timers, now))
  BY DEF PassInv, InPass
<1>4. /\ Spent(Due(timers, now)) \in Nat /\ Cardinality(Timer) * Lag \in Nat
      /\ Spent(Due(timers, now)) <= Cardinality(Timer) * Lag
  <2>1. Due(timers, now) \in SUBSET Timer /\ IsFiniteSet(Timer)
    BY DEF Due, ShortCallbacks
  <2> QED  BY <2>1, Budget
<1> QED  BY <1>2, <1>3, <1>4

LEMMA CoursePass ==
    ASSUME ShortCallbacks, ListInv, PassInv, ListStep, Course, clock' = clock, steps' = steps
    PROVE  PassInv'
<1>1. timers \in Seq(Entry) /\ clock \in Time /\ now \in Time /\ IsFiniteSet(Timer) /\ Lag \in Nat
  BY LinkedParts, TimersAssumption DEF ListInv, ShortCallbacks
<1>2. \A i \in 1..Len(timers') : Cardinality(Timer) * Lag + timers'[i].owed < Half
  BY OwedBounded DEF PassInv
<1>3. (pc' = "run" => left' = 0) /\ (pc' = "callback" => left' \in Nat)
  BY <1>1 DEF Course, PassInv
<1>4. ASSUME steps = 0, InPass'
      PROVE  Minus(clock, now') + left' <= Spent(Due(timers', now'))
  <2>1. CASE pc' = "run" /\ left' = 0 /\ now' = clock
    <3>1. Minus(clock, clock) = 0
      <4>1. Minus(clock, clock) = IF clock >= clock THEN clock - clock ELSE clock - clock + Modulus
        BY <1>1, Differences
      <4> QED  BY <1>1, <4>1, Halves DEF Time
    <3>2. Due(timers', now') \in SUBSET Timer
      BY DEF Due
    <3>3. Spent(Due(timers', now')) \in Nat
      BY <1>1, <3>2, Budget
    <3> QED  BY <2>1, <3>1, <3>3
  <2>2. CASE InPass /\ now' = now /\ left' \in Nat /\ left' <= left
    <3>1. /\ Minus(clock, now) + left <= Spent(Due(timers, now)) /\ left \in Nat
          /\ Minus(clock, now) \in Nat /\ Minus(clock, now) <= Cardinality(Timer) * Lag
          /\ Spent(Due(timers, now)) \in Nat
      BY <1>4, <2>2, PassBounded
    <3>2. Due(timers', now) \in SUBSET Due(timers, now) /\ Due(timers, now) \in SUBSET Timer
          /\ Due(timers', now) \in SUBSET Timer
      BY <3>1, DueListStep DEF Due
    <3>3. Spent(Due(timers, now)) <= Spent(Due(timers', now)) /\ Spent(Due(timers', now)) \in Nat
      BY <1>1, <3>2, Budget
    <3> QED  BY <2>2, <3>1, <3>3
  <2>3. CASE /\ pc = "run" /\ left' = Lag /\ now' = now
             /\ timers # <<>> /\ NotAfter(Head(timers).expires, now)
             /\ timers' = Without(Head(timers).timer)
    <3>1. /\ Minus(clock, now) + left <= Spent(Due(timers, now)) /\ left = 0
          /\ Minus(clock, now) \in Nat /\ Minus(clock, now) <= Cardinality(Timer) * Lag
          /\ Spent(Due(timers, now)) \in Nat
      BY <1>4, <2>3, PassBounded DEF InPass, PassInv
    <3> DEFINE t == Head(timers).timer
    <3>2. 1 \in 1..Len(timers) /\ Head(timers) = timers[1] /\ t \in Timer
      BY <1>1, <2>3, HeadTailProperties, LenProperties, EmptySeq, EntryAt
    <3>3. t \in Due(timers, now)
      BY <2>3, <3>2 DEF Due
    <3>4. Lacks(timers', t)
      BY <1>1, <2>3, Unlinked, LinkedParts DEF ListInv, LinkedIs
    <3> HIDE DEF t
    <3>5. t \notin Due(timers', now)
      BY <3>4 DEF Due, Lacks
    <3>6. Due(timers', now) \in SUBSET Due(timers, now) /\ Due(timers, now) \in SUBSET Timer
          /\ Due(timers', now) \in SUBSET Timer
      BY <3>1, DueListStep DEF Due
    <3>7. Spent(Due(timers, now)) + Lag <= Spent(Due(timers', now)) /\ Spent(Due(timers', now)) \in Nat
      BY <1>1, <3>3, <3>5, <3>6, Budget
    <3> QED  BY <1>1, <2>3, <3>1, <3>7
  <2>4. \/ pc' = "run" /\ left' = 0 /\ now' = clock
        \/ InPass /\ now' = now /\ left' \in Nat /\ left' <= left
        \/ /\ pc = "run" /\ left' = Lag /\ now' = now
           /\ timers # <<>> /\ NotAfter(Head(timers).expires, now)
           /\ timers' = Without(Head(timers).timer)
    <3>1. back # "callback"
      BY LinkedParts DEF ListInv, Control
    <3>2. InPass => left \in Nat
      BY DEF InPass, PassInv
    <3>3. CASE UNCHANGED <<pc, back, left, now>>
      BY <1>4, <3>2, <3>3 DEF InPass
    <3>4. CASE pc = "callback" /\ pc' = back /\ left' = 0 /\ now' = now
      BY <1>4, <3>1, <3>2, <3>4 DEF InPass
    <3>5. pc' \in {"run", "callback"} /\ ~(pc' = "callback" /\ back' # "run" /\ left' \in Nat)
      BY <1>4 DEF InPass
    <3> QED  BY <3>3, <3>4, <3>5 DEF Course
  <2> QED  BY <2>1, <2>2, <2>3, <2>4
<1> QED  BY <1>2, <1>3, <1>4 DEF PassInv

LEMMA TickPass ==
    ASSUME ShortCallbacks, ListInv, PassInv, Tick
    PROVE  PassInv'
<1>1. /\ timers \in Seq(Entry) /\ clock \in Time /\ now \in Time /\ Len(timers) \in Nat
      /\ Cardinality(Timer) * Lag \in Nat
  BY LinkedParts, LenProperties, ShortOnes DEF ListInv
<1>2. /\ clock' = (clock + 1) % Modulus /\ pc' = pc /\ steps' = steps
      /\ Len(timers') = Len(timers)
      /\ \A i \in 1..Len(timers) : timers'[i] = Older(timers[i]) /\ timers[i] \in Entry
  BY ClockStep
<1>3. /\ now' = now /\ back' = back /\ left' = (IF left > 0 THEN left - 1 ELSE left)
      /\ pc # "dispatch" => left # 0
  BY DEF Tick, OnTime
<1>4. ASSUME NEW i \in 1..Len(timers')
      PROVE  Cardinality(Timer) * Lag + timers'[i].owed < Half
  <2>1. /\ Cardinality(Timer) * Lag + timers[i].owed < Half /\ timers[i].owed \in Time
        /\ timers'[i].owed = IF timers[i].owed > 0 THEN timers[i].owed - 1 ELSE 0
    BY <1>1, <1>2, <1>4, EntryAt, OlderEntry DEF PassInv
  <2> QED  BY <1>1, <2>1, Halves DEF Time
<1>5. (pc' = "run" => left' = 0) /\ (pc' = "callback" => left' \in Nat)
  BY <1>2, <1>3 DEF PassInv
<1>6. ASSUME steps = 0, InPass
      PROVE  Minus(clock', now) + left' <= Spent(Due(timers', now))
  <2>1. /\ left \in Nat /\ left # 0 /\ left' = left - 1
    BY <1>3, <1>6, PassBounded DEF InPass
  <2>2. /\ Minus(clock, now) + left <= Spent(Due(timers, now)) /\ Minus(clock, now) \in Nat
        /\ Spent(Due(timers, now)) \in Nat /\ Spent(Due(timers, now)) <= Cardinality(Timer) * Lag
    BY <1>6, PassBounded
  <2>3. Cardinality(Timer) * Lag < Half
    <3>1. 0 \in Delays \union {0} /\ Cardinality(Timer) * Lag + 0 = Cardinality(Timer) * Lag
      BY <1>1
    <3>2. Cardinality(Timer) * Lag + 0 < Half
      BY <3>1, ShortOnes
    <3> QED  BY <3>1, <3>2
  <2>4. Minus(clock', now) = Minus(clock, now) + 1
    <3>1. Modulus > 1 /\ 1 \in Time
      BY Halves DEF Time
    <3> DEFINE c == (clock + 1) % Modulus
    <3>2. c \in Time /\ c = IF clock + 1 < Modulus THEN clock + 1 ELSE clock + 1 - Modulus
      BY <1>1, <3>1, Sums
    <3> HIDE DEF c
    <3>3. /\ Minus(clock, now) = IF clock >= now THEN clock - now ELSE clock - now + Modulus
          /\ Minus(c, now) = IF c >= now THEN c - now ELSE c - now + Modulus
      BY <1>1, <3>2, Differences
    <3>4. Minus(clock, now) < Half
      BY <1>1, <2>1, <2>2, <2>3, Halves
    <3>5. Minus(c, now) = Minus(clock, now) + 1
      BY <1>1, <3>1, <3>2, <3>3, <3>4, Halves DEF Time
    <3> QED  BY <1>2, <3>5 DEF c
  <2>5. Due(timers', now) = Due(timers, now)
    <3>1. \A i \in 1..Len(timers) : /\ timers'[i].timer = timers[i].timer
                                    /\ timers'[i].expires = timers[i].expires
      BY <1>2, OlderEntry
    <3> QED  BY <1>2, <3>1 DEF Due
  <2> QED  BY <2>1, <2>2, <2>4, <2>5
<1>7. InPass' => InPass
  BY <1>2, <1>3 DEF InPass
<1> QED  BY <1>2, <1>3, <1>4, <1>5, <1>6, <1>7 DEF PassInv

LEMMA NextPassInv ==
    ASSUME ShortCallbacks, DelayInv, PassInv, [TimersNext]_timerVars
    PROVE  PassInv'
<1>1. ListInv /\ caller = "DoTimer" /\ ShortDelays
  BY ShortOnes DEF DelayInv
<1>2. CASE TimerCall
  BY <1>1, <1>2, CallListStep, CallCourse, CoursePass
<1>3. CASE ServerStep \/ WakeUp \/ WakeBusy
  BY <1>1, <1>3, ServerListStep, ServerCourse, CoursePass
<1>4. CASE Tick
  BY <1>1, <1>4, TickPass
<1>5. CASE \E s \in Steps : Step(s)
  <2>1. steps' = steps + 1 /\ UNCHANGED <<timers, pc, left>> /\ steps \in Nat
    BY <1>1, <1>5, LinkedParts, TimersAssumption DEF Step, controlVars, ListInv
  <2> QED  BY <2>1 DEF PassInv
<1>6. CASE UNCHANGED timerVars
  BY <1>6 DEF timerVars, controlVars, PassInv, InPass
<1> QED  BY <1>2, <1>3, <1>4, <1>5, <1>6 DEF TimersNext

LEMMA RunsInTime ==
    ASSUME ShortCallbacks, DelayInv, PassInv, [TimersNext]_timerVars, steps = 0,
           pc # "callback", pc' = "callback", back' = "run" \/ caller' = "TimerSet"
    PROVE  cur'.owed = 0
<1>1. /\ ListInv /\ caller = "DoTimer" /\ clock \in Time /\ now \in Time /\ timers \in Seq(Entry)
      /\ ShortDelays
  BY LinkedParts, ShortOnes DEF DelayInv, ListInv
<1>2. Run /\ timers # <<>> /\ NotAfter(Head(timers).expires, now) /\ cur' = Head(timers)
  <2>1. ~TimerCall
    BY <1>1, CallListStep
  <2>2. ~Tick /\ ~(\E s \in Steps : Step(s)) /\ ~(UNCHANGED timerVars)
    BY DEF Tick, Step, timerVars, controlVars
  <2>3. ServerStep \/ WakeUp \/ WakeBusy
    BY <2>1, <2>2 DEF TimersNext
  <2> QED  BY <1>1, <2>3, ServerListStep
<1>3. 1 \in 1..Len(timers) /\ Head(timers) = timers[1]
  BY <1>1, <1>2, HeadTailProperties, LenProperties, EmptySeq
<1> DEFINE x == timers[1].expires
           o == timers[1].owed
<1>4. x \in Time /\ o \in Time
  BY <1>1, <1>3, EntryAt
<1>5. o = 0 \/ o = Minus(x, clock)
  BY <1>3 DEF DelayInv, OwedIs
<1>6. o + Minus(clock, now) < Half
  <2>1. pc = "run"
    BY <1>2 DEF Run, Pass
  <2>2. /\ Minus(clock, now) \in Nat /\ Minus(clock, now) <= Cardinality(Timer) * Lag
    BY <1>1, <2>1, PassBounded DEF InPass
  <2>3. Cardinality(Timer) * Lag + o < Half /\ Cardinality(Timer) * Lag \in Nat
    BY <1>3, ShortOnes DEF PassInv
  <2>4. o \in Nat
    BY <1>4, Halves DEF Time
  <2> HIDE DEF o
  <2> QED  BY <2>2, <2>3, <2>4, Halves
<1>7. NotAfter(x, now)
  BY <1>2, <1>3
<1> HIDE DEF x, o
<1>8. ASSUME o # 0 PROVE FALSE
  <2>1. /\ Minus(x, clock) = IF x >= clock THEN x - clock ELSE x - clock + Modulus
        /\ Minus(clock, now) = IF clock >= now THEN clock - now ELSE clock - now + Modulus
        /\ Minus(x, now) = IF x >= now THEN x - now ELSE x - now + Modulus
    BY <1>1, <1>4, Differences
  <2>2. Minus(x, now) = o + Minus(clock, now)
    BY <1>1, <1>4, <1>5, <1>6, <1>8, <2>1, Halves DEF Time
  <2>3. Minus(x, now) > 0 /\ Minus(x, now) < Half
    BY <1>1, <1>4, <1>6, <1>8, <2>1, <2>2, Halves DEF Time
  <2>4. Minus(x, now) = 0 \/ Minus(x, now) >= Half
    BY <1>7 DEF NotAfter
  <2>5. Minus(x, now) \in Int /\ Half \in Int
    BY <1>1, <1>4, Differences, Halves DEF Time
  <2> QED  BY <2>3, <2>4, <2>5
<1>9. o = 0
  BY <1>8
<1> QED  BY <1>2, <1>3, <1>9 DEF o

\* As long as nobody sets the clock, no timer is called early, if the callbacks
\* of all timers together, and a delay, take less than half the range of the
\* clock (os/WaitFor.c:288).
THEOREM NeverEarly ==
    ASSUME ShortCallbacks
    PROVE  TimersSpec => NotEarly
<1>1. TimersInit => DelayInv /\ PassInv
  <2> SUFFICES ASSUME TimersInit PROVE DelayInv /\ PassInv
    OBVIOUS
  <2>1. ListInv /\ caller = "DoTimer" /\ Len(timers) = 0 /\ pc = "dispatch"
    BY InitListInv, EmptySeq DEF TimersInit
  <2> QED  BY <2>1 DEF DelayInv, PassInv, InPass, OwedIs
<1>2. DelayInv /\ PassInv /\ [TimersNext]_timerVars => (DelayInv /\ PassInv)'
  BY NextDelayInv, NextPassInv, ShortOnes
<1>3. DelayInv /\ PassInv /\ [TimersNext]_timerVars =>
        [steps = 0 /\ pc # "callback" /\ pc' = "callback" /\ (back' = "run" \/ caller' = "TimerSet")
           => cur'.owed = 0]_timerVars
  BY RunsInTime
<1> QED  BY <1>1, <1>2, <1>3, PTL DEF TimersSpec, NotEarly
=============================================================================
