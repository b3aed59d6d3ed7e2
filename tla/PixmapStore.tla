---------------------------- MODULE PixmapStore -----------------------------
(***************************************************************************)
(* What drawing on this server looks like to its clients: every drawable   *)
(* has a content, which changes only when a request asks for it: drawing   *)
(* changes one drawable, copying takes the content of one to another and   *)
(* reading returns it.  That pixmaps move between system and video memory  *)
(* and that the engine draws behind the server's back is not to be seen.   *)
(***************************************************************************)
EXTENDS Sequences

CONSTANTS Pixmaps, Colors

VARIABLES
    content, \* of every drawable, "none" for a pixmap that does not exist
    request  \* the request being executed, <<>> for none

vars == <<content, request>>

Drawables == Pixmaps \cup {"screen"}
Exists(d) == content[d] # "none"

Init ==
    /\ content \in [Drawables -> Colors \cup {"none"}]
    /\ \A p \in Pixmaps : ~Exists(p)
    /\ Exists("screen")
    /\ request = <<>>

\* A new pixmap holds what its memory happens to hold.
Create(p) ==
    /\ request = <<>> /\ ~Exists(p)
    /\ \E c \in Colors : content' = [content EXCEPT ![p] = c]
    /\ UNCHANGED request

Destroy(p) ==
    /\ request = <<>> /\ Exists(p)
    /\ content' = [content EXCEPT ![p] = "none"]
    /\ UNCHANGED request

Ask ==
    /\ request = <<>>
    /\ \E d \in {e \in Drawables : Exists(e)} :
         \/ \E c \in Colors : request' = <<"draw", c, d>>
         \/ \E s \in {e \in Drawables : Exists(e)} : request' = <<"copy", s, d>>
         \/ request' = <<"reply", content[d], d>>
    /\ UNCHANGED content

Finish ==
    /\ request # <<>>
    /\ request' = <<>>
    /\ LET d == request[3] IN
         CASE request[1] = "draw" -> content' = [content EXCEPT ![d] = request[2]]
           [] request[1] = "copy" -> content' = [content EXCEPT ![d] = content[request[2]]]
           [] request[1] = "reply" -> UNCHANGED content

Next ==
    \/ \E p \in Pixmaps : Create(p) \/ Destroy(p)
    \/ Ask \/ Finish

Spec == Init /\ [][Next]_vars
=============================================================================
