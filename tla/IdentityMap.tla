----------------------------- MODULE IdentityMap ----------------------------
(***************************************************************************)
(* What the identity database promises: a list of identities, at most one  *)
(* entry per uid, changed by saving, updating and removing one identity at *)
(* a time, and never by a crash.  Once damaged, nothing is promised;       *)
(* IdentityDb says which events do that.                                   *)
(***************************************************************************)
EXTENDS Integers, Sequences

CONSTANTS Identity,            \* records with a field uid
          WISH_PORT_MAX_UIDS

VARIABLES contents, damaged

Known(u) == \E i \in DOMAIN contents : contents[i].uid = u

Init == contents = << >> /\ damaged = FALSE

Save == \E id \in Identity :
    /\ ~Known(id.uid) /\ Len(contents) < WISH_PORT_MAX_UIDS
    /\ contents' = Append(contents, id)

Remove == \E i \in DOMAIN contents :
    contents' = SubSeq(contents, 1, i - 1)
                  \o SubSeq(contents, i + 1, Len(contents))

Update == \E new \in Identity :
    contents' = [i \in DOMAIN contents |->
                   IF contents[i].uid = new.uid THEN new ELSE contents[i]]

Operation == ~damaged /\ UNCHANGED damaged /\ (Save \/ Remove \/ Update)

Next == Operation \/ damaged'

Spec == Init /\ [][Next]_<<contents, damaged>>
=============================================================================
