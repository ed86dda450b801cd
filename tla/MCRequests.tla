----------------------------- MODULE MCRequests -----------------------------
(***************************************************************************)
(* Sharing (and with it Sessions) and KippleListing for TLC.  Requests of   *)
(* all routes at once are too many states: a behaviour has one kind of      *)
(* traffic, chosen at its start, and there is one about the pages of the    *)
(* list.  What the chosen one does not need stays as small as it can be.    *)
(***************************************************************************)
EXTENDS Sharing, KippleListing, TLC

CONSTANTS t1, f1, n1

VARIABLE traffic

AskedFor == [wired    |-> {"login", "logout", "me"},
             reading  |-> {"view", "download", "panel"},
             saving   |-> {"save", "view"},
             deleting |-> {"delete", "view"}]
AllRoutes == UNION {AskedFor[x] : x \in DOMAIN AskedFor}

\* Two ticks where a note is saved and expires, otherwise one.
Horizon == IF traffic = "saving" THEN 2 ELSE 1

MCInit ==
    /\ traffic \in DOMAIN AskedFor \cup {"listing"}
    /\ ShareInit /\ ListingInit
    /\ \A t \in Tokens : /\ traffic # "wired" /\ t # t1 => sessions[t] = NoSession
                         /\ sessions[t].expires <= 2
    /\ traffic = "listing" => sessions[t1] = NoSession
    /\ Known = IF traffic \in {"reading", "deleting"} THEN {f1} ELSE {}
    /\ \A i \in Items : attr[i].expires <= 1
    /\ \A r \in Requests : req[r].route = "view"

RequestStep ==
    /\ traffic \in DOMAIN AskedFor
    /\ IF traffic = "wired" THEN Next /\ UNCHANGED shareVars ELSE ShareNext
    /\ now' <= Horizon
    /\ \A r \in Requests : req'[r].pc # "idle" => req'[r].route \in AskedFor[traffic]
    /\ UNCHANGED listingVars

MCNext ==
    /\ RequestStep \/ (traffic = "listing" /\ ListingNext /\ UNCHANGED allVars)
    /\ UNCHANGED traffic

MCSpec == MCInit /\ [][MCNext]_<<allVars, listingVars, traffic>>

\* The types of what requests and readers of the list have.
RequestTypes == ShareTypeOK /\ ListingTypeOK

Symmetry == Permutations(Users) \cup Permutations(Requests)
=============================================================================
