------------------------------ MODULE Ratings ------------------------------
(***************************************************************************)
(* The ratings of one restaurant: submitRating() of the order service, the *)
(* internal endpoints of the restaurant service, and the transactions of   *)
(* models/Rating.ts, which insert or hide a rating and recompute the       *)
(* average and the count kept on the restaurant's row.                     *)
(*                                                                         *)
(* The transactions are READ COMMITTED: the UPDATE that recomputes sees    *)
(* what was committed when it began, and then waits for the row.           *)
(***************************************************************************)
EXTENDS Naturals, FiniteSets

CONSTANTS
  RatedOrders,  \* delivered orders of the restaurant
  Posts,        \* requests at once
  NoOrder,
  MaxPosts      \* bound on the requests begun

ASSUME RatingsAssumption == NoOrder \notin RatedOrders /\ MaxPosts \in Nat

VARIABLES
  rating,       \* restaurant.restaurant_ratings, as committed
  counted,      \* the ratings rating_avg and rating_count were computed from
  post,         \* what each request does
  posts,        \* requests begun so far
  raced         \* history: the last recomputation missed a commit

ratingVars == <<rating, counted, post, posts, raced>>

\* seen is what the recomputation saw, late that a transaction committed since.
Post == [op : {"none", "create", "hide"},
         step : {"idle", "find", "write", "recalc", "lock", "commit"},
         order : RatedOrders \cup {NoOrder}, seen : SUBSET RatedOrders,
         late : BOOLEAN]

NoPost == [op |-> "none", step |-> "idle", order |-> NoOrder, seen |-> {},
           late |-> FALSE]

RatingsTypeOK ==
  /\ rating \in [RatedOrders -> {"none", "visible", "hidden"}]
  /\ counted \subseteq RatedOrders
  /\ post \in [Posts -> Post]
  /\ posts \in 0..MaxPosts
  /\ raced \in BOOLEAN

RatingsInit ==
  /\ rating = [o \in RatedOrders |-> "none"]
  /\ counted = {}
  /\ post = [p \in Posts |-> NoPost]
  /\ posts = 0
  /\ raced = FALSE

-----------------------------------------------------------------------------
Visible == {o \in RatedOrders : rating[o] = "visible"}

\* The rating a transaction writes, once it has.
Effect(p) == IF post[p].op = "create" THEN "visible" ELSE "hidden"

InTransaction(p) == post[p].step \in {"recalc", "lock", "commit"}
RowHeld(o) == \E p \in Posts : InTransaction(p) /\ post[p].order = o

Move(p, step) == post' = [post EXCEPT ![p].step = step]
Leave(p) == post' = [post EXCEPT ![p] = NoPost]

BeginPost(p, op, step, o) ==
  /\ post[p] = NoPost
  /\ posts < MaxPosts
  /\ posts' = posts + 1
  /\ post' = [post EXCEPT ![p].op = op, ![p].step = step, ![p].order = o]
  /\ UNCHANGED <<rating, counted, raced>>

\* POST /orders/:id/rating: the order is delivered, and GET
\* /internal/ratings/order/:id knows no rating of it.
SubmitRating(p, o) == rating[o] = "none" /\ BeginPost(p, "create", "find", o)

\* DELETE of a rating by an administrator: Rating.setVisibility(id, false).
AdminDeleteRating(p, o) == rating[o] # "none" /\ BeginPost(p, "hide", "write", o)

\* POST /internal/ratings asks again.
FindByOrderId(p) ==
  /\ post[p].step = "find"
  /\ IF rating[post[p].order] = "none" THEN Move(p, "write") ELSE Leave(p)
  /\ UNCHANGED <<rating, counted, posts, raced>>

\* Fault: hiding a rating leaves the average alone.
WriteRatingOnly(p) ==
  LET o == post[p].order IN
    /\ post[p].step = "write"
    /\ ~RowHeld(o)
    /\ IF post[p].op = "create" /\ rating[o] # "none" THEN Leave(p)
       ELSE IF post[p].op = "create" THEN Move(p, "recalc")
       ELSE post' = [post EXCEPT ![p].step = "commit", ![p].seen = counted]
    /\ UNCHANGED <<rating, counted, posts, raced>>

\* BEGIN and the INSERT or UPDATE, which waits for a transaction on the same
\* rating; a second rating of an order breaks the unique index.
WriteRating(p) ==
  LET o == post[p].order IN
    /\ post[p].step = "write"
    /\ ~RowHeld(o)
    /\ IF post[p].op = "create" /\ rating[o] # "none" THEN Leave(p) ELSE Move(p, "recalc")
    /\ UNCHANGED <<rating, counted, posts, raced>>

\* recalculateAvg begins: its snapshot.
RecalculateAvg(p) ==
  LET own == IF post[p].op = "create" THEN {post[p].order} ELSE {} IN
    /\ post[p].step = "recalc"
    /\ post' = [post EXCEPT ![p].step = "lock",
                            ![p].seen = (Visible \ {post[p].order}) \cup own]
    /\ UNCHANGED <<rating, counted, posts, raced>>

\* The restaurant's row is free.
LockRestaurant(p) ==
  /\ post[p].step = "lock"
  /\ \A q \in Posts : post[q].step # "commit"
  /\ Move(p, "commit")
  /\ UNCHANGED <<rating, counted, posts, raced>>

CommitRating(p) ==
  /\ post[p].step = "commit"
  /\ rating' = [rating EXCEPT ![post[p].order] = Effect(p)]
  /\ counted' = post[p].seen
  /\ raced' = post[p].late
  /\ post' = [q \in Posts |->
       IF q = p THEN NoPost
       ELSE [post[q] EXCEPT !.late = @ \/ post[q].step = "lock"]]
  /\ UNCHANGED posts

\* An error, a lost answer or a stop before the commit: ROLLBACK.
LosePost(p) ==
  /\ post[p] # NoPost
  /\ Leave(p)
  /\ UNCHANGED <<rating, counted, posts, raced>>

RatingsNext ==
  \E p \in Posts :
    \/ \E o \in RatedOrders : SubmitRating(p, o) \/ AdminDeleteRating(p, o)
    \/ FindByOrderId(p) \/ WriteRating(p) \/ RecalculateAvg(p)
    \/ LockRestaurant(p) \/ CommitRating(p) \/ LosePost(p)

-----------------------------------------------------------------------------
\* The average and the count on the restaurant's row are those of its visible
\* ratings, unless the last transaction to recompute them began to before
\* another one committed; the next one that is not overtaken repairs them.
RatingsExact == ~raced => counted = Visible
=============================================================================
