------------------------ MODULE MCRestaurantService ------------------------
(* A behaviour keeps to one workload; together they run every handler.  Two  *)
(* handlers and one or two readers at once: one to change a row between what *)
(* the other reads and what it writes.  Nothing tells the ids of a kind      *)
(* apart and no liveness is checked: symmetry is sound.                      *)
EXTENDS RestaurantService, TLC

VARIABLE load

MCKeys ==
  ({"card", "menu", "details"} \X Rests) \cup {<<"banners", None>>, <<"cuisines", None>>}

Symmetric == Permutations(Handlers) \cup Permutations(Readers) \cup Permutations(Cats)

Loads == {"decisions", "cards", "branches", "onboarding", "categories", "items",
          "options", "menuCache", "optionCache", "promotions", "ratings", "ratedCard"}

MCInit == Init /\ load \in Loads

Only(S) == load \in S

\* A restaurant, made by its owner or by an administrator.
OneRestaurant ==
  /\ Existing = {}
  /\ \E o \in Owners : OwnerSignsUp(o) \/ CreateRestaurant(o)

\* The decisions on one restaurant; the reader is left out.
DecisionLoad(s) ==
  \E r \in Existing :
    \/ ApproveRestaurant(s, r) \/ RejectRestaurant(s, r)
    \/ BlockRestaurant(s, None, r) \/ UnblockRestaurant(s, None, r)

\* Cards read while the restaurant opens, closes and is blocked.
CardLoad(s) ==
  \E r \in Existing :
    \/ OpenRestaurant(s, r) \/ CloseRestaurant(s, r)
    \/ \E o \in Owners : UpdateRestaurant(s, o, r) \/ BlockRestaurant(s, o, r)

RestaurantLoad ==
  \/ /\ Only({"decisions"})
     /\ OneRestaurant \/ \E s \in Handlers : DecisionLoad(s)
  \/ /\ Only({"cards"})
     /\ \/ \E o \in Owners :
             OwnerSignsUp(o) \/ (Existing = {} /\ CreateRestaurantByAdmin(o))
        \/ \E s \in Handlers : CardLoad(s)
        \/ RestaurantReads
  \/ Only({"branches"}) /\ Creations
  \/ /\ Only({"onboarding"})
     /\ \/ \E s \in Handlers, o \in Owners : OnboardRestaurantByAdmin(s, o)
        \/ \E o \in Owners : OwnerSignsUp(o)
  \/ Only({"categories", "items", "options"}) /\ tasks = 0 /\ chores = 0 /\
       \E o \in Owners : \/ (\A q \in Owners : account[q] = "none") /\ OwnerSignsUp(o)
                         \/ CreateRestaurant(o)
  \/ /\ Only({"menuCache", "optionCache", "ratings", "ratedCard"})
     /\ \/ Existing = {} /\
             \E o \in Owners : \/ (\A q \in Owners : account[q] = "none") /\ OwnerSignsUp(o)
                               \/ CreateRestaurantByAdmin(o) /\ rows'[Rated] # None
        \/ /\ ~Only({"ratings"})
           /\ tasks = 0
           /\ \E s \in Handlers, r \in Existing : OpenRestaurant(s, r)
  \/ Only({"ratedCard"}) /\ \E c \in Readers, r \in Existing : GetRestaurantPublic(c, r)
  \/ \E s \in Handlers : TaskStep(s)

CategoryLoad(s) ==
  \E r \in Existing, p \in Live(cats) \cup {None} :
    \/ CreateCategory(s, r, p)
    \/ \E c \in Live(cats) : UpdateCategory(s, c, p) \/ DeleteCategory(s, c)

\* Items of one restaurant put under the categories of any.
ItemLoad(s) ==
  \/ /\ Unborn(cats) # {}
     /\ \E r \in Existing, p \in Live(cats) \cup {None} : CreateCategory(s, r, p)
  \/ \E r \in Existing, c, u \in Live(cats) \cup {None} : CreateMenuItem(s, r, c, u)
  \/ \E c \in Live(cats) : DeleteCategory(s, c)
  \/ \E i \in Live(items), c, u \in Live(cats) \cup {None, Keep} : UpdateMenuItem(s, i, c, u)

OptionLoad(s) ==
  \/ /\ items = [i \in Items |-> None]
     /\ \E r \in Existing : CreateMenuItem(s, r, None, None)
  \/ \E i \in Live(items) : DeleteMenuItem(s, i) \/ CreateGroup(s, i)
  \/ \E g \in Live(groups) :
       DeleteGroup(s, g) \/ CreateOption(s, g) \/ UpdateGroup(s, g, FALSE)
  \/ \E o \in Live(options) : UpdateOption(s, o) \/ DeleteOption(s, o)

\* The cached menu, read while categories change.
MenuCacheLoad(s) ==
  \/ /\ \E r \in Existing : rows[r].open
     /\ \/ \E r \in Existing : CreateCategory(s, r, None)
        \/ \E c \in Live(cats) : UpdateCategory(s, c, Keep) \/ DeleteCategory(s, c)

\* The cached menu, read while an option group comes, changes and goes.
OptionCacheLoad(s) ==
  /\ \E r \in Existing : rows[r].open
  /\ \/ items = [i \in Items |-> None] /\ \E r \in Existing : CreateMenuItem(s, r, None, None)
     \/ groups = [g \in Groups |-> None] /\ \E i \in Live(items) : CreateGroup(s, i)
     \/ \E g \in Live(groups) : UpdateGroup(s, g, FALSE) \/ CreateOption(s, g)
     \/ \E o \in Live(options) : UpdateOption(s, o) \/ DeleteOption(s, o)

MenuLoad ==
  \/ \E s \in Handlers :
       \/ Only({"categories"}) /\ CategoryLoad(s)
       \/ Only({"items"}) /\ chores < MaxChores - 1 /\ ItemLoad(s)
       \/ Only({"options"}) /\ OptionLoad(s)
       \/ Only({"menuCache"}) /\ MenuCacheLoad(s)
       \/ Only({"optionCache"}) /\ chores < MaxChores - 1 /\ OptionCacheLoad(s)
       \/ MenuStep(s)
  \/ Only({"menuCache", "optionCache"}) /\ \E c \in Readers, r \in Existing : GetRestaurantMenu(c, r)

MCNext ==
  /\ \/ RestaurantLoad /\ UNCHANGED <<menuVars, promotionVars, ratingVars>>
     \/ /\ CacheNext
        /\ UNCHANGED <<restaurantVars, menuVars, promotionVars, ratingVars>>
     \/ MenuLoad /\ UNCHANGED <<promotionVars, ratingVars>>
     \/ /\ Only({"promotions"}) /\ PromotionsNext
        /\ UNCHANGED <<restaurantVars, menuVars, ratingVars>>
     \/ Only({"ratings"}) /\ RateIt
     \/ Only({"ratedCard"}) /\ RateIt /\ posts' <= 1
  /\ UNCHANGED load

MCSpec == MCInit /\ [][MCNext]_<<serviceVars, load>>
=============================================================================
