----------------------------- MODULE Promotions -----------------------------
(***************************************************************************)
(* What the restaurant service shows on its home screens: banners, which   *)
(* an owner requests and an administrator decides (bannerController.ts,    *)
(* models/Banner.ts), and cuisine categories (cuisineCategoryController.ts,*)
(* models/CuisineCategory.ts).  Both lists are cached.                     *)
(***************************************************************************)
EXTENDS CacheAside

CONSTANTS
  Banners,      \* ids of banners
  Cuisines,     \* ids of cuisine categories
  MaxEdits      \* bound on the changes made

BannersKey == <<"banners", None>>
CuisinesKey == <<"cuisines", None>>

ASSUME PromotionsAssumption ==
  {BannersKey, CuisinesKey} \subseteq Keys /\ MaxEdits \in Nat

VARIABLES
  banner,       \* banners.banners
  cuisine,      \* restaurant.cuisine_categories
  edits         \* changes made so far

promotionVars == <<banner, cuisine, edits>>

Decisions == {"requested", "approved", "rejected"}

PromotionsTypeOK ==
  /\ banner \in [Banners -> Decisions \cup {"none", "deleted"}]
  /\ cuisine \in [Cuisines -> {"none", "there", "deleted"}]
  /\ edits \in 0..MaxEdits

PromotionsInit ==
  /\ banner = [b \in Banners |-> "none"]
  /\ cuisine = [c \in Cuisines |-> "none"]
  /\ edits = 0

-----------------------------------------------------------------------------
Edit == edits < MaxEdits /\ edits' = edits + 1

\* ensureRestaurantOwnership and one INSERT.  A requested banner is not in the
\* public list, and the handler leaves the cache alone.
CreateBanner(b) ==
  /\ Edit
  /\ banner[b] = "none"
  /\ banner' = [banner EXCEPT ![b] = "requested"]
  /\ UNCHANGED <<cuisine, cacheVars>>

\* One UPDATE: any decision may follow any other.
AdminUpdateBannerStatus(s, b, decision) ==
  /\ Edit
  /\ banner[b] \in Decisions
  /\ banner' = [banner EXCEPT ![b] = decision]
  /\ Change(s, {BannersKey}, {BannersKey})
  /\ UNCHANGED cuisine

\* ensureBannerOwnership and one DELETE.
DeleteBanner(s, b) ==
  /\ Edit
  /\ banner[b] \in Decisions
  /\ banner' = [banner EXCEPT ![b] = "deleted"]
  /\ Change(s, {BannersKey}, {BannersKey})
  /\ UNCHANGED cuisine

CreateCuisine(s, c) ==
  /\ Edit
  /\ cuisine[c] = "none"
  /\ cuisine' = [cuisine EXCEPT ![c] = "there"]
  /\ Change(s, {CuisinesKey}, {CuisinesKey})
  /\ UNCHANGED banner

\* A name, a picture, a place in the list.
UpdateCuisine(s, c) ==
  /\ Edit
  /\ cuisine[c] = "there"
  /\ Change(s, {CuisinesKey}, {CuisinesKey})
  /\ UNCHANGED <<banner, cuisine>>

DeleteCuisine(s, c) ==
  /\ Edit
  /\ cuisine[c] = "there"
  /\ cuisine' = [cuisine EXCEPT ![c] = "deleted"]
  /\ Change(s, {CuisinesKey}, {CuisinesKey})
  /\ UNCHANGED banner

ListPublicBanners(r) == Read(r, BannersKey) /\ UNCHANGED promotionVars
ListPublicCuisines(r) == Read(r, CuisinesKey) /\ UNCHANGED promotionVars

PromotionsNext ==
  \/ \E b \in Banners : CreateBanner(b)
  \/ \E s \in Handlers :
       /\ dropping[s] = {}
       /\ \/ \E b \in Banners :
               \/ \E d \in Decisions : AdminUpdateBannerStatus(s, b, d)
               \/ DeleteBanner(s, b)
          \/ \E c \in Cuisines :
               CreateCuisine(s, c) \/ UpdateCuisine(s, c) \/ DeleteCuisine(s, c)
  \/ \E r \in Readers : ListPublicBanners(r) \/ ListPublicCuisines(r)
=============================================================================
