------------------------- MODULE RestaurantService -------------------------
(***************************************************************************)
(* The restaurant service: restaurants, menus, banners and cuisines behind *)
(* one cache, and the ratings of a restaurant.                             *)
(***************************************************************************)
EXTENDS Menu, Promotions, Ratings

CONSTANT Rated  \* the restaurant the ratings are of

ASSUME RatedAssumption == Rated \in Rests

serviceVars == <<cacheVars, restaurantVars, menuVars, promotionVars, ratingVars>>

TypeOK ==
  /\ CacheTypeOK
  /\ RestaurantsTypeOK
  /\ MenuTypeOK
  /\ PromotionsTypeOK
  /\ RatingsTypeOK

Init ==
  /\ CacheInit
  /\ RestaurantsInit
  /\ MenuInit
  /\ PromotionsInit
  /\ RatingsInit

\* The card and the details show the average and the count, which the
\* transaction of a rating changes on the row; it deletes no key.
RateIt ==
  /\ Rated \in Existing
  /\ RatingsNext
  /\ IF counted' = counted THEN UNCHANGED cacheVars
     ELSE ChangeUnseen({Card(Rated), Details(Rated)})
  /\ UNCHANGED <<restaurantVars, menuVars, promotionVars>>

Next ==
  \/ RestaurantsNext /\ UNCHANGED <<menuVars, promotionVars, ratingVars>>
  \/ MenuNext /\ UNCHANGED <<promotionVars, ratingVars>>
  \/ PromotionsNext /\ UNCHANGED <<restaurantVars, menuVars, ratingVars>>
  \/ RateIt

Spec == Init /\ [][Next]_serviceVars
=============================================================================
