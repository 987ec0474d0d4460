-------------------------------- MODULE Menu --------------------------------
(***************************************************************************)
(* The menus of the restaurant service: categories and subcategories,      *)
(* items, option groups and options (models/MenuCategory.ts, MenuItem.ts,  *)
(* MenuItemOption.ts and their controllers), and the cached menu.          *)
(*                                                                         *)
(* A handler checks with SELECTs what its INSERT or UPDATE refers to; the  *)
(* foreign keys are all that the database checks again.  A deleted row     *)
(* stays here, dead, so that its id is not used twice.                     *)
(***************************************************************************)
EXTENDS Restaurants

CONSTANTS
  Cats, Items, Groups, Options,   \* ids
  Keep,         \* a field the request leaves out
  MaxChores     \* bound on the handlers begun

ASSUME MenuAssumption ==
  /\ {None, Keep} \cap (Cats \cup Items \cup Groups \cup Options) = {}
  /\ None # Keep
  /\ MaxChores \in Nat

VARIABLES
  cats,         \* restaurant.menu_categories
  items,        \* restaurant.menu_items
  groups,       \* restaurant.menu_item_option_groups
  options,      \* restaurant.menu_item_options
  chore,        \* the menu handler each slot runs
  chores        \* menu handlers begun so far

menuTables == <<cats, items, groups, options>>
menuVars == <<menuTables, chore, chores>>

Cat == [rest : Rests, parent : Cats \cup {None}, live : BOOLEAN]
Item == [rest : Rests, cat : Cats \cup {None}, sub : Cats \cup {None}, live : BOOLEAN]
Group == [item : Items, fits : BOOLEAN, live : BOOLEAN]  \* fits: 0 <= min <= max, max >= 1
Option == [group : Groups, live : BOOLEAN]

\* A row is not null.
ASSUME MenuRowAssumption == None \notin Cat \cup Item \cup Group \cup Option

ChoreOps == {"createCategory", "updateCategory", "deleteCategory",
             "createItem", "updateItem", "deleteItem",
             "createGroup", "updateGroup", "deleteGroup",
             "createOption", "updateOption", "deleteOption"}

\* cat and sub are, for a category handler, the parent and nothing.
Chore ==
  [op : ChoreOps \cup {None}, step : {"idle", "category", "subcategory", "write"},
   rest : Rests \cup {None},
   id : Cats \cup Items \cup Groups \cup Options \cup {None},
   cat : Cats \cup {None, Keep}, sub : Cats \cup {None, Keep}, fits : BOOLEAN]

NoChore == [op |-> None, step |-> "idle", rest |-> None, id |-> None,
            cat |-> None, sub |-> None, fits |-> TRUE]

MenuTypeOK ==
  /\ cats \in [Cats -> Cat \cup {None}]
  /\ items \in [Items -> Item \cup {None}]
  /\ groups \in [Groups -> Group \cup {None}]
  /\ options \in [Options -> Option \cup {None}]
  /\ chore \in [Handlers -> Chore]
  /\ chores \in 0..MaxChores

MenuInit ==
  /\ cats = [c \in Cats |-> None]
  /\ items = [i \in Items |-> None]
  /\ groups = [g \in Groups |-> None]
  /\ options = [o \in Options |-> None]
  /\ chore = [s \in Handlers |-> NoChore]
  /\ chores = 0

-----------------------------------------------------------------------------
Live(table) == {x \in DOMAIN table : table[x] # None /\ table[x].live}
Unborn(table) == {x \in DOMAIN table : table[x] = None}

\* A foreign key holds: null, or a row that is there.
Refers(table, x) == x = None \/ x \in Live(table)

Given(value, old) == IF value = Keep THEN old ELSE value

TopLevel(c, r) == c \in Live(cats) /\ cats[c].rest = r /\ cats[c].parent = None

BeginChore(s, ch) ==
  /\ chore[s] = NoChore
  /\ dropping[s] = {}
  /\ chores < MaxChores
  /\ chores' = chores + 1
  /\ chore' = [chore EXCEPT ![s] = ch]
  /\ UNCHANGED <<menuTables, restaurantVars, cacheVars>>

EndChore(s) == chore' = [chore EXCEPT ![s] = NoChore] /\ UNCHANGED chores

At(s, op) == chore[s].step = "write" /\ chore[s].op = op

\* The statement is done.  The menu and the details show the categories and the
\* items; the handler goes on to delete the cached menu alone.
MenuChanged(s) ==
  LET r == chore[s].rest IN
    /\ Change(s, {MenuKey(r), Details(r)}, {MenuKey(r)})
    /\ EndChore(s)

\* Both show the options of item i too, and the option handlers delete nothing.
OptionsChanged(i) == ChangeUnseen({MenuKey(items[i].rest), Details(items[i].rest)})

\* The database refuses the statement, or it finds no row.
NothingDone(s) == EndChore(s) /\ UNCHANGED <<menuTables, cacheVars>>

-----------------------------------------------------------------------------
(* The handlers of menuCategoryController.ts.                              *)

CreateCategory(s, r, p) ==
  /\ p # None => TopLevel(p, r)
  /\ BeginChore(s, [NoChore EXCEPT !.op = "createCategory", !.step = "write",
                                   !.rest = r, !.cat = p])

\* A new parent must be a top-level category of the same restaurant; whether
\* the category has subcategories of its own is not asked.
UpdateCategory(s, c, p) ==
  /\ p \in Cats => p # c /\ TopLevel(p, cats[c].rest)
  /\ BeginChore(s, [NoChore EXCEPT !.op = "updateCategory", !.step = "write",
                                   !.rest = cats[c].rest, !.id = c, !.cat = p])

DeleteCategory(s, c) ==
  /\ \A d \in Live(cats) : cats[d].parent # c
  /\ BeginChore(s, [NoChore EXCEPT !.op = "deleteCategory", !.step = "write",
                                   !.rest = cats[c].rest, !.id = c])

InsertCategory(s) ==
  LET ch == chore[s] IN
    /\ At(s, "createCategory")
    /\ \/ /\ Refers(cats, ch.cat)
          /\ \E c \in Unborn(cats) :
               cats' = [cats EXCEPT ![c] =
                          [rest |-> ch.rest, parent |-> ch.cat, live |-> TRUE]]
          /\ MenuChanged(s)
          /\ UNCHANGED <<items, groups, options>>
       \/ ~Refers(cats, ch.cat) /\ NothingDone(s)
    /\ UNCHANGED restaurantVars

UpdateCategoryRow(s) ==
  LET ch == chore[s]
      p == Given(ch.cat, cats[ch.id].parent)
  IN
    /\ At(s, "updateCategory")
    /\ IF ch.id \in Live(cats) /\ Refers(cats, p)
         THEN /\ cats' = [cats EXCEPT ![ch.id].parent = p]
              /\ MenuChanged(s)
              /\ UNCHANGED <<items, groups, options>>
         ELSE NothingDone(s)
    /\ UNCHANGED restaurantVars

\* DELETE; ON DELETE SET NULL for subcategories and items.  The cached menu is
\* deleted whether or not a row was.
DeleteCategoryRow(s) ==
  LET c == chore[s].id
      Null(x) == IF x = c THEN None ELSE x
  IN
    /\ At(s, "deleteCategory")
    /\ cats' = [d \in Cats |->
         IF cats[d] = None THEN None
         ELSE [cats[d] EXCEPT !.parent = Null(@), !.live = @ /\ d # c]]
    /\ items' = [i \in Items |->
         IF items[i] = None THEN None
         ELSE [items[i] EXCEPT !.cat = Null(@), !.sub = Null(@)]]
    /\ MenuChanged(s)
    /\ UNCHANGED <<groups, options, restaurantVars>>

-----------------------------------------------------------------------------
(* The handlers of menuItemController.ts; resolveCategoryAndSubcategory is  *)
(* one SELECT for the category and one for the subcategory.                 *)

CreateMenuItem(s, r, c, u) ==
  BeginChore(s, [NoChore EXCEPT !.op = "createItem", !.step = "category",
                                !.rest = r, !.cat = c, !.sub = u])

\* A category left out of the request is the one the item had when it was read.
UpdateMenuItem(s, i, c, u) ==
  BeginChore(s,
    [NoChore EXCEPT !.op = "updateItem", !.rest = items[i].rest, !.id = i,
       !.step = IF c = Keep /\ u = Keep THEN "write" ELSE "category",
       !.cat = IF c = Keep /\ u = Keep THEN Keep ELSE Given(c, items[i].cat),
       !.sub = IF c = Keep /\ u = Keep THEN Keep ELSE Given(u, items[i].sub)])

DeleteMenuItem(s, i) ==
  BeginChore(s, [NoChore EXCEPT !.op = "deleteItem", !.step = "write",
                                !.rest = items[i].rest, !.id = i])

ReadCategory(s) ==
  LET ch == chore[s] IN
    /\ ch.step = "category"
    /\ \/ /\ ch.cat # None => TopLevel(ch.cat, ch.rest)
          /\ chore' = [chore EXCEPT ![s].step =
                         IF ch.sub = None THEN "write" ELSE "subcategory"]
          /\ UNCHANGED chores
       \/ ch.cat # None /\ ~TopLevel(ch.cat, ch.rest) /\ EndChore(s)
    /\ UNCHANGED <<menuTables, restaurantVars, cacheVars>>

\* Fault: the subcategory's restaurant is not compared.
ReadAnySubcategory(s) ==
  LET ch == chore[s] IN
    /\ ch.step = "subcategory"
    /\ IF /\ ch.sub \in Live(cats)
          /\ cats[ch.sub].parent # None
          /\ ch.cat \in {None, cats[ch.sub].parent}
         THEN /\ chore' = [chore EXCEPT ![s].step = "write",
                                        ![s].cat = cats[ch.sub].parent]
              /\ UNCHANGED chores
         ELSE EndChore(s)
    /\ UNCHANGED <<menuTables, restaurantVars, cacheVars>>

\* The item goes under the parent the subcategory has now.
ReadSubcategory(s) ==
  LET ch == chore[s] IN
    /\ ch.step = "subcategory"
    /\ IF /\ ch.sub \in Live(cats) /\ cats[ch.sub].rest = ch.rest
          /\ cats[ch.sub].parent # None
          /\ ch.cat \in {None, cats[ch.sub].parent}
         THEN /\ chore' = [chore EXCEPT ![s].step = "write",
                                        ![s].cat = cats[ch.sub].parent]
              /\ UNCHANGED chores
         ELSE EndChore(s)
    /\ UNCHANGED <<menuTables, restaurantVars, cacheVars>>

InsertItem(s) ==
  LET ch == chore[s] IN
    /\ At(s, "createItem")
    /\ \/ /\ Refers(cats, ch.cat) /\ Refers(cats, ch.sub)
          /\ \E i \in Unborn(items) :
               items' = [items EXCEPT ![i] = [rest |-> ch.rest, cat |-> ch.cat,
                                              sub |-> ch.sub, live |-> TRUE]]
          /\ MenuChanged(s)
          /\ UNCHANGED <<cats, groups, options>>
       \/ ~(Refers(cats, ch.cat) /\ Refers(cats, ch.sub)) /\ NothingDone(s)
    /\ UNCHANGED restaurantVars

UpdateItemRow(s) ==
  LET ch == chore[s]
      c == Given(ch.cat, items[ch.id].cat)
      u == Given(ch.sub, items[ch.id].sub)
  IN
    /\ At(s, "updateItem")
    /\ IF ch.id \in Live(items) /\ Refers(cats, c) /\ Refers(cats, u)
         THEN /\ items' = [items EXCEPT ![ch.id].cat = c, ![ch.id].sub = u]
              /\ MenuChanged(s)
              /\ UNCHANGED <<cats, groups, options>>
         ELSE NothingDone(s)
    /\ UNCHANGED restaurantVars

\* DELETE, which cascades to the item's groups and their options.
DeleteItemRow(s) ==
  LET i == chore[s].id
      Its == {g \in Groups : groups[g] # None /\ groups[g].item = i}
  IN
    /\ At(s, "deleteItem")
    /\ items' = [items EXCEPT ![i].live = FALSE]
    /\ groups' = [g \in Groups |->
         IF g \in Its THEN [groups[g] EXCEPT !.live = FALSE] ELSE groups[g]]
    /\ options' = [o \in Options |->
         IF options[o] # None /\ options[o].group \in Its
           THEN [options[o] EXCEPT !.live = FALSE] ELSE options[o]]
    /\ MenuChanged(s)
    /\ UNCHANGED <<cats, restaurantVars>>

-----------------------------------------------------------------------------
(* The handlers of menuItemOptionController.ts: what they read never        *)
(* changes while the row lives, and they delete no cached menu.             *)

CreateGroup(s, i) ==
  BeginChore(s, [NoChore EXCEPT !.op = "createGroup", !.step = "write", !.id = i])

\* The new bounds are taken as they are.
UpdateGroup(s, g, fits) ==
  BeginChore(s, [NoChore EXCEPT !.op = "updateGroup", !.step = "write", !.id = g,
                                !.fits = fits])

DeleteGroup(s, g) ==
  BeginChore(s, [NoChore EXCEPT !.op = "deleteGroup", !.step = "write", !.id = g])

CreateOption(s, g) ==
  BeginChore(s, [NoChore EXCEPT !.op = "createOption", !.step = "write", !.id = g])

UpdateOption(s, o) ==
  BeginChore(s, [NoChore EXCEPT !.op = "updateOption", !.step = "write", !.id = o])

DeleteOption(s, o) ==
  BeginChore(s, [NoChore EXCEPT !.op = "deleteOption", !.step = "write", !.id = o])

InsertGroup(s) ==
  LET i == chore[s].id IN
    /\ At(s, "createGroup")
    /\ IF i \in Live(items)
         THEN /\ \E g \in Unborn(groups) :
                   groups' = [groups EXCEPT ![g] = [item |-> i, fits |-> TRUE, live |-> TRUE]]
              /\ OptionsChanged(i)
         ELSE UNCHANGED <<groups, cacheVars>>
    /\ EndChore(s)
    /\ UNCHANGED <<cats, items, options, restaurantVars>>

UpdateGroupRow(s) ==
  LET g == chore[s].id IN
    /\ At(s, "updateGroup")
    /\ IF g \in Live(groups)
         THEN /\ groups' = [groups EXCEPT ![g].fits = chore[s].fits]
              /\ OptionsChanged(groups[g].item)
         ELSE UNCHANGED <<groups, cacheVars>>
    /\ EndChore(s)
    /\ UNCHANGED <<cats, items, options, restaurantVars>>

DeleteGroupRow(s) ==
  LET g == chore[s].id IN
    /\ At(s, "deleteGroup")
    /\ groups' = [groups EXCEPT ![g].live = FALSE]
    /\ options' = [o \in Options |->
         IF options[o] # None /\ options[o].group = g
           THEN [options[o] EXCEPT !.live = FALSE] ELSE options[o]]
    /\ IF g \in Live(groups) THEN OptionsChanged(groups[g].item) ELSE UNCHANGED cacheVars
    /\ EndChore(s)
    /\ UNCHANGED <<cats, items, restaurantVars>>

InsertOption(s) ==
  LET g == chore[s].id IN
    /\ At(s, "createOption")
    /\ IF g \in Live(groups)
         THEN /\ \E o \in Unborn(options) :
                   options' = [options EXCEPT ![o] = [group |-> g, live |-> TRUE]]
              /\ OptionsChanged(groups[g].item)
         ELSE UNCHANGED <<options, cacheVars>>
    /\ EndChore(s)
    /\ UNCHANGED <<cats, items, groups, restaurantVars>>

\* What the menu shows of an option that is there.
ShownOptionChanged(o) ==
  IF o \in Live(options) THEN OptionsChanged(groups[options[o].group].item)
  ELSE UNCHANGED cacheVars

\* A name, a price or an availability: nothing of the row that is modelled.
UpdateOptionRow(s) ==
  /\ At(s, "updateOption")
  /\ ShownOptionChanged(chore[s].id)
  /\ EndChore(s)
  /\ UNCHANGED <<menuTables, restaurantVars>>

DeleteOptionRow(s) ==
  /\ At(s, "deleteOption")
  /\ options' = [options EXCEPT ![chore[s].id].live = FALSE]
  /\ ShownOptionChanged(chore[s].id)
  /\ EndChore(s)
  /\ UNCHANGED <<cats, items, groups, restaurantVars>>

-----------------------------------------------------------------------------
\* The service stops in the middle of a menu handler.
StopChore(s) ==
  chore[s] # NoChore /\ NothingDone(s) /\ UNCHANGED restaurantVars

GetRestaurantMenu(c, r) ==
  Servable(r) /\ Read(c, MenuKey(r)) /\ UNCHANGED <<restaurantVars, menuVars>>

BeginMenu(s) ==
  \/ \E r \in Existing, c, u \in Live(cats) \cup {None} :
       CreateCategory(s, r, c) \/ CreateMenuItem(s, r, c, u)
  \/ \E c \in Live(cats) :
       \/ DeleteCategory(s, c)
       \/ \E p \in Live(cats) \cup {None, Keep} : UpdateCategory(s, c, p)
  \/ \E i \in Live(items) :
       \/ DeleteMenuItem(s, i)
       \/ CreateGroup(s, i)
       \/ \E c, u \in Live(cats) \cup {None, Keep} : UpdateMenuItem(s, i, c, u)
  \/ \E g \in Live(groups) :
       \/ DeleteGroup(s, g)
       \/ CreateOption(s, g)
       \/ \E fits \in BOOLEAN : UpdateGroup(s, g, fits)
  \/ \E o \in Live(options) : UpdateOption(s, o) \/ DeleteOption(s, o)

MenuStep(s) ==
  \/ InsertCategory(s) \/ UpdateCategoryRow(s) \/ DeleteCategoryRow(s)
  \/ ReadCategory(s) \/ ReadSubcategory(s)
  \/ InsertItem(s) \/ UpdateItemRow(s) \/ DeleteItemRow(s)
  \/ InsertGroup(s) \/ UpdateGroupRow(s) \/ DeleteGroupRow(s)
  \/ InsertOption(s) \/ UpdateOptionRow(s) \/ DeleteOptionRow(s)
  \/ StopChore(s)

MenuNext ==
  \/ \E s \in Handlers : BeginMenu(s) \/ MenuStep(s)
  \/ \E c \in Readers, r \in Existing : GetRestaurantMenu(c, r)

-----------------------------------------------------------------------------
(* Properties.                                                             *)

\* A menu is closed under its references: whatever a category or an item
\* refers to is there and of the same restaurant, although it was checked one
\* or more statements before it was written, and no option group or option
\* outlives its item.
MenusStayApart ==
  /\ \A c \in Live(cats) : cats[c].parent # None =>
       cats[c].parent \in Live(cats) /\ cats[cats[c].parent].rest = cats[c].rest
  /\ \A i \in Live(items) : \A c \in {items[i].cat, items[i].sub} \ {None} :
       c \in Live(cats) /\ cats[c].rest = items[i].rest
  /\ \A g \in Live(groups) : groups[g].item \in Live(items)
  /\ \A o \in Live(options) : options[o].group \in Live(groups)

\* "Subcategory nesting beyond one level is not allowed": the parent of a
\* category is a top-level category.
NestingOneLevel ==
  \A c \in Live(cats) : cats[c].parent # None => cats[cats[c].parent].parent = None
=============================================================================
