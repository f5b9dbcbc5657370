-------------------------- MODULE InventoryProofs --------------------------
(* Theorems about the items of one player, for any number of ids, places,  *)
(* base weapons and requests, and any number of ends of the process.       *)
EXTENDS Inventory, FiniteSetTheorems, WellFoundedInduction, TLAPS

---------------------------------------------------------------------------
(* The inductive invariant.                                                *)

\* Nothing shares a place.
Apart(its, bs) ==
  /\ \A i \in DOMAIN its : "eq" \in DOMAIN its[i]
  /\ \A i, j \in DOMAIN its : i # j => its[i].eq \cap its[j].eq = {}
  /\ \A d, e \in bs : d.at = e.at => d = e
  /\ \A i \in DOMAIN its, e \in bs : e.at \notin its[i].eq

\* Ids are given upwards: all that are or were in use are not above the last.
Upwards ==
  /\ DOMAIN items \subseteq ItemIds /\ DOMAIN disk.items \subseteq ItemIds /\ gone \subseteq ItemIds
  /\ last \in Nat
  /\ \A i \in DOMAIN items \cup gone : i <= last

InvPlaces == Apart(items, base) /\ Apart(disk.items, disk.base)

IInv == Upwards /\ NoReuse /\ InvPlaces

---------------------------------------------------------------------------
(* The least and the greatest of some numbers, and the next id.            *)

LEMMA LeastOf ==
  ASSUME NEW S, S \subseteq Nat, S # {}
  PROVE  Min(S) \in S /\ \A y \in S : Min(S) <= y
<1>1. PICK x \in S : \A y \in S : <<y, x>> \notin OpToRel(<, Nat)
  BY WFMin, NatLessThanWellFounded, Zenon
<1>2. \A y \in S : ~(y < x)
  BY <1>1, Zenon DEF OpToRel
<1>3. \E least \in S : \A y \in S : least =< y
  BY <1>2
<1> QED BY <1>3 DEF Min

LEMMA GreatestOf ==
  ASSUME NEW n \in Nat, NEW S, S \subseteq 0..n, S # {}
  PROVE  Max(S) \in S /\ \A y \in S : y <= Max(S)
<1> DEFINE T == {n - x : x \in S}
<1>1. T \subseteq Nat /\ T # {}
  <2>1. \A x \in S : x \in 0..n /\ n - x \in Nat
    OBVIOUS
  <2> QED BY <2>1
<1>2. PICK x \in S : Min(T) = n - x
  BY <1>1, LeastOf
<1>3. \A y \in S : n - x <= n - y
  BY <1>1, <1>2, LeastOf
<1>4. \A y \in S : x >= y
  BY <1>3
<1> QED BY <1>4 DEF Max

\* AllocateItem gives an id above all that were given.
LEMMA NextIdIsNew ==
  ASSUME Upwards, HasRoom
  PROVE  NextId \in ItemIds /\ NextId > last /\ NextId \notin DOMAIN items
<1> DEFINE S == {i \in ItemIds : i > last /\ i \notin DOMAIN items}
<1>1. S \subseteq Nat /\ S # {}
  BY BoundsAreNatural DEF HasRoom, ItemIds
<1>2. Min(S) \in S
  BY <1>1, LeastOf
<1> QED BY <1>2 DEF NextId

LEMMA LastMoves ==
  ASSUME Upwards, HasRoom, Allocate
  PROVE  last' \in Nat /\ last' >= last /\ last' >= NextId
<1>1. NextId \in Nat /\ NextId >= last + 1 /\ last \in Nat
  BY NextIdIsNew, BoundsAreNatural DEF Upwards, ItemIds
<1>2. {last + 1, NextId} \subseteq 0..NextId /\ {last + 1, NextId} # {}
  BY <1>1
<1>3. Max({last + 1, NextId}) \in {last + 1, NextId} /\ Max({last + 1, NextId}) >= NextId
  BY <1>1, <1>2, GreatestOf
<1> QED BY <1>1, <1>3 DEF Allocate

---------------------------------------------------------------------------
(* What a handler does to the ids and to the places.                       *)

\* The ids after a handler that destroys some and may make one.
LEMMA IdsAfter ==
  ASSUME Upwards, NoReuse, UNCHANGED disk, NEW used, used \subseteq DOMAIN items, gone' = gone \cup used,
         \/ NoNew /\ DOMAIN items' \subseteq DOMAIN items \ used
         \/ HasRoom /\ Allocate /\ DOMAIN items' \subseteq (DOMAIN items \cup {NextId}) \ used
  PROVE  Upwards' /\ NoReuse'
<1>1. CASE NoNew /\ DOMAIN items' \subseteq DOMAIN items \ used
  BY <1>1 DEF Upwards, NoReuse, NoNew
<1>2. CASE HasRoom /\ Allocate /\ DOMAIN items' \subseteq (DOMAIN items \cup {NextId}) \ used
  <2>1. NextId \in ItemIds /\ NextId > last /\ NextId \notin DOMAIN items
    BY <1>2, NextIdIsNew
  <2>2. last' \in Nat /\ last' >= last /\ last' >= NextId
    BY <1>2, LastMoves
  <2>3. \A i \in DOMAIN items \cup gone : i \in Int /\ i <= last
    <3>1. \A i \in ItemIds : i \in Int
      BY DEF ItemIds
    <3>2. DOMAIN items \cup gone \subseteq ItemIds
      BY DEF Upwards
    <3> QED BY <3>1, <3>2 DEF Upwards
  <2> QED BY <1>2, <2>1, <2>2, <2>3 DEF Upwards, NoReuse
<1> QED BY <1>1, <1>2

\* Items that lost places, and new ones without one.
LeavesPlaces(its, its2) ==
  \A i \in DOMAIN its2 :
    /\ "eq" \in DOMAIN its2[i]
    /\ its2[i].eq = {} \/ (i \in DOMAIN its /\ its2[i].eq \subseteq its[i].eq)

LEMMA StillApart ==
  ASSUME NEW its, NEW bs, Apart(its, bs), NEW its2, NEW bs2, bs2 \subseteq bs, LeavesPlaces(its, its2)
  PROVE  Apart(its2, bs2)
BY DEF Apart, LeavesPlaces

\* Item k takes place p, which the other items have left; nothing else takes one.
Takes(its, its2, k, p) ==
  \A i \in DOMAIN its2 :
    /\ "eq" \in DOMAIN its2[i]
    /\ i # k => p \notin its2[i].eq
    /\ its2[i].eq \subseteq {p} \/ (i \in DOMAIN its /\ its2[i].eq \subseteq its[i].eq \cup {p})

\* The base weapons without those at p.
LeftBy(bs, bs2, p) == bs2 \subseteq bs /\ \A e \in bs2 : e.at # p

LEMMA TakesPlace ==
  ASSUME NEW its, NEW bs, Apart(its, bs), NEW p, NEW k, NEW its2, NEW bs2,
         Takes(its, its2, k, p), LeftBy(bs, bs2, p)
  PROVE  Apart(its2, bs2)
<1>1. \A i, j \in DOMAIN its2 : i # j => its2[i].eq \cap its2[j].eq = {}
  BY DEF Apart, Takes
<1> QED BY <1>1 DEF Apart, Takes, LeftBy

\* A handler that equips nothing.
LEMMA EquipsNothing ==
  ASSUME IInv, UNCHANGED disk, base' \subseteq base, LeavesPlaces(items, items'),
         NEW used, used \subseteq DOMAIN items, gone' = gone \cup used,
         \/ NoNew /\ DOMAIN items' \subseteq DOMAIN items \ used
         \/ HasRoom /\ Allocate /\ DOMAIN items' \subseteq (DOMAIN items \cup {NextId}) \ used
  PROVE  IInv'
<1>1. Upwards' /\ NoReuse'
  BY IdsAfter DEF IInv
<1>2. Apart(items', base')
  BY StillApart DEF IInv, InvPlaces
<1>3. Apart(disk.items, disk.base)
  BY DEF IInv, InvPlaces
<1> QED BY <1>1, <1>2, <1>3 DEF IInv, InvPlaces

\* One that destroys nothing either.
LEMMA DestroysNothing ==
  ASSUME IInv, UNCHANGED <<disk, gone>>, base' \subseteq base, LeavesPlaces(items, items'),
         \/ NoNew /\ DOMAIN items' \subseteq DOMAIN items
         \/ HasRoom /\ Allocate /\ DOMAIN items' \subseteq DOMAIN items \cup {NextId}
  PROVE  IInv'
<1>1. PICK used : used = {}
  OBVIOUS
<1>2. used \subseteq DOMAIN items /\ gone' = gone \cup used
  BY <1>1
<1>3. \/ NoNew /\ DOMAIN items' \subseteq DOMAIN items \ used
      \/ HasRoom /\ Allocate /\ DOMAIN items' \subseteq (DOMAIN items \cup {NextId}) \ used
  BY <1>1
<1> QED BY <1>2, <1>3, EquipsNothing

\* A step that leaves the items alone.
LEMMA ItemsAlone ==
  ASSUME IInv, UNCHANGED <<items, base, last, disk, gone>>
  PROVE  IInv'
BY DEF IInv, Upwards, NoReuse, InvPlaces, Apart

LEMMA EqIsThere == IInv => \A i \in DOMAIN items : "eq" \in DOMAIN items[i]
BY DEF IInv, InvPlaces, Apart

\* UnequipItem(class, slot): the items at the place leave it.
LEMMA AfterCleared ==
  ASSUME IInv, NEW p
  PROVE  /\ DOMAIN With(items, Cleared(p)) = DOMAIN items
         /\ LeavesPlaces(items, With(items, Cleared(p)))
         /\ \A i \in DOMAIN items : p \notin With(items, Cleared(p))[i].eq
BY EqIsThere DEF With, Cleared, Holders, LeavesPlaces

---------------------------------------------------------------------------
(* The loadout.                                                            *)

LEMMA EquipKeeps == IInv /\ Equip => IInv'
<1> SUFFICES ASSUME IInv, Equip PROVE IInv'
  OBVIOUS
<1>1. UNCHANGED <<disk, last, gone>>
  BY DEF Equip, NoNew, Alone
<1>2. PICK k, p : k = Head(inbox).item /\ p = Head(inbox).at
  OBVIOUS
<1>3. CASE ~Has(k)
  <2>1. UNCHANGED <<items, base>>
    BY <1>2, <1>3 DEF Equip
  <2> QED BY <1>1, <2>1, ItemsAlone
<1>4. CASE Has(k)
  <2> DEFINE worn == [items[k] EXCEPT !.eq = @ \cup {p}]
  <2>1. items' = With(items, With(Cleared(p), One(k, worn))) /\ base' = ClearBase(p)
    BY <1>2, <1>4 DEF Equip
  <2>2. DOMAIN items' = DOMAIN items
    BY <2>1, <1>4 DEF With, Cleared, Holders, One, Has
  <2>3. worn.eq = items[k].eq \cup {p} /\ "eq" \in DOMAIN worn
    BY <1>4, EqIsThere DEF Has
  <2>4. items'[k] = worn
    BY <2>1, <1>4 DEF With, One, Has
  <2>5. \A i \in DOMAIN items' : i # k => items'[i] = With(items, Cleared(p))[i]
    BY <2>1 DEF With, One, Cleared, Holders
  <2>6. Takes(items, items', k, p)
    BY <2>2, <2>3, <2>4, <2>5, AfterCleared DEF LeavesPlaces, Takes
  <2>7. LeftBy(base, base', p)
    BY <2>1 DEF ClearBase, LeftBy
  <2>8. Apart(items, base) /\ UNCHANGED disk
    BY <1>1 DEF IInv, InvPlaces
  <2>9. Apart(items', base')
    BY <2>6, <2>7, <2>8, TakesPlace
  <2> QED BY <1>1, <2>2, <2>9 DEF IInv, InvPlaces, Upwards, NoReuse
<1> QED BY <1>3, <1>4

LEMMA EquipBaseKeeps == IInv /\ EquipBase => IInv'
<1> SUFFICES ASSUME IInv, EquipBase PROVE IInv'
  OBVIOUS
<1> DEFINE q == Head(inbox)
           off == With(items, Cleared(q.at))
<1>1. UNCHANGED <<disk, last, gone>>
  BY DEF EquipBase, NoNew, Alone
<1>2. items' = off /\ base' = ClearBase(q.at) \cup {[def |-> q.def, at |-> q.at]}
  BY DEF EquipBase
<1>3. DOMAIN items' = DOMAIN items /\ LeavesPlaces(items, items') /\ \A i \in DOMAIN items' : q.at \notin items'[i].eq
  BY <1>2, AfterCleared
<1>4. Apart(items', ClearBase(q.at)) /\ \A e \in ClearBase(q.at) : e.at # q.at
  BY <1>3, StillApart DEF IInv, InvPlaces, ClearBase
<1>5. Apart(items', base')
  BY <1>2, <1>3, <1>4 DEF Apart
<1>6. Apart(disk.items, disk.base)'
  BY <1>1 DEF IInv, InvPlaces
<1> QED BY <1>1, <1>3, <1>5, <1>6 DEF IInv, InvPlaces, Upwards, NoReuse

LEMMA ClearPlaceKeeps == IInv /\ ClearPlace => IInv'
<1> SUFFICES ASSUME IInv, ClearPlace PROVE IInv'
  OBVIOUS
<1> DEFINE p == Head(inbox).at
<1>1. UNCHANGED <<disk, gone>> /\ NoNew
  BY DEF ClearPlace, Alone
<1>2. items' = With(items, Cleared(p)) /\ base' \subseteq base
  BY DEF ClearPlace, ClearBase
<1>3. DOMAIN items' = DOMAIN items /\ LeavesPlaces(items, items')
  BY <1>2, AfterCleared
<1> QED BY <1>1, <1>2, <1>3, DestroysNothing

LEMMA UnequipKeeps == IInv /\ Unequip => IInv'
<1> SUFFICES ASSUME IInv, Unequip PROVE IInv'
  OBVIOUS
<1> DEFINE i == Head(inbox).item
<1>1. UNCHANGED <<disk, base, gone>> /\ NoNew
  BY DEF Unequip, Alone
<1>2. CASE ~Has(i)
  <2>1. UNCHANGED items
    BY <1>2 DEF Unequip
  <2> QED BY <1>1, <2>1, ItemsAlone DEF NoNew
<1>3. CASE Has(i)
  <2>1. items' = With(items, One(i, [items[i] EXCEPT !.eq = {}]))
    BY <1>3 DEF Unequip
  <2>2. DOMAIN items' = DOMAIN items /\ LeavesPlaces(items, items')
    BY <2>1, <1>3, EqIsThere DEF With, One, Has, LeavesPlaces
  <2> QED BY <1>1, <2>2, DestroysNothing
<1> QED BY <1>2, <1>3

LEMMA UseItemKeeps == IInv /\ UseItem => IInv'
<1> SUFFICES ASSUME IInv, UseItem PROVE IInv'
  OBVIOUS
<1>1. UNCHANGED disk
  BY DEF UseItem, Alone
<1>2. PICK i, used : i = Head(inbox).item /\ used = {i}
  OBVIOUS
<1>3. CASE ~Has(i) \/ items[i].def # "spray"
  <2>1. UNCHANGED <<items, base, last, gone>>
    BY <1>2, <1>3 DEF UseItem
  <2> QED BY <1>1, <2>1, ItemsAlone
<1>4. CASE ~(~Has(i) \/ items[i].def # "spray")
  <2> DEFINE new == [items[i] EXCEPT !.def = "graffiti", !.eq = {Graffiti}]
             set == [new EXCEPT !.sprays = TRUE]
             off == Without(Cleared(Graffiti), {i})
  <2>1. HasRoom /\ Allocate /\ gone' = gone \cup used /\ used \subseteq DOMAIN items
    BY <1>2, <1>4 DEF UseItem, Destroy, Has
  <2>2. /\ items' = With(Without(With(items, off), {i}), One(NextId, set))
        /\ base' = ClearBase(Graffiti)
    BY <1>2, <1>4 DEF UseItem
  <2>3. NextId \notin DOMAIN items
    BY <2>1, NextIdIsNew DEF IInv
  <2>4. DOMAIN items' = (DOMAIN items \cup {NextId}) \ used
    BY <1>2, <2>1, <2>2, <2>3 DEF With, Without, Cleared, Holders, One
  <2>5. "eq" \in DOMAIN set /\ set.eq = {Graffiti}
    BY <1>4, EqIsThere DEF Has
  <2>6. items'[NextId] = set
    BY <2>2 DEF With, One
  <2>7. \A j \in DOMAIN items' : j # NextId => items'[j] = With(items, Cleared(Graffiti))[j]
    BY <1>2, <2>2, <2>4 DEF With, Without, One, Cleared, Holders
  <2>8. Takes(items, items', NextId, Graffiti)
    BY <2>4, <2>5, <2>6, <2>7, AfterCleared DEF LeavesPlaces, Takes
  <2>9. LeftBy(base, base', Graffiti)
    BY <2>2 DEF ClearBase, LeftBy
  <2>10. Apart(items, base) /\ Apart(disk.items, disk.base)'
    BY <1>1 DEF IInv, InvPlaces
  <2>11. Apart(items', base')
    BY <2>8, <2>9, <2>10, TakesPlace
  <2>12. Upwards' /\ NoReuse'
    BY <1>1, <2>1, <2>4, IdsAfter DEF IInv
  <2> QED BY <2>10, <2>11, <2>12 DEF IInv, InvPlaces
<1> QED BY <1>3, <1>4

---------------------------------------------------------------------------
(* Crates, the store, deletion.                                            *)

LEMMA FreshIsBare == \A def : "eq" \in DOMAIN Fresh(def) /\ Fresh(def).eq = {}
BY DEF Fresh

LEMMA UnlockCrateKeeps == IInv /\ UnlockCrate => IInv'
<1> SUFFICES ASSUME IInv, UnlockCrate PROVE IInv'
  OBVIOUS
<1>1. UNCHANGED <<disk, base>>
  BY DEF UnlockCrate, Alone
<1>2. PICK i, k : i = Head(inbox).item /\ k = Head(inbox).with
  OBVIOUS
<1>3. CASE ~Has(i) \/ items[i].def # "crate"
  <2>1. UNCHANGED <<items, last, gone>>
    BY <1>2, <1>3 DEF UnlockCrate
  <2> QED BY <1>1, <2>1, ItemsAlone
<1>4. CASE ~(~Has(i) \/ items[i].def # "crate")
  <2>1. HasRoom /\ Allocate
    BY <1>2, <1>4 DEF UnlockCrate
  <2>2. PICK def, used :
          /\ used = IF world.destroy THEN {i} \cup ({k} \cap DOMAIN items) ELSE {}
          /\ items' = Without(With(items, One(NextId, Fresh(def))), used) /\ gone' = gone \cup used
    BY <1>2, <1>4 DEF UnlockCrate, Destroy
  <2>3. used \subseteq DOMAIN items
    BY <1>4, <2>2 DEF Has
  <2>4. DOMAIN items' \subseteq (DOMAIN items \cup {NextId}) \ used
    BY <2>2 DEF With, Without, One
  <2>5. LeavesPlaces(items, items')
    BY <2>2, FreshIsBare, EqIsThere DEF With, Without, One, LeavesPlaces
  <2> QED BY <1>1, <2>1, <2>2, <2>3, <2>4, <2>5, EquipsNothing
<1> QED BY <1>3, <1>4

LEMMA StorePurchaseInitKeeps == IInv /\ StorePurchaseInit => IInv'
<1> SUFFICES ASSUME IInv, StorePurchaseInit PROVE IInv'
  OBVIOUS
<1>1. UNCHANGED <<disk, base, gone>> /\ HasRoom /\ Allocate
  BY DEF StorePurchaseInit, Alone
<1>2. PICK def : items' = With(items, One(NextId, Fresh(def)))
  BY DEF StorePurchaseInit
<1>3. DOMAIN items' \subseteq DOMAIN items \cup {NextId} /\ LeavesPlaces(items, items')
  BY <1>2, FreshIsBare, EqIsThere DEF With, One, LeavesPlaces
<1> QED BY <1>1, <1>3, DestroysNothing

LEMMA DeleteItemKeeps == IInv /\ DeleteItem => IInv'
<1> SUFFICES ASSUME IInv, DeleteItem PROVE IInv'
  OBVIOUS
<1>1. UNCHANGED <<disk, base>> /\ NoNew
  BY DEF DeleteItem, Alone
<1>2. PICK i, used : i = Head(inbox).item /\ used = {i}
  OBVIOUS
<1>3. CASE ~Has(i)
  <2>1. UNCHANGED <<items, gone>>
    BY <1>2, <1>3 DEF DeleteItem
  <2> QED BY <1>1, <2>1, ItemsAlone DEF NoNew
<1>4. CASE Has(i)
  <2>1. items' = Without(items, used) /\ gone' = gone \cup used /\ used \subseteq DOMAIN items
    BY <1>2, <1>4 DEF DeleteItem, Destroy, Has
  <2>2. DOMAIN items' \subseteq DOMAIN items \ used /\ LeavesPlaces(items, items')
    BY <2>1, EqIsThere DEF Without, LeavesPlaces
  <2> QED BY <1>1, <2>1, <2>2, EquipsNothing
<1> QED BY <1>3, <1>4

LEMMA SetItemPositionsKeeps == IInv /\ SetItemPositions => IInv'
<1> SUFFICES ASSUME IInv, SetItemPositions PROVE IInv'
  OBVIOUS
<1>1. UNCHANGED <<disk, base, gone>> /\ NoNew
  BY DEF SetItemPositions, Alone
<1>2. PICK ids, at : ids = Head(inbox).items /\ at = Head(inbox).pos
  OBVIOUS
<1> DEFINE found == {k \in 1..Len(ids) : \A m \in 1..k : Has(ids[m])}
           moved == [i \in {ids[k] : k \in found} |-> [items[i] EXCEPT !.pos = at]]
<1>3. items' = With(items, moved)
  BY <1>2 DEF SetItemPositions
<1>4. \A k \in found : ids[k] \in DOMAIN items
  BY DEF Has
<1>5. DOMAIN moved \subseteq DOMAIN items
  BY <1>4
<1>6. DOMAIN items' \subseteq DOMAIN items /\ LeavesPlaces(items, items')
  BY <1>3, <1>5, EqIsThere DEF With, LeavesPlaces
<1> QED BY <1>1, <1>6, DestroysNothing

---------------------------------------------------------------------------
(* Stickers, names, kills.                                                 *)

\* An item that is set keeps its places; what is used is gone.
LEMMA SetsOne ==
  ASSUME IInv, UNCHANGED <<disk, base>>, NoNew, NEW i, NEW item, NEW used, used \subseteq DOMAIN items,
         Has(i), "eq" \in DOMAIN item, item.eq \subseteq items[i].eq,
         items' = Without(With(items, One(i, item)), used), gone' = gone \cup used
  PROVE  IInv'
<1>1. DOMAIN items' \subseteq DOMAIN items \ used
  BY DEF With, Without, One, Has
<1>2. LeavesPlaces(items, items')
  BY EqIsThere DEF With, Without, One, LeavesPlaces, Has
<1> QED BY <1>1, <1>2, EquipsNothing

\* The same when nothing is used.
LEMMA SetsOnly ==
  ASSUME IInv, UNCHANGED <<disk, base, gone>>, NoNew, NEW i, NEW item,
         Has(i), "eq" \in DOMAIN item, item.eq \subseteq items[i].eq, items' = With(items, One(i, item))
  PROVE  IInv'
<1>1. DOMAIN items' \subseteq DOMAIN items /\ LeavesPlaces(items, items')
  BY EqIsThere DEF With, One, LeavesPlaces, Has
<1> QED BY <1>1, DestroysNothing

\* A new item that is nowhere equipped; what is used is gone.
LEMMA MakesOne ==
  ASSUME IInv, UNCHANGED <<disk, base>>, HasRoom, Allocate, NEW item, NEW used, used \subseteq DOMAIN items,
         "eq" \in DOMAIN item, item.eq = {},
         items' = Without(With(items, One(NextId, item)), used), gone' = gone \cup used
  PROVE  IInv'
<1>1. DOMAIN items' \subseteq (DOMAIN items \cup {NextId}) \ used
  BY DEF With, Without, One
<1>2. LeavesPlaces(items, items')
  BY EqIsThere DEF With, Without, One, LeavesPlaces
<1> QED BY <1>1, <1>2, EquipsNothing

LEMMA UsedIsThere == \A i : Used(i) \subseteq DOMAIN items
BY DEF Used

LEMMA ApplyStickerKeeps == IInv /\ ApplySticker => IInv'
<1> SUFFICES ASSUME IInv, ApplySticker PROVE IInv'
  OBVIOUS
<1>1. UNCHANGED <<disk, base>>
  BY DEF ApplySticker, Alone
<1>2. PICK i, s : i = Head(inbox).item /\ s = Head(inbox).with
  OBVIOUS
<1>3. CASE ~Has(s) \/ (i # 0 /\ ~Has(i))
  <2>1. UNCHANGED <<items, last, gone>>
    BY <1>2, <1>3 DEF ApplySticker
  <2> QED BY <1>1, <2>1, ItemsAlone
<1>4. ASSUME ~(~Has(s) \/ (i # 0 /\ ~Has(i))) PROVE IInv'
  <2> DEFINE kit == items[s].sticker
             old == IF i = 0 THEN Fresh("base") ELSE items[i]
             item == [old EXCEPT !.sticker = IF kit = Bare THEN @ ELSE kit]
             used == IF kit = Bare THEN {} ELSE Used(s)
  <2>1. /\ i = 0 => HasRoom
        /\ IF i = 0 THEN Allocate ELSE NoNew
        /\ items' = Without(With(items, One(IF i = 0 THEN NextId ELSE i, item)), used)
        /\ gone' = gone \cup used
    BY <1>2, <1>4 DEF ApplySticker, Destroy
  <2>2. used \subseteq DOMAIN items
    BY UsedIsThere
  <2>3. "eq" \in DOMAIN item /\ item.eq = old.eq
    BY <1>4, EqIsThere, FreshIsBare DEF Has
  <2>4. CASE i = 0
    <3>1. item.eq = {}
      BY <2>3, <2>4, FreshIsBare
    <3> HIDE DEF item, used
    <3> QED BY <1>1, <2>1, <2>2, <2>3, <2>4, <3>1, MakesOne
  <2>5. CASE i # 0
    <3>1. Has(i) /\ item.eq \subseteq items[i].eq
      BY <1>4, <2>3, <2>5
    <3> HIDE DEF item, used
    <3> QED BY <1>1, <2>1, <2>2, <2>3, <2>5, <3>1, SetsOne
  <2> QED BY <2>4, <2>5
<1> QED BY <1>3, <1>4

LEMMA StrippedKeeps ==
  ASSUME IInv, UNCHANGED <<disk, base>>, NoNew, NEW i, NEW item, Has(i), "eq" \in DOMAIN item,
         item.eq = items[i].eq, Stripped(i, item)
  PROVE  IInv'
<1>1. CASE items[i].def = "base"
  <2>1. PICK used : used = {i}
    OBVIOUS
  <2>2. items' = Without(items, used) /\ gone' = gone \cup used /\ used \subseteq DOMAIN items
    BY <1>1, <2>1 DEF Stripped, Destroy, Has
  <2>3. DOMAIN items' \subseteq DOMAIN items \ used /\ LeavesPlaces(items, items')
    BY <2>2, EqIsThere DEF Without, LeavesPlaces
  <2> QED BY <2>2, <2>3, EquipsNothing
<1>2. CASE items[i].def # "base"
  BY <1>2, SetsOnly DEF Stripped
<1> QED BY <1>1, <1>2

LEMMA ScrapeStickerKeeps == IInv /\ ScrapeSticker => IInv'
<1> SUFFICES ASSUME IInv, ScrapeSticker PROVE IInv'
  OBVIOUS
<1>1. UNCHANGED <<disk, base>> /\ NoNew
  BY DEF ScrapeSticker, Alone
<1>2. PICK i : i = Head(inbox).item
  OBVIOUS
<1>3. CASE ~Has(i)
  <2>1. UNCHANGED <<items, gone>>
    BY <1>2, <1>3 DEF ScrapeSticker
  <2> QED BY <1>1, <2>1, ItemsAlone DEF NoNew
<1>4. CASE Has(i) /\ items[i].sticker \in 0..(Wear - 1)
  <2> DEFINE item == [items[i] EXCEPT !.sticker = @ + 1]
  <2>1. items' = With(items, One(i, item)) /\ UNCHANGED gone
    BY <1>2, <1>4 DEF ScrapeSticker
  <2>2. "eq" \in DOMAIN item /\ item.eq \subseteq items[i].eq
    BY <1>4, EqIsThere DEF Has
  <2> HIDE DEF item
  <2> QED BY <1>1, <1>4, <2>1, <2>2, SetsOnly
<1>5. CASE Has(i) /\ items[i].sticker \notin 0..(Wear - 1)
  <2> DEFINE item == [items[i] EXCEPT !.sticker = Bare]
  <2>1. Stripped(i, item)
    BY <1>2, <1>5 DEF ScrapeSticker
  <2>2. "eq" \in DOMAIN item /\ item.eq = items[i].eq
    BY <1>5, EqIsThere DEF Has
  <2> HIDE DEF item
  <2> QED BY <1>1, <1>5, <2>1, <2>2, StrippedKeeps
<1> QED BY <1>3, <1>4, <1>5

LEMMA RemoveItemNameKeeps == IInv /\ RemoveItemName => IInv'
<1> SUFFICES ASSUME IInv, RemoveItemName PROVE IInv'
  OBVIOUS
<1>1. UNCHANGED <<disk, base>> /\ NoNew
  BY DEF RemoveItemName, Alone
<1>2. PICK i : i = Head(inbox).item
  OBVIOUS
<1>3. CASE ~Has(i)
  <2>1. UNCHANGED <<items, gone>>
    BY <1>2, <1>3 DEF RemoveItemName
  <2> QED BY <1>1, <2>1, ItemsAlone DEF NoNew
<1>4. CASE Has(i)
  <2> DEFINE item == [items[i] EXCEPT !.name = None]
  <2>1. Stripped(i, item)
    BY <1>2, <1>4 DEF RemoveItemName
  <2>2. "eq" \in DOMAIN item /\ item.eq = items[i].eq
    BY <1>4, EqIsThere DEF Has
  <2> HIDE DEF item
  <2> QED BY <1>1, <1>4, <2>1, <2>2, StrippedKeeps
<1> QED BY <1>3, <1>4

LEMMA NameItemKeeps == IInv /\ NameItem => IInv'
<1> SUFFICES ASSUME IInv, NameItem PROVE IInv'
  OBVIOUS
<1>1. UNCHANGED <<disk, base>> /\ NoNew
  BY DEF NameItem, Alone
<1>2. PICK q : q = Head(inbox)
  OBVIOUS
<1>3. CASE ~Has(q.item)
  <2>1. UNCHANGED <<items, gone>>
    BY <1>2, <1>3 DEF NameItem
  <2> QED BY <1>1, <2>1, ItemsAlone DEF NoNew
<1>4. CASE Has(q.item)
  <2> DEFINE old == items[q.item]
             item == [old EXCEPT !.name = q.name, !.count = IF old.def = "casket" /\ @ = -1 THEN 0 ELSE @]
             used == IF q.with = 0 THEN {} ELSE Used(q.with)
  <2>1. items' = Without(With(items, One(q.item, item)), used) /\ gone' = gone \cup used
    BY <1>2, <1>4 DEF NameItem, Destroy
  <2>2. "eq" \in DOMAIN item /\ item.eq \subseteq items[q.item].eq
    BY <1>4, EqIsThere DEF Has
  <2>3. used \subseteq DOMAIN items
    BY UsedIsThere
  <2> HIDE DEF item, used
  <2> QED BY <1>1, <1>4, <2>1, <2>2, <2>3, SetsOne
<1> QED BY <1>3, <1>4

LEMMA NameBaseItemKeeps == IInv /\ NameBaseItem => IInv'
<1> SUFFICES ASSUME IInv, NameBaseItem PROVE IInv'
  OBVIOUS
<1>1. UNCHANGED <<disk, base>> /\ HasRoom /\ Allocate
  BY DEF NameBaseItem, Alone
<1>2. PICK item, t : /\ item = [Fresh("base") EXCEPT !.name = Head(inbox).name]
                     /\ items' = Without(With(items, One(NextId, item)), Used(t)) /\ gone' = gone \cup Used(t)
  BY DEF NameBaseItem, Destroy
<1>3. "eq" \in DOMAIN item /\ item.eq = {}
  BY <1>2, FreshIsBare
<1> QED BY <1>1, <1>2, <1>3, UsedIsThere, MakesOne

LEMMA IncrementKillCountKeeps == IInv /\ IncrementKillCount => IInv'
<1> SUFFICES ASSUME IInv, IncrementKillCount PROVE IInv'
  OBVIOUS
<1>1. UNCHANGED <<disk, base, gone>> /\ NoNew
  BY DEF IncrementKillCount, Alone
<1>2. PICK i : i = Head(inbox).item
  OBVIOUS
<1>3. CASE ~Has(i) \/ items[i].kills = -1
  <2>1. UNCHANGED items
    BY <1>2, <1>3 DEF IncrementKillCount
  <2> QED BY <1>1, <2>1, ItemsAlone DEF NoNew
<1>4. CASE ~(~Has(i) \/ items[i].kills = -1)
  <2> DEFINE item == [items[i] EXCEPT !.kills = @ + 1]
  <2>1. items' = With(items, One(i, item))
    BY <1>2, <1>4 DEF IncrementKillCount
  <2>2. "eq" \in DOMAIN item /\ item.eq \subseteq items[i].eq
    BY <1>4, EqIsThere DEF Has
  <2> HIDE DEF item
  <2> QED BY <1>1, <1>4, <2>1, <2>2, SetsOnly
<1> QED BY <1>3, <1>4

---------------------------------------------------------------------------
(* Storage units, the copies, the process.                                 *)

LEMMA CasketKeeps ==
  ASSUME IInv, NEW op, NEW delta, NEW box, Casket(op, delta, box)
  PROVE  IInv'
<1>1. UNCHANGED <<disk, base, gone>> /\ NoNew
  BY DEF Casket, Alone
<1>2. PICK c, i : c = Head(inbox).with /\ i = Head(inbox).item
  OBVIOUS
<1>3. CASE ~Has(c) \/ ~Has(i) \/ items[c].def # "casket" \/ ~Counts(c, delta)
  <2>1. UNCHANGED items
    BY <1>2, <1>3 DEF Casket
  <2> QED BY <1>1, <2>1, ItemsAlone DEF NoNew
<1>4. ASSUME ~(~Has(c) \/ ~Has(i) \/ items[c].def # "casket" \/ ~Counts(c, delta)) PROVE IInv'
  <2> DEFINE stored == [items[i] EXCEPT !.box = IF box THEN c ELSE 0, !.eq = IF box THEN {} ELSE @]
             unit == [items[c] EXCEPT !.count = @ + delta]
  <2>1. items' = With(items, With(One(c, unit), One(i, stored)))
    BY <1>2, <1>4 DEF Casket
  <2>2. "eq" \in DOMAIN stored /\ stored.eq \subseteq items[i].eq
    BY <1>4, EqIsThere DEF Has
  <2>3. "eq" \in DOMAIN unit /\ unit.eq = items[c].eq
    BY <1>4, EqIsThere DEF Has
  <2> HIDE DEF stored, unit
  <2>4. DOMAIN items' \subseteq DOMAIN items /\ LeavesPlaces(items, items')
    BY <1>4, <2>1, <2>2, <2>3, EqIsThere DEF With, One, LeavesPlaces, Has
  <2> QED BY <1>1, <2>4, DestroysNothing
<1> QED BY <1>3, <1>4

\* A file in order is a process in order.
LEMMA StartKeeps ==
  ASSUME NEW file, Start(file), DOMAIN file.items \subseteq ItemIds, Apart(file.items, file.base)
  PROVE  IInv'
<1>1. DOMAIN file.items \cup {0} \subseteq 0..Ids /\ Ids \in Nat
  BY BoundsAreNatural DEF ItemIds
<1>2. last' \in Nat /\ \A i \in DOMAIN file.items : i <= last'
  BY <1>1, GreatestOf DEF Start
<1>3. items' = file.items /\ base' = file.base /\ disk' = file /\ gone' = {}
  BY DEF Start
<1>4. Apart(items', base') /\ Apart(disk'.items, disk'.base)
  BY <1>3
<1> QED BY <1>2, <1>3, <1>4 DEF IInv, Upwards, NoReuse, InvPlaces

\* An item of the file lost places only, and one of each class is left.
LEMMA FileKeeps ==
  ASSUME NEW its, \A i \in DOMAIN its : "eq" \in DOMAIN its[i], NEW new \in FileItems(its)
  PROVE  /\ DOMAIN new = DOMAIN its
         /\ \A i \in DOMAIN its : /\ new[i] = [its[i] EXCEPT !.eq = new[i].eq]
                                /\ "eq" \in DOMAIN new[i] /\ new[i].eq \subseteq its[i].eq
                                /\ OfEachClass(new[i].eq, its[i].eq)
<1>1. PICK kept \in SUBSET Places :
        /\ \A i \in DOMAIN its : OfEachClass(its[i].eq \cap kept, its[i].eq)
        /\ new = [i \in DOMAIN its |-> [its[i] EXCEPT !.eq = @ \cap kept]]
  BY DEF FileItems
<1>2. ASSUME NEW i \in DOMAIN its
      PROVE  /\ new[i] = [its[i] EXCEPT !.eq = its[i].eq \cap kept] /\ new[i].eq = its[i].eq \cap kept
             /\ "eq" \in DOMAIN new[i]
  BY <1>1, <1>2
<1>3. ASSUME NEW i \in DOMAIN its PROVE OfEachClass(new[i].eq, its[i].eq) /\ new[i].eq \subseteq its[i].eq
  <2>1. OfEachClass(its[i].eq \cap kept, its[i].eq)
    BY <1>1
  <2> QED BY <1>2, <2>1
<1>4. DOMAIN new = DOMAIN its
  BY <1>1
<1> QED BY <1>2, <1>3, <1>4

LEMMA FileIs ==
  ASSUME NEW file \in Written, ~Unreadable(items)
  PROVE  file.items \in FileItems(items) /\ file.base \in FileBases(base) /\ file.base \subseteq base
BY DEF Written, FileBases

LEMMA DieKeeps == IInv /\ Die => IInv'
BY StartKeeps DEF Die, IInv, Upwards, InvPlaces

LEMMA ExitKeeps == IInv /\ Exit => IInv'
<1> SUFFICES ASSUME IInv, NEW file \in Written, Start(file) PROVE IInv'
  BY DEF Exit
<1>1. CASE Unreadable(items)
  <2>1. file = [items |-> <<>>, base |-> {}]
    BY <1>1 DEF Written
  <2>2. DOMAIN file.items = {} /\ file.base = {}
    BY <2>1
  <2> QED BY <2>2, StartKeeps DEF Apart
<1>2. CASE ~Unreadable(items)
  <2>1. file.items \in FileItems(items) /\ file.base \subseteq base
    BY <1>2, FileIs
  <2>2. DOMAIN file.items = DOMAIN items /\ LeavesPlaces(items, file.items)
    BY <2>1, FileKeeps, EqIsThere DEF LeavesPlaces
  <2>3. Apart(file.items, file.base)
    BY <2>1, <2>2, StillApart DEF IInv, InvPlaces
  <2> QED BY <2>2, <2>3, StartKeeps DEF IInv, Upwards
<1> QED BY <1>1, <1>2

\* What the game asks, and where it plays, is not about the items.
LEMMA GameKeeps ==
  ASSUME IInv, AskLoadout \/ AskItems \/ AskNames \/ AskCaskets \/ AskKill \/ Join \/ LeaveServer
               \/ OnClientHello \/ HandleSOCacheRequest
  PROVE  IInv'
<1>1. UNCHANGED <<items, base, last, disk, gone>>
  BY DEF AskLoadout, AskItems, AskNames, AskCaskets, AskKill, Join, LeaveServer, OnClientHello,
         HandleSOCacheRequest, Ask
<1> QED BY <1>1, ItemsAlone

---------------------------------------------------------------------------
(* The theorems.                                                           *)

LEMMA InitIInv == Init => IInv
<1> SUFFICES ASSUME Init PROVE IInv
  OBVIOUS
<1>1. DOMAIN items \cup {0} \subseteq 0..Ids /\ Ids \in Nat /\ DOMAIN items \subseteq ItemIds
  BY BoundsAreNatural, StockIsInOrder DEF Init, ItemIds
<1>2. last \in Nat /\ \A i \in DOMAIN items : i <= last
  BY <1>1, GreatestOf DEF Init
<1>3. Apart(items, base) /\ disk.items = items /\ disk.base = base /\ gone = {}
  BY StockIsInOrder DEF Init, Apart
<1> QED BY <1>1, <1>2, <1>3 DEF IInv, Upwards, NoReuse, InvPlaces

LEMMA NextIInv == IInv /\ [Next]_vars => IInv'
<1> SUFFICES ASSUME IInv, [Next]_vars PROVE IInv'
  OBVIOUS
<1>1. CASE Handle
  <2>1. CasketItemAdd \/ CasketItemExtract => IInv'
    BY CasketKeeps DEF CasketItemAdd, CasketItemExtract
  <2> QED BY <1>1, <2>1, EquipKeeps, EquipBaseKeeps, ClearPlaceKeeps, UnequipKeeps, UseItemKeeps,
             UnlockCrateKeeps, StorePurchaseInitKeeps, DeleteItemKeeps, SetItemPositionsKeeps,
             ApplyStickerKeeps, ScrapeStickerKeeps, RemoveItemNameKeeps, NameItemKeeps,
             NameBaseItemKeeps, IncrementKillCountKeeps, GameKeeps DEF Handle
<1>2. CASE AskLoadout \/ AskItems \/ AskNames \/ AskCaskets \/ AskKill \/ Join \/ LeaveServer
  BY <1>2, GameKeeps
<1>3. CASE Exit \/ Die
  BY <1>3, ExitKeeps, DieKeeps
<1>4. CASE UNCHANGED vars
  BY <1>4, ItemsAlone DEF vars
<1> QED BY <1>1, <1>2, <1>3, <1>4 DEF Next

\* IdsAreNotReused: however many items are made, destroyed and read back, AllocateItem never
\* gives an id that was destroyed in this process (NoReuse).
THEOREM IdsAreNotReused == Spec => []NoReuse
<1>1. IInv => NoReuse
  BY DEF IInv
<1> QED BY <1>1, InitIInv, NextIInv, PTL DEF Spec

\* At most one thing at a place, as a number.
LEMMA AtMostOne ==
  ASSUME NEW S, \A x, y \in S : x = y
  PROVE  Cardinality(S) \in {0, 1} /\ (Cardinality(S) = 1 => S # {})
<1>1. CASE S = {}
  BY <1>1, FS_EmptySet
<1>2. CASE S # {}
  <2>1. PICK x : S = {x}
    BY <1>2
  <2> QED BY <1>2, <2>1, FS_Singleton
<1> QED BY <1>1, <1>2

\* OneThingPerPlace: whatever is equipped, unsealed, stored, destroyed and read back, no two
\* items and base weapons share a place (OnePerPlace; UnequipItem before every equip).
THEOREM OneThingPerPlace == Spec => []OnePerPlace
<1>1. ASSUME IInv PROVE OnePerPlace
  <2> SUFFICES ASSUME NEW p \in Places
               PROVE  Cardinality(Holders(p)) + Cardinality({e \in base : e.at = p}) <= 1
    BY DEF OnePerPlace
  <2> DEFINE A == Holders(p)
             B == {e \in base : e.at = p}
  <2>1. (\A i, j \in A : i = j) /\ (\A d, e \in B : d = e) /\ (A = {} \/ B = {})
    BY <1>1 DEF IInv, InvPlaces, Apart, Holders
  <2> HIDE DEF A, B
  <2>2. /\ Cardinality(A) \in {0, 1} /\ (Cardinality(A) = 1 => A # {})
        /\ Cardinality(B) \in {0, 1} /\ (Cardinality(B) = 1 => B # {})
    BY <2>1, AtMostOne
  <2>3. Cardinality(A) + Cardinality(B) <= 1
    BY <2>1, <2>2
  <2> QED BY <2>3 DEF A, B
<1> QED BY <1>1, InitIInv, NextIInv, PTL DEF Spec

---------------------------------------------------------------------------
(* The types, and what waits.                                              *)

Waits == {inbox[k] : k \in 1..Len(inbox)}
Queue == \E S : inbox \in Seq(S)

\* A request names places, base weapons and names that exist, and is one the game makes.
RequestOK(r) ==
  /\ r.op \in {"hello", "cache"} \cup world.ops
  /\ r.op \in {"equip", "base", "clear"} => r.at \in Places
  /\ r.op = "base" => r.def \in Bases
  /\ r.op = "buy" => r.def \in {"tag", "gun"}
  /\ r.op = "move" => r.pos \in 0..1 /\ Len(r.items) \in Nat
  /\ r.op \in {"name", "namebase"} => r.name \in {"plain", "quoted"}
Requests == \A r \in Waits : RequestOK(r)

\* The game server asks for one kill at a time, and counts on what it was told.
KillIsCounted ==
  /\ \A k \in 1..Len(inbox) : inbox[k].op = "kill" =>
       /\ inbox[k].item \in ItemIds /\ inbox[k].item <= last
       /\ Has(inbox[k].item) => items[inbox[k].item].kills < Kills
       /\ \A m \in 1..Len(inbox) : inbox[m].op = "kill" => m = k
  /\ ~joined => DOMAIN server.items = {}
  /\ \A i \in DOMAIN server.items : i <= last /\ (Has(i) => items[i].kills <= server.items[i].kills)

TInv == IInv /\ TypeOK /\ Queue /\ Requests /\ KillIsCounted

\* An item as the game knows it, without the sprays.
Plain(x) == [x EXCEPT !.sprays = FALSE]

LEMMA Counters ==
  /\ Ids \in Nat /\ Wear \in Nat /\ Capacity \in Nat /\ Kills \in Nat /\ Room \in Nat
  /\ \A i \in ItemIds : i \in Int /\ i # 0 /\ i >= 1
BY BoundsAreNatural DEF ItemIds

LEMMA PlainFields ==
  ASSUME NEW x \in Item, NEW y \in Item, Plain(x) = Plain(y)
  PROVE  /\ x.def = y.def /\ x.name = y.name /\ x.sticker = y.sticker /\ x.pos = y.pos /\ x.box = y.box
         /\ x.count = y.count /\ x.kills = y.kills /\ x.eq = y.eq
<1>1. /\ x = [def |-> x.def, name |-> x.name, sticker |-> x.sticker, pos |-> x.pos, box |-> x.box,
              count |-> x.count, kills |-> x.kills, sprays |-> x.sprays, eq |-> x.eq]
      /\ y = [def |-> y.def, name |-> y.name, sticker |-> y.sticker, pos |-> y.pos, box |-> y.box,
              count |-> y.count, kills |-> y.kills, sprays |-> y.sprays, eq |-> y.eq]
  BY DEF Item
<1>2. /\ Plain(x).def = x.def /\ Plain(x).name = x.name /\ Plain(x).sticker = x.sticker /\ Plain(x).pos = x.pos
      /\ Plain(x).box = x.box /\ Plain(x).count = x.count /\ Plain(x).kills = x.kills /\ Plain(x).eq = x.eq
  BY DEF Item, Plain
<1>3. /\ Plain(y).def = y.def /\ Plain(y).name = y.name /\ Plain(y).sticker = y.sticker /\ Plain(y).pos = y.pos
      /\ Plain(y).box = y.box /\ Plain(y).count = y.count /\ Plain(y).kills = y.kills /\ Plain(y).eq = y.eq
  BY DEF Item, Plain
<1> QED BY <1>2, <1>3

LEMMA ItemEdits ==
  ASSUME NEW x \in Item
  PROVE  /\ \A S \in SUBSET Places : [x EXCEPT !.eq = S] \in Item
         /\ \A n \in {None, "plain", "quoted"} : [x EXCEPT !.name = n] \in Item
         /\ \A s \in Bare..Patch : [x EXCEPT !.sticker = s] \in Item
         /\ \A n \in 0..1 : [x EXCEPT !.pos = n] \in Item
         /\ \A k \in -1..Kills : [x EXCEPT !.kills = k] \in Item
         /\ \A k \in -1..Capacity : [x EXCEPT !.count = k] \in Item
         /\ \A b \in 0..Ids : [x EXCEPT !.box = b] \in Item
         /\ \A b \in BOOLEAN : [x EXCEPT !.sprays = b] \in Item
         /\ \A d \in Defs : [x EXCEPT !.def = d] \in Item
<1>1. \A S \in SUBSET Places : [x EXCEPT !.eq = S] \in Item
  BY DEF Item
<1>2. \A n \in {None, "plain", "quoted"} : [x EXCEPT !.name = n] \in Item
  BY DEF Item
<1>3. \A s \in Bare..Patch : [x EXCEPT !.sticker = s] \in Item
  BY DEF Item
<1>4. \A n \in 0..1 : [x EXCEPT !.pos = n] \in Item
  BY DEF Item
<1>5. \A k \in -1..Kills : [x EXCEPT !.kills = k] \in Item
  BY DEF Item
<1>6. \A k \in -1..Capacity : [x EXCEPT !.count = k] \in Item
  BY DEF Item
<1>7. \A b \in 0..Ids : [x EXCEPT !.box = b] \in Item
  BY DEF Item
<1>8. \A b \in BOOLEAN : [x EXCEPT !.sprays = b] \in Item
  BY DEF Item
<1>9. \A d \in Defs : [x EXCEPT !.def = d] \in Item
  BY DEF Item
<1> QED BY <1>1, <1>2, <1>3, <1>4, <1>5, <1>6, <1>7, <1>8, <1>9

LEMMA FreshIsItem ==
  ASSUME NEW d \in Defs
  PROVE  /\ Fresh(d) \in Item /\ Fresh(d).def = d /\ Fresh(d).box = 0 /\ Fresh(d).count = -1 /\ Fresh(d).eq = {}
         /\ d \in {"sticker", "patch"} => Fresh(d).sticker # Bare
         /\ d # "stattrak" => Fresh(d).kills = -1
<1>1. Bare = -1 /\ Patch = Wear + 1 /\ -1 \in Bare..Patch /\ 0 \in Bare..Patch /\ Patch \in Bare..Patch
  BY Counters DEF Bare, Patch
<1>2. -1 \in -1..Capacity /\ -1 \in -1..Kills /\ 0 \in -1..Kills /\ 0 \in 0..Ids
  BY Counters
<1>3. Fresh(d) \in Item
  BY <1>1, <1>2 DEF Fresh, Item
<1>4. Patch # Bare /\ 0 # Bare
  BY Counters DEF Bare, Patch
<1> QED BY <1>3, <1>4 DEF Fresh

LEMMA WithItems ==
  ASSUME NEW f, NEW g, ItemsOK(f), ItemsOK(g)
  PROVE  /\ ItemsOK(With(f, g)) /\ DOMAIN With(f, g) = DOMAIN f \cup DOMAIN g
         /\ \A i \in DOMAIN g : With(f, g)[i] = g[i]
         /\ \A i \in DOMAIN f \ DOMAIN g : With(f, g)[i] = f[i]
BY DEF With, ItemsOK

LEMMA WithoutItems ==
  ASSUME NEW f, NEW ids, ItemsOK(f)
  PROVE  /\ ItemsOK(Without(f, ids)) /\ DOMAIN Without(f, ids) = DOMAIN f \ ids
         /\ \A i \in DOMAIN f \ ids : Without(f, ids)[i] = f[i]
BY DEF Without, ItemsOK

LEMMA OneItem ==
  ASSUME NEW i \in ItemIds, NEW x \in Item
  PROVE  ItemsOK(One(i, x)) /\ DOMAIN One(i, x) = {i} /\ One(i, x)[i] = x
BY DEF One, ItemsOK

LEMMA ClearedItems ==
  ASSUME ItemsOK(items), NEW p
  PROVE  /\ ItemsOK(Cleared(p)) /\ DOMAIN Cleared(p) \subseteq DOMAIN items
         /\ \A i \in DOMAIN Cleared(p) :
              /\ Cleared(p)[i].def = items[i].def /\ Cleared(p)[i].box = items[i].box /\ Cleared(p)[i].count = items[i].count
              /\ Cleared(p)[i].kills = items[i].kills /\ Cleared(p)[i].sticker = items[i].sticker
<1>1. \A i \in Holders(p) : i \in DOMAIN items /\ items[i] \in Item
  BY DEF Holders, ItemsOK
<1>2. ASSUME NEW i \in Holders(p)
      PROVE  /\ Cleared(p)[i] \in Item
             /\ Cleared(p)[i].def = items[i].def /\ Cleared(p)[i].box = items[i].box /\ Cleared(p)[i].count = items[i].count
             /\ Cleared(p)[i].kills = items[i].kills /\ Cleared(p)[i].sticker = items[i].sticker
  <2>1. PICK x \in Item : x = items[i]
    BY <1>1, <1>2
  <2>2. Cleared(p)[i] = [x EXCEPT !.eq = x.eq \ {p}]
    BY <1>2, <2>1 DEF Cleared
  <2>3. x.eq \ {p} \in SUBSET Places
    BY <2>1 DEF Item
  <2>4. [x EXCEPT !.eq = x.eq \ {p}] \in Item
    BY <2>3, ItemEdits
  <2>5. PICK y : y = [x EXCEPT !.eq = x.eq \ {p}]
    OBVIOUS
  <2>6. y.def = x.def /\ y.box = x.box /\ y.count = x.count /\ y.kills = x.kills /\ y.sticker = x.sticker
    BY <2>1, <2>5 DEF Item
  <2> QED BY <2>1, <2>2, <2>4, <2>5, <2>6
<1>3. DOMAIN Cleared(p) = Holders(p)
  BY DEF Cleared
<1> QED BY <1>1, <1>2, <1>3 DEF ItemsOK

\* A request that is put behind the others, and one that is taken from the front.
LEMMA PutBehind ==
  ASSUME Queue, NEW r, inbox' = Append(inbox, r)
  PROVE  /\ Queue' /\ Len(inbox) \in Nat /\ Len(inbox') = Len(inbox) + 1 /\ Waits' = Waits \cup {r}
         /\ \A k \in 1..Len(inbox) : inbox'[k] = inbox[k]
         /\ inbox'[Len(inbox) + 1] = r
<1>1. PICK S : inbox \in Seq(S)
  BY DEF Queue
<1>2. PICK T : T = S \cup {r}
  OBVIOUS
<1>3. inbox \in Seq(T) /\ r \in T
  BY <1>1, <1>2
<1>4. inbox' \in Seq(T) /\ Len(inbox) \in Nat /\ Len(inbox') = Len(inbox) + 1
  BY <1>3
<1>5. /\ \A k \in 1..Len(inbox) : inbox'[k] = inbox[k]
      /\ inbox'[Len(inbox) + 1] = r
  BY <1>3
<1>6. Waits' = Waits \cup {r}
  <2>1. 1..Len(inbox') = 1..Len(inbox) \cup {Len(inbox) + 1}
    BY <1>4
  <2>2. Waits' = {inbox'[k] : k \in 1..Len(inbox')}
    BY DEF Waits
  <2> QED BY <1>5, <2>1, <2>2 DEF Waits
<1>7. Queue'
  BY <1>4 DEF Queue
<1> QED BY <1>4, <1>5, <1>6, <1>7

LEMMA TakenFirst ==
  ASSUME Queue, inbox # <<>>, inbox' = Tail(inbox)
  PROVE  /\ Queue' /\ Len(inbox) \in Nat /\ Len(inbox') = Len(inbox) - 1 /\ Len(inbox) >= 1 /\ Waits' \subseteq Waits
         /\ Head(inbox) \in Waits /\ Head(inbox) = inbox[1]
         /\ \A k \in 1..Len(inbox') : k + 1 \in 1..Len(inbox) /\ inbox'[k] = inbox[k + 1]
         /\ Waits \subseteq Waits' \cup {Head(inbox)}
<1>1. PICK S : inbox \in Seq(S)
  BY DEF Queue
<1>2. /\ inbox' \in Seq(S) /\ Len(inbox) \in Nat /\ Len(inbox) >= 1 /\ Len(inbox') = Len(inbox) - 1
      /\ Head(inbox) = inbox[1]
  BY <1>1
<1>3. \A k \in 1..Len(inbox') : k + 1 \in 1..Len(inbox) /\ inbox'[k] = inbox[k + 1]
  BY <1>1, <1>2
<1>4. 1 \in 1..Len(inbox)
  BY <1>2
<1>5. Head(inbox) \in Waits
  BY <1>2, <1>4 DEF Waits
<1>6. Waits' \subseteq Waits
  BY <1>3 DEF Waits
<1>7. Waits \subseteq Waits' \cup {Head(inbox)}
  <2>1. ASSUME NEW k \in 1..Len(inbox), k # 1 PROVE k - 1 \in 1..Len(inbox') /\ inbox[k] = inbox'[k - 1]
    <3>1. k - 1 \in 1..Len(inbox')
      BY <1>2, <2>1
    <3>2. inbox'[k - 1] = inbox[(k - 1) + 1]
      BY <1>3, <3>1
    <3> QED BY <2>1, <3>1, <3>2
  <2>2. \A k \in 1..Len(inbox) : inbox[k] = inbox[1] \/ inbox[k] \in Waits'
    BY <2>1 DEF Waits
  <2> QED BY <1>2, <2>2 DEF Waits
<1>8. Queue'
  BY <1>2 DEF Queue
<1> QED BY <1>2, <1>3, <1>5, <1>6, <1>7, <1>8

LEMMA WaitsSame == UNCHANGED inbox => Waits' = Waits /\ (Queue => Queue')
BY DEF Waits, Queue

\* An item a handler has sent, and the items it destroyed: what it did to the items of the GC.
Does(objs, ids) ==
  /\ ItemsOK(objs) /\ ItemsOK(items') /\ ids \subseteq DOMAIN items
  /\ DOMAIN items' = (DOMAIN items \cup DOMAIN objs) \ ids
  /\ \A j \in DOMAIN items' : Plain(items'[j]) = Plain(IF j \in DOMAIN objs THEN objs[j] ELSE items[j])

\* What it did to the base weapons.
BasesTo(b) ==
  /\ BaseOK(base') /\ DOMAIN b \subseteq Places /\ (\A p \in DOMAIN b : b[p] \in Bases \cup {None})
  /\ \A p \in Places : BaseAt(p)' = IF p \in DOMAIN b THEN b[p] ELSE BaseAt(p)

\* An item that is free to be used, as the game saw it when it asked.
Free(i, defs) == Has(i) /\ items[i].def \in defs /\ items[i].box = 0

\* A request that finds the items as they were when the game asked (the conditions of the Ask actions).
Meant(r) ==
  /\ r.op = "use" => Free(r.item, {"spray"})
  /\ r.op = "crate" => Free(r.item, {"crate"}) /\ (r.with # 0 => Free(r.with, {"key"}))
  /\ r.op = "delete" => Has(r.item) /\ items[r.item].box = 0 /\ \A i \in DOMAIN items : items[i].box # r.item
  /\ r.op = "move" => \A k \in 1..Len(r.items) : Has(r.items[k])
  /\ r.op = "sticker" => Free(r.with, {"sticker", "patch"}) /\ (r.item # 0 => Free(r.item, Guns))
  /\ r.op \in {"scrape", "unname"} => Free(r.item, Guns)
  /\ r.op = "name" => Free(r.item, Guns \cup {"casket"}) /\ (r.with # 0 => Free(r.with, {"tag"}))
  /\ r.op = "namebase" => Free(r.with, {"tag"})
  /\ r.op = "store" => Free(r.with, {"casket"}) /\ Free(r.item, Guns)
  /\ r.op = "take" => Free(r.with, {"casket"}) /\ Has(r.item) /\ items[r.item].box = r.with

\* A unit that is named for the first time starts to count.
Counting(x, y) == y.count = x.count \/ (x.def = "casket" /\ x.count = -1 /\ y.count = 0)

\* A handler that stores nothing: what it sends is where it was, or new; what it destroys is in no unit and no unit
\* that holds something.
Modest(objs) == \A j \in DOMAIN objs :
  IF Has(j) THEN objs[j].def = items[j].def /\ objs[j].box = items[j].box /\ Counting(items[j], objs[j])
            ELSE objs[j].box = 0 /\ (objs[j].def = "casket" => objs[j].count = -1)
Spent(ids) == \A j \in ids :
  items[j].box = 0 /\ (items[j].def # "casket" \/ \A i \in DOMAIN items : items[i].box # j)

Sent(objs, ids, b) ==
  \/ SendBoth(objs, ids, b)
  \/ Head(inbox).op \in Boxing /\ SendGame(objs, ids, b)
  \/ /\ Failed /\ Head(inbox).op \in Partial /\ (Kits(items) => ~Meant(Head(inbox)))
     /\ \A j \in DOMAIN objs : ~Has(j) => objs[j].kills = -1

\* The work of a handler.
Work(objs, ids, b) ==
  /\ Does(objs, ids) /\ BasesTo(b) /\ Sent(objs, ids, b)
  /\ \A j \in DOMAIN objs : ~Has(j) => j > last
  /\ Head(inbox).op # "kill" => \A j \in DOMAIN objs : Has(j) => objs[j].kills = items[j].kills
  /\ Head(inbox).op \notin Boxing /\ (Meant(Head(inbox)) \/ Unboxed(items)) => Modest(objs) /\ Spent(ids)
  /\ Meant(Head(inbox)) /\ Kits(items) => Kits(objs)

\* Or there was none.
Idle == UNCHANGED <<items, base, last, client, server>>

Handled == inbox # <<>> /\ inbox' = Tail(inbox) /\ UNCHANGED <<disk, greeted, joined, starts, world>>
Moves == last' \in 0..Ids /\ last' >= last

Result == Handled /\ Moves /\ (Idle \/ \E objs, ids, b : Work(objs, ids, b))

LEMMA DoesThis ==
  ASSUME ItemsOK(items), NEW objs, ItemsOK(objs), NEW ids, ids \subseteq DOMAIN items,
         items' = Without(With(items, objs), ids)
  PROVE  Does(objs, ids)
<1>1. /\ ItemsOK(With(items, objs)) /\ DOMAIN With(items, objs) = DOMAIN items \cup DOMAIN objs
      /\ \A i \in DOMAIN objs : With(items, objs)[i] = objs[i]
      /\ \A i \in DOMAIN items \ DOMAIN objs : With(items, objs)[i] = items[i]
  BY WithItems
<1>2. PICK f : f = With(items, objs)
  OBVIOUS
<1>3. /\ ItemsOK(items') /\ DOMAIN items' = DOMAIN f \ ids
      /\ \A i \in DOMAIN f \ ids : items'[i] = f[i]
  <2>1. ItemsOK(f) /\ items' = Without(f, ids)
    BY <1>1, <1>2
  <2>2. DOMAIN items' = DOMAIN f \ ids /\ \A i \in DOMAIN f \ ids : items'[i] = f[i]
    BY <2>1 DEF Without
  <2>3. ItemsOK(items')
    BY <2>1, <2>2 DEF ItemsOK
  <2> QED BY <2>2, <2>3
<1>4. DOMAIN items' = (DOMAIN items \cup DOMAIN objs) \ ids
  BY <1>1, <1>2, <1>3
<1>5. \A j \in DOMAIN items' : items'[j] = IF j \in DOMAIN objs THEN objs[j] ELSE items[j]
  BY <1>1, <1>2, <1>3
<1> QED BY <1>3, <1>4, <1>5 DEF Does

LEMMA DoesOnly ==
  ASSUME ItemsOK(items), NEW objs, ItemsOK(objs), items' = With(items, objs)
  PROVE  Does(objs, {})
<1>1. /\ ItemsOK(With(items, objs)) /\ DOMAIN With(items, objs) = DOMAIN items \cup DOMAIN objs
      /\ \A i \in DOMAIN objs : With(items, objs)[i] = objs[i]
      /\ \A i \in DOMAIN items \ DOMAIN objs : With(items, objs)[i] = items[i]
  BY WithItems
<1>2. DOMAIN items' = (DOMAIN items \cup DOMAIN objs) \ {}
  BY <1>1
<1>3. \A j \in DOMAIN items' : items'[j] = IF j \in DOMAIN objs THEN objs[j] ELSE items[j]
  BY <1>1
<1> QED BY <1>1, <1>2, <1>3 DEF Does

\* What is at a place, of some base weapons.
At(bs, p) == IF \E e \in bs : e.at = p THEN (CHOOSE e \in bs : e.at = p).def ELSE None

LEMMA AtIs ==
  ASSUME NEW bs, \A d, e \in bs : d.at = e.at => d = e
  PROVE  /\ \A e \in bs : At(bs, e.at) = e.def
         /\ \A p : (\A e \in bs : e.at # p) => At(bs, p) = None
BY DEF At

LEMMA BasesAt == (\A p : BaseAt(p) = At(base, p)) /\ (\A p : BaseAt(p)' = At(base', p))
BY DEF BaseAt, At

LEMMA NoneAt == DOMAIN NoBases = {}
BY DEF NoBases

LEMMA BaseTypes ==
  ASSUME BaseOK(base), NEW p
  PROVE  BaseAt(p) \in Bases \cup {None}
<1>1. CASE \E e \in base : e.at = p
  <2>1. PICK e \in base : e = CHOOSE x \in base : x.at = p
    BY <1>1
  <2>2. BaseAt(p) = e.def /\ e.def \in Bases
    BY <1>1, <2>1 DEF BaseOK, BaseAt
  <2> QED BY <2>2
<1>2. CASE ~\E e \in base : e.at = p
  BY <1>2 DEF BaseAt
<1> QED BY <1>1, <1>2


LEMMA BasesKept ==
  ASSUME BaseOK(base), UNCHANGED base
  PROVE  BasesTo(NoBases)
<1>1. BaseOK(base') /\ \A p \in Places : BaseAt(p)' = BaseAt(p)
  BY DEF BaseOK, BaseAt
<1> QED BY <1>1, NoneAt DEF BasesTo

LEMMA BasesCleared ==
  ASSUME IInv, BaseOK(base), NEW p \in Places, base' = ClearBase(p)
  PROVE  BasesTo(Marker(p))
<1>1. \A d, e \in base : d.at = e.at => d = e
  BY DEF IInv, InvPlaces, Apart
<1>2. base' \subseteq base /\ (\A e \in base' : e.at # p) /\ (\A e \in base : e.at # p => e \in base')
  BY DEF ClearBase
<1>3. BaseOK(base')
  BY <1>2 DEF BaseOK
<1>4. At(base', p) = None
  BY <1>1, <1>2, AtIs
<1>5. ASSUME NEW q \in Places, q # p PROVE At(base', q) = At(base, q)
  <2>1. CASE \E e \in base : e.at = q
    <3>1. PICK e \in base : e.at = q
      BY <2>1
    <3>2. e \in base'
      BY <1>2, <1>5, <3>1
    <3>3. At(base, q) = e.def
      BY <1>1, <3>1, AtIs
    <3>4. \A d, f \in base' : d.at = f.at => d = f
      BY <1>1, <1>2
    <3>5. At(base', q) = e.def
      BY <3>1, <3>2, <3>4, AtIs
    <3> QED BY <3>3, <3>5
  <2>2. CASE ~\E e \in base : e.at = q
    <3>1. (\A e \in base : e.at # q) /\ (\A e \in base' : e.at # q)
      BY <1>2, <2>2
    <3>2. \A d, f \in base' : d.at = f.at => d = f
      BY <1>1, <1>2
    <3> QED BY <1>1, <3>1, <3>2, AtIs
  <2> QED BY <2>1, <2>2
<1>6. CASE BaseAt(p) = None
  <2>1. Marker(p) = NoBases
    BY <1>6 DEF Marker
  <2>2. \A q \in Places : BaseAt(q)' = BaseAt(q)
    BY <1>4, <1>5, <1>6, BasesAt
  <2> QED BY <1>3, <2>1, <2>2, NoneAt DEF BasesTo
<1>7. CASE BaseAt(p) # None
  <2>1. Marker(p) = [q \in {p} |-> None]
    BY <1>7 DEF Marker
  <2>2. PICK b : b = [q \in {p} |-> None]
    OBVIOUS
  <2>3. DOMAIN b = {p} /\ b[p] = None
    BY <2>2
  <2>4. \A q \in Places : BaseAt(q)' = IF q \in DOMAIN b THEN b[q] ELSE BaseAt(q)
    BY <1>4, <1>5, <2>3, BasesAt
  <2> QED BY <1>3, <2>1, <2>2, <2>3, <2>4 DEF BasesTo
<1> QED BY <1>6, <1>7

LEMMA BasesSet ==
  ASSUME IInv, IInv', BaseOK(base), NEW p \in Places, NEW d \in Bases, base' = ClearBase(p) \cup {[def |-> d, at |-> p]}
  PROVE  BasesTo([q \in {p} |-> d])
<1>1. (\A x, e \in base : x.at = e.at => x = e) /\ (\A x, e \in base' : x.at = e.at => x = e)
  BY DEF IInv, InvPlaces, Apart
<1>2. PICK new : new = [def |-> d, at |-> p]
  OBVIOUS
<1>3. new \in [def : Bases, at : Places] /\ new.def = d /\ new.at = p /\ new \in base'
  BY <1>2
<1>4. /\ \A e \in base' : e \in base \/ e = new
      /\ \A e \in base : e.at # p => e \in base'
  BY <1>2 DEF ClearBase
<1>5. BaseOK(base')
  BY <1>3, <1>4 DEF BaseOK
<1>6. At(base', p) = d
  BY <1>1, <1>3, AtIs
<1>7. ASSUME NEW q \in Places, q # p PROVE At(base', q) = At(base, q)
  <2>1. CASE \E e \in base : e.at = q
    <3>1. PICK e \in base : e.at = q
      BY <2>1
    <3>2. e \in base'
      BY <1>4, <1>7, <3>1
    <3> QED BY <1>1, <3>1, <3>2, AtIs
  <2>2. CASE ~\E e \in base : e.at = q
    <3>1. (\A e \in base : e.at # q) /\ (\A e \in base' : e.at # q)
      BY <1>3, <1>4, <1>7, <2>2
    <3> QED BY <1>1, <3>1, AtIs
  <2> QED BY <2>1, <2>2
<1>8. PICK b : b = [q \in {p} |-> d]
  OBVIOUS
<1>9. DOMAIN b = {p} /\ b[p] = d
  BY <1>8
<1>10. \A q \in Places : BaseAt(q)' = IF q \in DOMAIN b THEN b[q] ELSE BaseAt(q)
  BY <1>6, <1>7, <1>9, BasesAt
<1> QED BY <1>5, <1>8, <1>9, <1>10 DEF BasesTo

---------------------------------------------------------------------------
(* The work of every handler.                                              *)

LEMMA Handles ==
  ASSUME NEW op, Got(op), Alone
  PROVE  Handled
BY DEF Got, Alone, Handled

LEMMA StaysLast ==
  ASSUME TInv, NoNew
  PROVE  Moves
<1>1. last \in 0..Ids /\ Ids \in Nat
  BY Counters DEF TInv, TypeOK
<1> QED BY <1>1 DEF NoNew, Moves

LEMMA MovesUp ==
  ASSUME TInv, HasRoom, Allocate
  PROVE  Moves /\ NextId \in ItemIds /\ NextId > last /\ ~Has(NextId)
<1>1. last \in 0..Ids /\ Ids \in Nat /\ Upwards
  BY Counters DEF TInv, TypeOK, IInv
<1>2. NextId \in ItemIds /\ NextId > last /\ NextId \notin DOMAIN items
  BY <1>1, NextIdIsNew
<1>3. PICK n \in 1..Ids : n = NextId
  BY <1>2 DEF ItemIds
<1>4. {last + 1, n} \subseteq 0..n /\ {last + 1, n} # {} /\ n \in Nat
  BY <1>1, <1>2, <1>3
<1>5. Max({last + 1, n}) \in {last + 1, n} /\ Max({last + 1, n}) >= n
  BY <1>4, GreatestOf
<1>6. last' = Max({last + 1, n})
  BY <1>3 DEF Allocate
<1>7. last' = n
  BY <1>1, <1>2, <1>3, <1>5, <1>6
<1>8. last' \in 0..Ids /\ last' >= last
  BY <1>1, <1>2, <1>3, <1>7
<1> QED BY <1>2, <1>8 DEF Moves, Has

LEMMA ItemsAre == TInv => ItemsOK(items) /\ BaseOK(base) /\ \A i \in DOMAIN items : items[i] \in Item /\ i \in ItemIds
BY DEF TInv, TypeOK, ItemsOK

\* One item is changed where it is.
\* What is read back of items is items again, and the same but for the places.
LEMMA ReadBack ==
  ASSUME TInv, NEW file \in Written, ~Unreadable(items)
  PROVE  /\ DOMAIN file.items = DOMAIN items /\ ItemsOK(file.items)
         /\ \A i \in DOMAIN items :
              /\ file.items[i].def = items[i].def /\ file.items[i].sticker = items[i].sticker
              /\ file.items[i].box = items[i].box /\ file.items[i].count = items[i].count
<1>1. \A i \in DOMAIN items : items[i] \in Item /\ "eq" \in DOMAIN items[i]
  BY ItemsAre DEF Item
<1>2. /\ DOMAIN file.items = DOMAIN items
      /\ \A i \in DOMAIN items : /\ file.items[i] = [items[i] EXCEPT !.eq = file.items[i].eq]
                               /\ file.items[i].eq \subseteq items[i].eq
  BY <1>1, FileIs, FileKeeps
<1>3. ASSUME NEW x \in Item, NEW eq \in SUBSET x.eq, NEW y, y = [x EXCEPT !.eq = eq]
      PROVE  y \in Item /\ y.def = x.def /\ y.sticker = x.sticker /\ y.box = x.box /\ y.count = x.count
  <2>1. eq \in SUBSET Places
    BY DEF Item
  <2>2. y \in Item
    BY <1>3, <2>1, ItemEdits
  <2>3. y.def = x.def /\ y.sticker = x.sticker /\ y.box = x.box /\ y.count = x.count
    BY <1>3 DEF Item
  <2> QED BY <2>2, <2>3
<1>4. ASSUME NEW i \in DOMAIN items
      PROVE  /\ file.items[i] \in Item
             /\ file.items[i].def = items[i].def /\ file.items[i].sticker = items[i].sticker
             /\ file.items[i].box = items[i].box /\ file.items[i].count = items[i].count
  <2>1. PICK x, eq, y : x = items[i] /\ eq = file.items[i].eq /\ y = file.items[i]
    OBVIOUS
  <2>2. x \in Item /\ eq \in SUBSET x.eq /\ y = [x EXCEPT !.eq = eq]
    BY <1>1, <1>2, <2>1
  <2>3. y \in Item /\ y.def = x.def /\ y.sticker = x.sticker /\ y.box = x.box /\ y.count = x.count
    BY <1>3, <2>2
  <2> QED BY <2>1, <2>3
<1> QED BY <1>2, <1>4, ItemsAre DEF ItemsOK

LEMMA SetsWork ==
  ASSUME TInv, Handled, NoNew, UNCHANGED base, NEW i, Has(i), NEW x \in Item, NEW used, used \subseteq DOMAIN items,
         items' = Without(With(items, One(i, x)), used), Sent(One(i, x), used, NoBases),
         x.def = items[i].def, x.box = items[i].box, Counting(items[i], x),
         Head(inbox).op # "kill" => x.kills = items[i].kills,
         Meant(Head(inbox)) /\ Kits(items) => (x.def \in {"sticker", "patch"} => x.sticker # Bare),
         Meant(Head(inbox)) \/ Unboxed(items) => Spent(used)
  PROVE  Result
<1>1. ItemsOK(items) /\ BaseOK(base) /\ i \in ItemIds
  BY ItemsAre DEF Has
<1>2. PICK objs : objs = One(i, x)
  OBVIOUS
<1>3. ItemsOK(objs) /\ DOMAIN objs = {i} /\ objs[i] = x
  BY <1>1, <1>2, OneItem
<1>4. Does(objs, used)
  BY <1>1, <1>2, <1>3, DoesThis
<1>5. BasesTo(NoBases)
  BY <1>1, BasesKept
<1>6. Work(objs, used, NoBases)
  BY <1>2, <1>3, <1>4, <1>5 DEF Work, Modest, Kits
<1> QED BY <1>6, StaysLast DEF Result

\* A new item is made.
LEMMA MakesWork ==
  ASSUME TInv, Handled, HasRoom, Allocate, UNCHANGED base, NEW x \in Item, NEW used, used \subseteq DOMAIN items,
         items' = Without(With(items, One(NextId, x)), used), Sent(One(NextId, x), used, NoBases),
         x.box = 0, x.def = "casket" => x.count = -1,
         x.def \in {"sticker", "patch"} => x.sticker # Bare,
         Meant(Head(inbox)) \/ Unboxed(items) => Spent(used)
  PROVE  Result
<1>1. ItemsOK(items) /\ BaseOK(base) /\ NextId \in ItemIds /\ NextId > last /\ ~Has(NextId) /\ Moves
  BY ItemsAre, MovesUp
<1>2. PICK objs : objs = One(NextId, x)
  OBVIOUS
<1>3. ItemsOK(objs) /\ DOMAIN objs = {NextId} /\ objs[NextId] = x
  BY <1>1, <1>2, OneItem
<1>4. Does(objs, used)
  BY <1>1, <1>2, <1>3, DoesThis
<1>5. BasesTo(NoBases)
  BY <1>1, BasesKept
<1>6. Work(objs, used, NoBases)
  BY <1>1, <1>2, <1>3, <1>4, <1>5 DEF Work, Modest, Kits
<1> QED BY <1>1, <1>6 DEF Result

\* Nothing is changed.
LEMMA NoWork ==
  ASSUME TInv, Handled, UNCHANGED <<items, base, last>>, Failed
  PROVE  Result
<1>1. NoNew
  BY DEF NoNew
<1> QED BY <1>1, StaysLast DEF Result, Idle, Failed

\* Items leave a place, and base weapons with them.
LEMMA LoadoutWork ==
  ASSUME TInv, Handled, NoNew, Head(inbox).op # "kill", NEW objs, ItemsOK(objs), DOMAIN objs \subseteq DOMAIN items,
         \A j \in DOMAIN objs :
           /\ objs[j].def = items[j].def /\ objs[j].box = items[j].box /\ objs[j].count = items[j].count
           /\ objs[j].kills = items[j].kills /\ objs[j].sticker = items[j].sticker,
         NEW b, items' = With(items, objs), BasesTo(b), SendBoth(objs, {}, b)
  PROVE  Result
<1>1. ItemsOK(items) /\ Does(objs, {})
  BY ItemsAre, DoesOnly
<1>2. Modest(objs) /\ Spent({})
  BY DEF Modest, Spent, Counting, Has
<1>3. Sent(objs, {}, b)
  BY DEF Sent
<1>4. Kits(items) => Kits(objs)
  BY DEF Kits
<1>5. Work(objs, {}, b)
  BY <1>1, <1>2, <1>3, <1>4 DEF Work, Has
<1> QED BY <1>5, StaysLast DEF Result

LEMMA OpIs ==
  ASSUME NEW op, Got(op)
  PROVE  inbox # <<>> /\ Head(inbox).op = op
BY DEF Got

LEMMA HeadOK ==
  ASSUME TInv, Handled
  PROVE  RequestOK(Head(inbox))
<1>1. Head(inbox) \in Waits
  BY TakenFirst DEF TInv, Handled
<1> QED BY <1>1 DEF TInv, Requests

LEMMA EquipWorks == TInv /\ Equip => Result
<1> SUFFICES ASSUME TInv, Equip PROVE Result
  OBVIOUS
<1>1. Handled /\ Head(inbox).op = "equip" /\ NoNew
  BY Handles, OpIs DEF Equip
<1>2. PICK k, p : k = Head(inbox).item /\ p = Head(inbox).at
  OBVIOUS
<1>3. CASE ~Has(k)
  <2>1. UNCHANGED <<items, base, last>> /\ Failed
    BY <1>2, <1>3 DEF Equip, NoNew
  <2> QED BY <1>1, <2>1, NoWork
<1>4. CASE Has(k)
  <2>1. PICK worn : worn = [items[k] EXCEPT !.eq = @ \cup {p}]
    OBVIOUS
  <2>2. PICK put : put = With(Cleared(p), One(k, worn))
    OBVIOUS
  <2>3. items' = With(items, put) /\ base' = ClearBase(p) /\ SendBoth(put, {}, Marker(p))
    BY <1>2, <1>4, <2>1, <2>2 DEF Equip
  <2>4. p \in Places
    BY <1>1, <1>2, HeadOK DEF RequestOK
  <2>5. ItemsOK(items) /\ BaseOK(base) /\ items[k] \in Item /\ k \in ItemIds /\ IInv
    BY <1>4, ItemsAre DEF Has, TInv
  <2>6. PICK x \in Item : x = items[k]
    BY <2>5
  <2>7. worn \in Item /\ worn.def = x.def /\ worn.box = x.box /\ worn.count = x.count /\ worn.kills = x.kills /\ worn.sticker = x.sticker
    <3>1. x.eq \cup {p} \in SUBSET Places
      BY <2>4, <2>6 DEF Item
    <3>2. worn = [x EXCEPT !.eq = x.eq \cup {p}]
      BY <2>1, <2>6
    <3>3. worn \in Item
      BY <3>1, <3>2, ItemEdits
    <3> QED BY <2>6, <3>2, <3>3 DEF Item
  <2>8. ItemsOK(One(k, worn)) /\ DOMAIN One(k, worn) = {k} /\ One(k, worn)[k] = worn
    BY <2>5, <2>7, OneItem
  <2>9. PICK off, one : off = Cleared(p) /\ one = One(k, worn)
    OBVIOUS
  <2>10. /\ ItemsOK(off) /\ DOMAIN off \subseteq DOMAIN items
         /\ \A i \in DOMAIN off :
              /\ off[i].def = items[i].def /\ off[i].box = items[i].box /\ off[i].count = items[i].count
              /\ off[i].kills = items[i].kills /\ off[i].sticker = items[i].sticker
    BY <2>5, <2>9, ClearedItems
  <2>11. /\ ItemsOK(put) /\ DOMAIN put = DOMAIN off \cup {k} /\ put[k] = worn
         /\ \A i \in DOMAIN off \ {k} : put[i] = off[i]
    <3>1. put = With(off, one) /\ ItemsOK(one) /\ DOMAIN one = {k} /\ one[k] = worn
      BY <2>2, <2>8, <2>9
    <3>2. /\ ItemsOK(With(off, one)) /\ DOMAIN With(off, one) = DOMAIN off \cup DOMAIN one
          /\ \A i \in DOMAIN one : With(off, one)[i] = one[i]
          /\ \A i \in DOMAIN off \ DOMAIN one : With(off, one)[i] = off[i]
      BY <2>10, <3>1, WithItems
    <3> QED BY <3>1, <3>2
  <2>12. /\ DOMAIN put \subseteq DOMAIN items
         /\ \A j \in DOMAIN put :
              /\ put[j].def = items[j].def /\ put[j].box = items[j].box /\ put[j].count = items[j].count
              /\ put[j].kills = items[j].kills /\ put[j].sticker = items[j].sticker
    BY <1>4, <2>6, <2>7, <2>10, <2>11 DEF Has
  <2>13. BasesTo(Marker(p))
    BY <2>3, <2>4, <2>5, BasesCleared
  <2>14. Head(inbox).op # "kill"
    BY <1>1
  <2> QED BY <1>1, <2>3, <2>11, <2>12, <2>13, <2>14, LoadoutWork
<1> QED BY <1>3, <1>4

LEMMA EquipBaseWorks == TInv /\ EquipBase => Result
<1> SUFFICES ASSUME TInv, EquipBase PROVE Result
  OBVIOUS
<1>1. Handled /\ Head(inbox).op = "base" /\ NoNew
  BY Handles, OpIs DEF EquipBase
<1>2. PICK d, p : d = Head(inbox).def /\ p = Head(inbox).at
  OBVIOUS
<1>3. p \in Places /\ d \in Bases
  BY <1>1, <1>2, HeadOK DEF RequestOK
<1>4. /\ items' = With(items, Cleared(p)) /\ base' = ClearBase(p) \cup {[def |-> d, at |-> p]}
      /\ SendBoth(Cleared(p), {}, [q \in {p} |-> d])
  BY <1>2 DEF EquipBase
<1>5. ItemsOK(items) /\ BaseOK(base) /\ IInv
  BY ItemsAre DEF TInv
<1>6. IInv'
  BY <1>5, EquipBaseKeeps
<1>7. BasesTo([q \in {p} |-> d])
  BY <1>3, <1>4, <1>5, <1>6, BasesSet
<1>8. Head(inbox).op # "kill"
  BY <1>1
<1> QED BY <1>1, <1>4, <1>5, <1>7, <1>8, ClearedItems, LoadoutWork

LEMMA ClearPlaceWorks == TInv /\ ClearPlace => Result
<1> SUFFICES ASSUME TInv, ClearPlace PROVE Result
  OBVIOUS
<1>1. Handled /\ Head(inbox).op = "clear" /\ NoNew
  BY Handles, OpIs DEF ClearPlace
<1>2. PICK p : p = Head(inbox).at
  OBVIOUS
<1>3. p \in Places
  BY <1>1, <1>2, HeadOK DEF RequestOK
<1>4. items' = With(items, Cleared(p)) /\ base' = ClearBase(p) /\ SendBoth(Cleared(p), {}, Marker(p))
  BY <1>2 DEF ClearPlace
<1>5. ItemsOK(items) /\ BaseOK(base) /\ IInv
  BY ItemsAre DEF TInv
<1>6. BasesTo(Marker(p))
  BY <1>3, <1>4, <1>5, BasesCleared
<1>7. Head(inbox).op # "kill"
  BY <1>1
<1> QED BY <1>1, <1>4, <1>5, <1>6, <1>7, ClearedItems, LoadoutWork

\* An item that is there is changed and sent, and nothing is used up for it.
LEMMA SetsAlone ==
  ASSUME TInv, Handled, NoNew, UNCHANGED base, NEW i, Has(i), NEW x \in Item,
         items' = With(items, One(i, x)), SendBoth(One(i, x), {}, NoBases),
         x.def = items[i].def, x.box = items[i].box, x.count = items[i].count,
         Head(inbox).op # "kill" => x.kills = items[i].kills,
         Meant(Head(inbox)) /\ Kits(items) => (x.def \in {"sticker", "patch"} => x.sticker # Bare)
  PROVE  Result
<1>1. ItemsOK(items) /\ BaseOK(base) /\ i \in ItemIds
  BY ItemsAre DEF Has
<1>2. PICK objs, none : objs = One(i, x) /\ none = {}
  OBVIOUS
<1>3. ItemsOK(objs) /\ DOMAIN objs = {i} /\ objs[i] = x
  BY <1>1, <1>2, OneItem
<1>4. Does(objs, {})
  BY <1>1, <1>2, <1>3, DoesOnly
<1>5. BasesTo(NoBases)
  BY <1>1, BasesKept
<1>6. Sent(objs, {}, NoBases)
  BY <1>2 DEF Sent
<1>7. Work(objs, {}, NoBases)
  BY <1>3, <1>4, <1>5, <1>6 DEF Work, Modest, Spent, Counting, Kits
<1> QED BY <1>7, StaysLast DEF Result

LEMMA UnequipWorks == TInv /\ Unequip => Result
<1> SUFFICES ASSUME TInv, Unequip PROVE Result
  OBVIOUS
<1>1. Handled /\ Head(inbox).op = "unequip" /\ NoNew /\ UNCHANGED base
  BY Handles, OpIs DEF Unequip
<1>2. PICK i : i = Head(inbox).item
  OBVIOUS
<1>3. CASE ~Has(i)
  <2>1. UNCHANGED <<items, base, last>> /\ Failed
    BY <1>1, <1>2, <1>3 DEF Unequip, NoNew
  <2> QED BY <1>1, <2>1, NoWork
<1>4. CASE Has(i)
  <2>1. PICK x \in Item : x = items[i]
    BY <1>4, ItemsAre DEF Has
  <2>2. PICK y : y = [x EXCEPT !.eq = {}]
    OBVIOUS
  <2>3. items' = With(items, One(i, y)) /\ SendBoth(One(i, y), {}, NoBases)
    BY <1>2, <1>4, <2>1, <2>2 DEF Unequip
  <2>4. y \in Item /\ y.def = x.def /\ y.box = x.box /\ y.count = x.count /\ y.kills = x.kills /\ y.sticker = x.sticker
    BY <2>1, <2>2 DEF Item
  <2>5. Kits(items) => (y.def \in {"sticker", "patch"} => y.sticker # Bare)
    BY <1>4, <2>1, <2>4 DEF Kits, Has
  <2> QED BY <1>1, <1>4, <2>1, <2>3, <2>4, <2>5, SetsAlone
<1> QED BY <1>3, <1>4

LEMMA UseItemWorks == TInv /\ UseItem => Result
<1> SUFFICES ASSUME TInv, UseItem PROVE Result
  OBVIOUS
<1>1. Handled /\ Head(inbox).op = "use"
  BY Handles, OpIs DEF UseItem
<1>2. PICK i : i = Head(inbox).item
  OBVIOUS
<1>3. CASE ~Has(i) \/ items[i].def # "spray"
  <2>1. UNCHANGED <<items, base, last>> /\ Failed
    BY <1>2, <1>3 DEF UseItem
  <2> QED BY <1>1, <2>1, NoWork
<1>4. CASE ~(~Has(i) \/ items[i].def # "spray")
  <2>1. PICK x \in Item : x = items[i]
    BY <1>4, ItemsAre DEF Has
  <2>2. PICK new, set, off, n : /\ new = [x EXCEPT !.def = "graffiti", !.eq = {Graffiti}] /\ set = [new EXCEPT !.sprays = TRUE]
                                /\ off = Without(Cleared(Graffiti), {i}) /\ n = NextId
    OBVIOUS
  <2>3. /\ HasRoom /\ Allocate /\ base' = ClearBase(Graffiti)
        /\ items' = With(Without(With(items, off), {i}), One(n, set))
        /\ SendBoth(With(off, One(n, new)), {i}, Marker(Graffiti))
    BY <1>2, <1>4, <2>1, <2>2 DEF UseItem
  <2>4. Moves /\ n \in ItemIds /\ n > last /\ ~Has(n)
    BY <2>2, <2>3, MovesUp
  <2>5. ItemsOK(items) /\ BaseOK(base) /\ IInv /\ Has(i) /\ Graffiti \in Places
    BY <1>4, ItemsAre, GraffitiIsAPlace DEF TInv
  <2>6. new \in Item /\ set \in Item /\ new.def = "graffiti" /\ new.box = x.box /\ Plain(set) = Plain(new)
    <3>1. "graffiti" \in Defs /\ {Graffiti} \in SUBSET Places
      BY <2>5 DEF Defs
    <3>2. new \in Item /\ new.def = "graffiti" /\ new.box = x.box
      BY <2>1, <2>2, <3>1 DEF Item
    <3>3. set \in Item
      BY <2>2, <3>2, ItemEdits
    <3>4. Plain(set) = Plain(new)
      BY <2>2, <3>2 DEF Plain, Item
    <3> QED BY <3>2, <3>3, <3>4
  <2>7. PICK old : old = Cleared(Graffiti)
    OBVIOUS
  <2>8. /\ ItemsOK(old) /\ DOMAIN old \subseteq DOMAIN items
        /\ \A j \in DOMAIN old :
             /\ old[j].def = items[j].def /\ old[j].box = items[j].box /\ old[j].count = items[j].count
             /\ old[j].kills = items[j].kills /\ old[j].sticker = items[j].sticker
    BY <2>5, <2>7, ClearedItems
  <2>9. ItemsOK(off) /\ DOMAIN off = DOMAIN old \ {i} /\ \A j \in DOMAIN off : off[j] = old[j]
    <3>1. off = Without(old, {i})
      BY <2>2, <2>7
    <3>2. DOMAIN off = DOMAIN old \ {i} /\ \A j \in DOMAIN old \ {i} : off[j] = old[j]
      BY <3>1 DEF Without
    <3> QED BY <2>8, <3>2 DEF ItemsOK
  <2>10. PICK objs : objs = With(off, One(n, new))
    OBVIOUS
  <2>11. ItemsOK(objs) /\ DOMAIN objs = DOMAIN off \cup {n} /\ objs[n] = new /\ \A j \in DOMAIN off \ {n} : objs[j] = off[j]
    <3>1. PICK one : one = One(n, new)
      OBVIOUS
    <3>2. ItemsOK(one) /\ DOMAIN one = {n} /\ one[n] = new /\ objs = With(off, one)
      BY <2>4, <2>6, <2>10, <3>1, OneItem
    <3>3. DOMAIN objs = DOMAIN off \cup {n} /\ (\A j \in DOMAIN one : objs[j] = one[j]) /\ \A j \in DOMAIN off \ DOMAIN one : objs[j] = off[j]
      BY <3>2 DEF With
    <3>4. ItemsOK(objs)
      BY <2>9, <3>2, <3>3 DEF ItemsOK
    <3> QED BY <3>2, <3>3, <3>4
  <2>12. Does(objs, {i})
    <3>1. PICK one, f, g : one = One(n, set) /\ f = With(items, off) /\ g = Without(f, {i})
      OBVIOUS
    <3>2. DOMAIN one = {n} /\ one[n] = set
      BY <3>1 DEF One
    <3>3. DOMAIN f = DOMAIN items /\ (\A j \in DOMAIN off : f[j] = off[j]) /\ \A j \in DOMAIN items \ DOMAIN off : f[j] = items[j]
      BY <2>8, <2>9, <3>1 DEF With
    <3>4. DOMAIN g = DOMAIN items \ {i} /\ \A j \in DOMAIN g : g[j] = f[j]
      BY <3>1, <3>3 DEF Without
    <3>5. items' = With(g, one)
      BY <2>3, <3>1
    <3>6. DOMAIN items' = (DOMAIN items \ {i}) \cup {n} /\ items'[n] = set /\ \A j \in DOMAIN items \ {i} : j # n => items'[j] = g[j]
      BY <3>2, <3>4, <3>5 DEF With
    <3>7. n \notin DOMAIN items /\ n # i /\ i \in DOMAIN items
      BY <2>4, <2>5 DEF Has
    <3>8. DOMAIN items' = (DOMAIN items \cup DOMAIN objs) \ {i}
      BY <2>8, <2>9, <2>11, <3>6, <3>7
    <3>9. \A j \in DOMAIN items \ {i} : items'[j] = IF j \in DOMAIN objs THEN objs[j] ELSE items[j]
      BY <2>9, <2>11, <3>3, <3>4, <3>6, <3>7
    <3>10. Plain(items'[n]) = Plain(objs[n])
      BY <2>6, <2>11, <3>6
    <3>11. \A j \in DOMAIN items' : Plain(items'[j]) = Plain(IF j \in DOMAIN objs THEN objs[j] ELSE items[j])
      BY <2>11, <3>6, <3>9, <3>10
    <3>12. ItemsOK(items')
      <4>1. \A j \in DOMAIN items \ {i} : items'[j] \in Item
        BY <2>5, <2>11, <3>9 DEF ItemsOK
      <4>2. DOMAIN items \subseteq ItemIds
        BY <2>5 DEF ItemsOK
      <4> QED BY <2>4, <2>6, <3>6, <4>1, <4>2 DEF ItemsOK
    <3> QED BY <2>5, <2>11, <3>8, <3>11, <3>12 DEF Does, Has
  <2>13. BasesTo(Marker(Graffiti))
    BY <2>3, <2>5, BasesCleared
  <2>14. Sent(objs, {i}, Marker(Graffiti))
    BY <2>3, <2>10 DEF Sent
  <2>15. Meant(Head(inbox)) \/ Unboxed(items) => x.box = 0
    BY <1>1, <1>2, <2>1, <2>5 DEF Meant, Free, Unboxed, Has
  <2>16. \A j \in DOMAIN objs : j # n => j \in DOMAIN items /\ objs[j].def = items[j].def /\ objs[j].box = items[j].box
           /\ objs[j].count = items[j].count /\ objs[j].kills = items[j].kills /\ objs[j].sticker = items[j].sticker
    BY <2>8, <2>9, <2>11
  <2>17. Meant(Head(inbox)) \/ Unboxed(items) => Modest(objs) /\ Spent({i})
    BY <1>4, <2>1, <2>4, <2>6, <2>11, <2>15, <2>16 DEF Modest, Spent, Counting, Has
  <2>18. Kits(items) => Kits(objs)
    BY <2>6, <2>11, <2>16 DEF Kits
  <2>19. \A j \in DOMAIN objs : (~Has(j) => j > last) /\ (Has(j) => objs[j].kills = items[j].kills)
    BY <2>4, <2>16 DEF Has
  <2>20. Work(objs, {i}, Marker(Graffiti))
    BY <1>1, <2>12, <2>13, <2>14, <2>17, <2>18, <2>19 DEF Work
  <2> QED BY <1>1, <2>4, <2>20 DEF Result
<1> QED BY <1>3, <1>4

LEMMA UnlockCrateWorks == TInv /\ UnlockCrate => Result
<1> SUFFICES ASSUME TInv, UnlockCrate PROVE Result
  OBVIOUS
<1>1. Handled /\ Head(inbox).op = "crate" /\ UNCHANGED base
  BY Handles, OpIs DEF UnlockCrate
<1>2. PICK i, k : i = Head(inbox).item /\ k = Head(inbox).with
  OBVIOUS
<1>3. CASE ~Has(i) \/ items[i].def # "crate"
  <2>1. UNCHANGED <<items, base, last>> /\ Failed
    BY <1>1, <1>2, <1>3 DEF UnlockCrate
  <2> QED BY <1>1, <2>1, NoWork
<1>4. CASE ~(~Has(i) \/ items[i].def # "crate")
  <2>1. HasRoom /\ Allocate
    BY <1>2, <1>4 DEF UnlockCrate
  <2>2. PICK def \in {"gun", "stattrak"} :
          LET used == IF world.destroy THEN {i} \cup ({k} \cap DOMAIN items) ELSE {}
          IN /\ items' = Without(With(items, One(NextId, Fresh(def))), used)
             /\ SendBoth(One(NextId, Fresh(def)), used, NoBases)
    BY <1>2, <1>4 DEF UnlockCrate
  <2>3. PICK used : used = IF world.destroy THEN {i} \cup ({k} \cap DOMAIN items) ELSE {}
    OBVIOUS
  <2>4. items' = Without(With(items, One(NextId, Fresh(def))), used) /\ SendBoth(One(NextId, Fresh(def)), used, NoBases)
    BY <2>2, <2>3
  <2>5. used \subseteq DOMAIN items
    BY <1>4, <2>3 DEF Has
  <2>6. def \in Defs /\ def # "casket" /\ def \notin {"sticker", "patch"}
    BY DEF Defs
  <2>7. Fresh(def) \in Item /\ Fresh(def).def = def /\ Fresh(def).box = 0
    BY <2>6, FreshIsItem
  <2>8. Meant(Head(inbox)) => Spent(used)
    <3>1. Meant(Head(inbox)) => Free(i, {"crate"}) /\ (k # 0 => Free(k, {"key"}))
      BY <1>1, <1>2 DEF Meant
    <3>2. 0 \notin DOMAIN items
      BY ItemsAre, Counters
    <3> QED BY <2>3, <3>1, <3>2 DEF Free, Spent
  <2>9. Unboxed(items) => Spent(used)
    BY <2>5, ItemsAre, Counters DEF Unboxed, Spent
  <2>10. Sent(One(NextId, Fresh(def)), used, NoBases)
    BY <2>4 DEF Sent
  <2>11. PICK x \in Item : x = Fresh(def)
    BY <2>7
  <2> QED BY <1>1, <2>1, <2>4, <2>5, <2>6, <2>7, <2>8, <2>9, <2>10, <2>11, MakesWork
<1> QED BY <1>3, <1>4

LEMMA StorePurchaseInitWorks == TInv /\ StorePurchaseInit => Result
<1> SUFFICES ASSUME TInv, StorePurchaseInit PROVE Result
  OBVIOUS
<1>1. Handled /\ Head(inbox).op = "buy" /\ UNCHANGED base /\ HasRoom /\ Allocate
  BY Handles, OpIs DEF StorePurchaseInit
<1>2. PICK x, n : x = Fresh(Head(inbox).def) /\ n = NextId
  OBVIOUS
<1>3. Head(inbox).def \in {"tag", "gun"}
  BY <1>1, HeadOK DEF RequestOK
<1>4. x \in Item /\ x.def \in {"tag", "gun"} /\ x.box = 0 /\ x.count = -1
  BY <1>2, <1>3, FreshIsItem DEF Defs
<1>5. items' = With(items, One(n, x)) /\ SendBoth(One(n, x), {}, NoBases)
  BY <1>2 DEF StorePurchaseInit
<1>6. ItemsOK(items) /\ BaseOK(base) /\ n \in ItemIds /\ n > last /\ ~Has(n) /\ Moves
  BY <1>1, <1>2, ItemsAre, MovesUp
<1>7. PICK objs : objs = One(n, x)
  OBVIOUS
<1>8. ItemsOK(objs) /\ DOMAIN objs = {n} /\ objs[n] = x
  BY <1>4, <1>6, <1>7, OneItem
<1>9. Does(objs, {})
  BY <1>5, <1>6, <1>7, <1>8, DoesOnly
<1>10. BasesTo(NoBases) /\ Sent(objs, {}, NoBases)
  BY <1>1, <1>5, <1>6, <1>7, BasesKept DEF Sent
<1>11. Work(objs, {}, NoBases)
  BY <1>4, <1>6, <1>8, <1>9, <1>10 DEF Work, Modest, Spent, Kits
<1> QED BY <1>1, <1>6, <1>11 DEF Result

\* An item is destroyed.
LEMMA DestroysWork ==
  ASSUME TInv, Handled, NoNew, UNCHANGED base, NEW i, Has(i),
         items' = Without(items, {i}), SendBoth(<<>>, {i}, NoBases), Meant(Head(inbox)) \/ Unboxed(items) => Spent({i})
  PROVE  Result
<1>1. PICK objs : objs = NoBases
  OBVIOUS
<1>2. SendBoth(objs, {i}, NoBases)
  BY <1>1 DEF NoBases
<1>3. DOMAIN objs = {} /\ ItemsOK(objs)
  BY <1>1, NoneAt DEF ItemsOK
<1>4. ItemsOK(items) /\ BaseOK(base)
  BY ItemsAre
<1>5. Does(objs, {i})
  <2>1. DOMAIN items' = DOMAIN items \ {i} /\ \A j \in DOMAIN items \ {i} : items'[j] = items[j]
    BY DEF Without
  <2>2. ItemsOK(items')
    BY <1>4, <2>1 DEF ItemsOK
  <2> QED BY <1>3, <2>1, <2>2 DEF Does, Has
<1>6. BasesTo(NoBases) /\ Sent(objs, {i}, NoBases)
  BY <1>2, <1>4, BasesKept DEF Sent
<1>7. Work(objs, {i}, NoBases)
  BY <1>3, <1>5, <1>6 DEF Work, Modest, Kits
<1> QED BY <1>7, StaysLast DEF Result

LEMMA DeleteItemWorks == TInv /\ DeleteItem => Result
<1> SUFFICES ASSUME TInv, DeleteItem PROVE Result
  OBVIOUS
<1>1. Handled /\ Head(inbox).op = "delete" /\ NoNew /\ UNCHANGED base
  BY Handles, OpIs DEF DeleteItem
<1>2. PICK i : i = Head(inbox).item
  OBVIOUS
<1>3. CASE ~Has(i)
  <2>1. UNCHANGED <<items, base, last>> /\ Failed
    BY <1>1, <1>2, <1>3 DEF DeleteItem, NoNew
  <2> QED BY <1>1, <2>1, NoWork
<1>4. CASE Has(i)
  <2>1. items' = Without(items, {i}) /\ SendBoth(<<>>, {i}, NoBases)
    BY <1>2, <1>4 DEF DeleteItem
  <2>2. Meant(Head(inbox)) \/ Unboxed(items) => Spent({i})
    BY <1>1, <1>2, <1>4, ItemsAre, Counters DEF Meant, Unboxed, Spent, Has
  <2> QED BY <1>1, <1>4, <2>1, <2>2, DestroysWork
<1> QED BY <1>3, <1>4

LEMMA SetItemPositionsWorks == TInv /\ SetItemPositions => Result
<1> SUFFICES ASSUME TInv, SetItemPositions PROVE Result
  OBVIOUS
<1>1. Handled /\ Head(inbox).op = "move" /\ NoNew /\ UNCHANGED base
  BY Handles, OpIs DEF SetItemPositions
<1>2. PICK ids, at : ids = Head(inbox).items /\ at = Head(inbox).pos
  OBVIOUS
<1>3. at \in 0..1 /\ Len(ids) \in Nat
  BY <1>1, <1>2, HeadOK DEF RequestOK
<1>4. PICK found : found = {k \in 1..Len(ids) : \A m \in 1..k : Has(ids[m])}
  OBVIOUS
<1>5. PICK moved : moved = [i \in {ids[k] : k \in found} |-> [items[i] EXCEPT !.pos = at]]
  OBVIOUS
<1>6. /\ items' = With(items, moved)
      /\ IF found = 1..Len(ids) THEN SendBoth(moved, {}, NoBases) ELSE Failed
  BY <1>2, <1>4, <1>5 DEF SetItemPositions
<1>7. ItemsOK(items) /\ BaseOK(base)
  BY ItemsAre
<1>8. \A k \in found : Has(ids[k])
  BY <1>3, <1>4
<1>9. DOMAIN moved = {ids[k] : k \in found} /\ DOMAIN moved \subseteq DOMAIN items
  BY <1>5, <1>8 DEF Has
<1>10. ASSUME NEW i \in DOMAIN moved
       PROVE  /\ moved[i] \in Item
              /\ moved[i].def = items[i].def /\ moved[i].box = items[i].box /\ moved[i].count = items[i].count
              /\ moved[i].kills = items[i].kills /\ moved[i].sticker = items[i].sticker
  <2>1. PICK x \in Item : x = items[i]
    BY <1>7, <1>9, <1>10 DEF ItemsOK
  <2>2. PICK y : y = [x EXCEPT !.pos = at]
    OBVIOUS
  <2>3. moved[i] = y
    BY <1>5, <1>9, <1>10, <2>1, <2>2
  <2>4. y \in Item /\ y.def = x.def /\ y.box = x.box /\ y.count = x.count /\ y.kills = x.kills /\ y.sticker = x.sticker
    BY <1>3, <2>1, <2>2 DEF Item
  <2> QED BY <2>1, <2>3, <2>4
<1>11. ItemsOK(moved)
  BY <1>7, <1>9, <1>10 DEF ItemsOK
<1>12. Does(moved, {})
  BY <1>6, <1>7, <1>11, DoesOnly
<1>13. found = 1..Len(ids) \/ ~Meant(Head(inbox))
  BY <1>1, <1>2, <1>3, <1>4 DEF Meant
<1>14. Sent(moved, {}, NoBases)
  BY <1>1, <1>6, <1>9, <1>13 DEF Sent, Partial, Has
<1>15. BasesTo(NoBases)
  BY <1>1, <1>7, BasesKept
<1>16. Modest(moved) /\ Spent({}) /\ (Kits(items) => Kits(moved)) /\ \A j \in DOMAIN moved : Has(j)
  BY <1>9, <1>10 DEF Modest, Spent, Counting, Kits, Has
<1>17. Work(moved, {}, NoBases)
  BY <1>1, <1>10, <1>12, <1>14, <1>15, <1>16 DEF Work
<1> QED BY <1>1, <1>17, StaysLast DEF Result

LEMMA UsedUp ==
  ASSUME TInv, NEW i
  PROVE  /\ Used(i) \subseteq DOMAIN items
         /\ Unboxed(items) => Spent(Used(i))
         /\ \A defs : Free(i, defs) /\ "casket" \notin defs => Spent(Used(i))
<1>1. Used(i) \subseteq DOMAIN items /\ \A j \in Used(i) : j = i
  BY DEF Used
<1>2. \A j \in DOMAIN items : j # 0
  BY ItemsAre, Counters
<1> QED BY <1>1, <1>2 DEF Unboxed, Spent, Free

LEMMA ApplyStickerWorks == TInv /\ ApplySticker => Result
<1> SUFFICES ASSUME TInv, ApplySticker PROVE Result
  OBVIOUS
<1>1. Handled /\ Head(inbox).op = "sticker" /\ UNCHANGED base
  BY Handles, OpIs DEF ApplySticker
<1>2. PICK i, s : i = Head(inbox).item /\ s = Head(inbox).with
  OBVIOUS
<1>3. CASE ~Has(s) \/ (i # 0 /\ ~Has(i))
  <2>1. UNCHANGED <<items, base, last>> /\ Failed
    BY <1>1, <1>2, <1>3 DEF ApplySticker
  <2> QED BY <1>1, <2>1, NoWork
<1>4. ASSUME ~(~Has(s) \/ (i # 0 /\ ~Has(i))) PROVE Result
  <2>1. PICK kit : kit = items[s].sticker
    OBVIOUS
  <2>2. PICK old : old = IF i = 0 THEN Fresh("base") ELSE items[i]
    OBVIOUS
  <2>3. PICK x : x = [old EXCEPT !.sticker = IF kit = Bare THEN @ ELSE kit]
    OBVIOUS
  <2>4. PICK used : used = IF kit = Bare THEN {} ELSE Used(s)
    OBVIOUS
  <2>5. PICK n : n = IF i = 0 THEN NextId ELSE i
    OBVIOUS
  <2>6. /\ i = 0 => HasRoom
        /\ IF i = 0 THEN Allocate ELSE NoNew
        /\ items' = Without(With(items, One(n, x)), used)
        /\ IF kit = Bare THEN Failed ELSE SendBoth(One(n, x), used, NoBases)
    BY <1>2, <1>4, <2>1, <2>2, <2>3, <2>4, <2>5 DEF ApplySticker
  <2>7. used \subseteq DOMAIN items
    BY <2>4, UsedUp
  <2>8. kit \in Bare..Patch
    BY <1>4, <2>1, ItemsAre DEF Has, Item
  <2>9. old \in Item /\ (i = 0 => old.def = "base" /\ old.box = 0 /\ old.count = -1 /\ old.kills = -1)
    BY <1>4, <2>2, ItemsAre, FreshIsItem DEF Has, Defs
  <2>10. x \in Item /\ x.def = old.def /\ x.box = old.box /\ x.count = old.count /\ x.kills = old.kills
    BY <2>3, <2>8, <2>9 DEF Item
  <2>11. Meant(Head(inbox)) => Free(s, {"sticker", "patch"}) /\ (i # 0 => Free(i, Guns))
    BY <1>1, <1>2 DEF Meant
  <2>12. Meant(Head(inbox)) \/ Unboxed(items) => Spent(used)
    <3>1. Free(s, {"sticker", "patch"}) => Spent(Used(s))
      BY UsedUp
    <3>2. Spent({}) /\ (Unboxed(items) => Spent(Used(s)))
      BY UsedUp DEF Spent
    <3> QED BY <2>4, <2>11, <3>1, <3>2
  <2>13. Meant(Head(inbox)) /\ Kits(items) => kit # Bare
    BY <2>1, <2>11 DEF Free, Kits, Has
  <2>14. Meant(Head(inbox)) => x.def \notin {"sticker", "patch"}
    BY <2>2, <2>9, <2>10, <2>11 DEF Free, Guns
  <2>15. Sent(One(n, x), used, NoBases)
    <3>1. \A j \in DOMAIN One(n, x) : ~Has(j) => One(n, x)[j].kills = -1
      BY <1>4, <2>2, <2>5, <2>9, <2>10 DEF One
    <3> QED BY <1>1, <2>6, <2>13, <3>1 DEF Sent, Partial
  <2>16. CASE i = 0
    <3>1. HasRoom /\ Allocate /\ n = NextId /\ x.box = 0 /\ x.def = "base"
      BY <2>5, <2>6, <2>9, <2>10, <2>16
    <3>2. items' = Without(With(items, One(NextId, x)), used) /\ Sent(One(NextId, x), used, NoBases)
      BY <2>6, <2>15, <3>1
    <3>3. x.def \notin {"sticker", "patch"} /\ x.def # "casket"
      BY <3>1
    <3> QED BY <1>1, <2>7, <2>10, <2>12, <3>1, <3>2, <3>3, MakesWork
  <2>17. CASE i # 0
    <3>1. NoNew /\ Has(i) /\ old = items[i] /\ n = i
      BY <1>4, <2>2, <2>5, <2>6, <2>17
    <3>2. items' = Without(With(items, One(i, x)), used) /\ Sent(One(i, x), used, NoBases)
      BY <2>6, <2>15, <3>1
    <3>3. Counting(items[i], x) /\ x.def = items[i].def /\ x.box = items[i].box /\ x.kills = items[i].kills
      BY <2>10, <3>1 DEF Counting
    <3> QED BY <1>1, <2>7, <2>10, <2>12, <2>14, <3>1, <3>2, <3>3, SetsWork
  <2> QED BY <2>16, <2>17
<1> QED BY <1>3, <1>4

LEMMA StrippedWorks ==
  ASSUME TInv, Handled, NoNew, UNCHANGED base, Head(inbox).op \in {"scrape", "unname"},
         NEW i, i = Head(inbox).item, Has(i), NEW x \in Item, Stripped(i, x),
         x.def = items[i].def, x.box = items[i].box, x.count = items[i].count, x.kills = items[i].kills
  PROVE  Result
<1>1. Meant(Head(inbox)) => Free(i, Guns)
  BY DEF Meant
<1>2. Head(inbox).op # "kill"
  OBVIOUS
<1>3. CASE items[i].def = "base"
  <2>1. items' = Without(items, {i}) /\ SendBoth(<<>>, {i}, NoBases)
    BY <1>3 DEF Stripped
  <2>2. Meant(Head(inbox)) \/ Unboxed(items) => Spent({i})
    BY <1>1, <1>3 DEF Free, Unboxed, Spent, Has
  <2> QED BY <2>1, <2>2, DestroysWork
<1>4. CASE items[i].def # "base"
  <2>1. items' = With(items, One(i, x)) /\ SendBoth(One(i, x), {}, NoBases)
    BY <1>4 DEF Stripped
  <2>2. Meant(Head(inbox)) /\ Kits(items) => (x.def \in {"sticker", "patch"} => x.sticker # Bare)
    BY <1>1 DEF Free, Guns
  <2> QED BY <1>2, <2>1, <2>2, SetsAlone
<1> QED BY <1>3, <1>4

LEMMA ScrapeStickerWorks == TInv /\ ScrapeSticker => Result
<1> SUFFICES ASSUME TInv, ScrapeSticker PROVE Result
  OBVIOUS
<1>1. Handled /\ Head(inbox).op = "scrape" /\ NoNew /\ UNCHANGED base
  BY Handles, OpIs DEF ScrapeSticker
<1>2. PICK i : i = Head(inbox).item
  OBVIOUS
<1>3. CASE ~Has(i)
  <2>1. UNCHANGED <<items, base, last>> /\ Failed
    BY <1>1, <1>2, <1>3 DEF ScrapeSticker, NoNew
  <2> QED BY <1>1, <2>1, NoWork
<1>4. CASE Has(i) /\ items[i].sticker \in 0..(Wear - 1)
  <2>1. PICK x \in Item : x = items[i]
    BY <1>4, ItemsAre DEF Has
  <2>2. PICK y : y = [x EXCEPT !.sticker = x.sticker + 1]
    OBVIOUS
  <2>3. items' = With(items, One(i, y)) /\ SendBoth(One(i, y), {}, NoBases)
    BY <1>2, <1>4, <2>1, <2>2 DEF ScrapeSticker
  <2>4. x.sticker + 1 \in Bare..Patch /\ x.sticker + 1 # Bare
    BY <1>4, <2>1, Counters DEF Bare, Patch
  <2>5. y \in Item /\ y.def = x.def /\ y.box = x.box /\ y.count = x.count /\ y.kills = x.kills /\ y.sticker # Bare
    BY <2>1, <2>2, <2>4 DEF Item
  <2>6. Head(inbox).op # "kill"
    BY <1>1
  <2> QED BY <1>1, <1>4, <2>1, <2>3, <2>5, <2>6, SetsAlone
<1>5. CASE Has(i) /\ items[i].sticker \notin 0..(Wear - 1)
  <2>1. PICK x \in Item : x = items[i]
    BY <1>5, ItemsAre DEF Has
  <2>2. PICK y : y = [x EXCEPT !.sticker = Bare]
    OBVIOUS
  <2>3. Stripped(i, y)
    BY <1>2, <1>5, <2>1, <2>2 DEF ScrapeSticker
  <2>4. Bare \in Bare..Patch
    BY Counters DEF Bare, Patch
  <2>5. y \in Item /\ y.def = x.def /\ y.box = x.box /\ y.count = x.count /\ y.kills = x.kills
    BY <2>1, <2>2, <2>4 DEF Item
  <2> QED BY <1>1, <1>2, <1>5, <2>1, <2>3, <2>5, StrippedWorks
<1> QED BY <1>3, <1>4, <1>5

LEMMA RemoveItemNameWorks == TInv /\ RemoveItemName => Result
<1> SUFFICES ASSUME TInv, RemoveItemName PROVE Result
  OBVIOUS
<1>1. Handled /\ Head(inbox).op = "unname" /\ NoNew /\ UNCHANGED base
  BY Handles, OpIs DEF RemoveItemName
<1>2. PICK i : i = Head(inbox).item
  OBVIOUS
<1>3. CASE ~Has(i)
  <2>1. UNCHANGED <<items, base, last>> /\ Failed
    BY <1>1, <1>2, <1>3 DEF RemoveItemName, NoNew
  <2> QED BY <1>1, <2>1, NoWork
<1>4. CASE Has(i)
  <2>1. PICK x \in Item : x = items[i]
    BY <1>4, ItemsAre DEF Has
  <2>2. PICK y : y = [x EXCEPT !.name = None]
    OBVIOUS
  <2>3. Stripped(i, y)
    BY <1>2, <1>4, <2>1, <2>2 DEF RemoveItemName
  <2>4. y \in Item /\ y.def = x.def /\ y.box = x.box /\ y.count = x.count /\ y.kills = x.kills
    BY <2>1, <2>2 DEF Item
  <2> QED BY <1>1, <1>2, <1>4, <2>1, <2>3, <2>4, StrippedWorks
<1> QED BY <1>3, <1>4

LEMMA NameItemWorks == TInv /\ NameItem => Result
<1> SUFFICES ASSUME TInv, NameItem PROVE Result
  OBVIOUS
<1>1. Handled /\ Head(inbox).op = "name" /\ NoNew /\ UNCHANGED base
  BY Handles, OpIs DEF NameItem
<1>2. PICK i, t, name : i = Head(inbox).item /\ t = Head(inbox).with /\ name = Head(inbox).name
  OBVIOUS
<1>3. CASE ~Has(i)
  <2>1. UNCHANGED <<items, base, last>> /\ Failed
    BY <1>1, <1>2, <1>3 DEF NameItem, NoNew
  <2> QED BY <1>1, <2>1, NoWork
<1>4. CASE Has(i)
  <2>1. PICK x \in Item : x = items[i]
    BY <1>4, ItemsAre DEF Has
  <2>2. PICK count : count = IF x.def = "casket" /\ x.count = -1 THEN 0 ELSE x.count
    OBVIOUS
  <2>3. PICK y : y = [x EXCEPT !.name = name, !.count = count]
    OBVIOUS
  <2>4. PICK used : used = IF t = 0 THEN {} ELSE Used(t)
    OBVIOUS
  <2>5. /\ items' = Without(With(items, One(i, y)), used)
        /\ IF t = 0 \/ ~world.destroy \/ Has(t) THEN SendBoth(One(i, y), used, NoBases) ELSE Failed
    BY <1>2, <1>4, <2>1, <2>2, <2>3, <2>4 DEF NameItem
  <2>6. name \in {None, "plain", "quoted"} /\ count \in -1..Capacity
    BY <1>1, <1>2, <2>1, <2>2, HeadOK, Counters DEF RequestOK, Item
  <2>7. y \in Item /\ y.def = x.def /\ y.box = x.box /\ y.count = count /\ y.kills = x.kills /\ y.sticker = x.sticker
    BY <2>1, <2>3, <2>6 DEF Item
  <2>8. used \subseteq DOMAIN items
    BY <2>4, UsedUp
  <2>9. Meant(Head(inbox)) => Free(i, Guns \cup {"casket"}) /\ (t # 0 => Free(t, {"tag"}))
    BY <1>1, <1>2 DEF Meant
  <2>10. Meant(Head(inbox)) \/ Unboxed(items) => Spent(used)
    <3>1. Free(t, {"tag"}) => Spent(Used(t))
      BY UsedUp
    <3>2. Spent({}) /\ (Unboxed(items) => Spent(Used(t)))
      BY UsedUp DEF Spent
    <3> QED BY <2>4, <2>9, <3>1, <3>2
  <2>11. Sent(One(i, y), used, NoBases)
    BY <1>1, <1>4, <2>5, <2>9 DEF Sent, Partial, Free, One
  <2>12. Counting(x, y)
    BY <2>2, <2>7 DEF Counting
  <2>13. Kits(items) => (y.def \in {"sticker", "patch"} => y.sticker # Bare)
    BY <1>4, <2>1, <2>7 DEF Kits, Has
  <2> QED BY <1>1, <1>4, <2>1, <2>5, <2>7, <2>8, <2>10, <2>11, <2>12, <2>13, SetsWork
<1> QED BY <1>3, <1>4

LEMMA NameBaseItemWorks == TInv /\ NameBaseItem => Result
<1> SUFFICES ASSUME TInv, NameBaseItem PROVE Result
  OBVIOUS
<1>1. Handled /\ Head(inbox).op = "namebase" /\ UNCHANGED base /\ HasRoom /\ Allocate
  BY Handles, OpIs DEF NameBaseItem
<1>2. PICK t, name : t = Head(inbox).with /\ name = Head(inbox).name
  OBVIOUS
<1>3. PICK y : y = [Fresh("base") EXCEPT !.name = name]
  OBVIOUS
<1>4. /\ items' = Without(With(items, One(NextId, y)), Used(t))
      /\ IF world.destroy /\ ~Has(t) THEN Failed ELSE SendBoth(One(NextId, y), Used(t), NoBases)
  BY <1>2, <1>3 DEF NameBaseItem
<1>5. name \in {None, "plain", "quoted"}
  BY <1>1, <1>2, HeadOK DEF RequestOK
<1>6. PICK x \in Item : x = Fresh("base") /\ x.def = "base" /\ x.box = 0 /\ x.kills = -1
  BY FreshIsItem DEF Defs
<1>7. y \in Item /\ y.def = "base" /\ y.box = 0 /\ y.kills = -1
  BY <1>3, <1>5, <1>6 DEF Item
<1>8. Meant(Head(inbox)) => Free(t, {"tag"})
  BY <1>1, <1>2 DEF Meant
<1>9. Used(t) \subseteq DOMAIN items /\ (Unboxed(items) => Spent(Used(t))) /\ (Free(t, {"tag"}) => Spent(Used(t)))
  BY UsedUp
<1>10. Sent(One(NextId, y), Used(t), NoBases)
  BY <1>1, <1>4, <1>7, <1>8 DEF Sent, Partial, Free, One
<1>11. y.def # "casket" /\ y.def \notin {"sticker", "patch"}
  BY <1>7
<1> QED BY <1>1, <1>4, <1>7, <1>8, <1>9, <1>10, <1>11, MakesWork

LEMMA IncrementKillCountWorks == TInv /\ IncrementKillCount => Result
<1> SUFFICES ASSUME TInv, IncrementKillCount PROVE Result
  OBVIOUS
<1>1. Handled /\ Head(inbox).op = "kill" /\ NoNew /\ UNCHANGED base
  BY Handles, OpIs DEF IncrementKillCount
<1>2. PICK i : i = Head(inbox).item
  OBVIOUS
<1>3. CASE ~Has(i) \/ items[i].kills = -1
  <2>1. UNCHANGED <<items, base, last>> /\ Failed
    BY <1>1, <1>2, <1>3 DEF IncrementKillCount, NoNew
  <2> QED BY <1>1, <2>1, NoWork
<1>4. CASE ~(~Has(i) \/ items[i].kills = -1)
  <2>1. PICK x \in Item : x = items[i]
    BY <1>4, ItemsAre DEF Has
  <2>2. PICK y : y = [x EXCEPT !.kills = x.kills + 1]
    OBVIOUS
  <2>3. items' = With(items, One(i, y)) /\ SendBoth(One(i, y), {}, NoBases)
    BY <1>2, <1>4, <2>1, <2>2 DEF IncrementKillCount
  <2>4. x.kills < Kills
    <3>1. 1 \in 1..Len(inbox) /\ Head(inbox) = inbox[1]
      BY <1>1, TakenFirst DEF TInv, Handled
    <3> QED BY <1>1, <1>2, <1>4, <2>1, <3>1 DEF TInv, KillIsCounted
  <2>5. x.kills + 1 \in -1..Kills
    BY <2>1, <2>4, Counters DEF Item
  <2>6. y \in Item /\ y.def = x.def /\ y.box = x.box /\ y.count = x.count /\ y.sticker = x.sticker
    BY <2>1, <2>2, <2>5 DEF Item
  <2>7. Kits(items) => (y.def \in {"sticker", "patch"} => y.sticker # Bare)
    BY <1>4, <2>1, <2>6 DEF Kits, Has
  <2> QED BY <1>1, <1>4, <2>1, <2>3, <2>6, <2>7, SetsAlone
<1> QED BY <1>3, <1>4

LEMMA CasketWorks ==
  ASSUME TInv, NEW op \in Boxing, NEW delta \in Int, NEW box \in BOOLEAN, Casket(op, delta, box)
  PROVE  Result
<1>1. Handled /\ Head(inbox).op = op /\ NoNew /\ UNCHANGED base
  BY Handles, OpIs DEF Casket
<1>2. PICK c, i : c = Head(inbox).with /\ i = Head(inbox).item
  OBVIOUS
<1>3. CASE ~Has(c) \/ ~Has(i) \/ items[c].def # "casket" \/ ~Counts(c, delta)
  <2>1. UNCHANGED <<items, base, last>> /\ Failed
    BY <1>1, <1>2, <1>3 DEF Casket, NoNew
  <2> QED BY <1>1, <2>1, NoWork
<1>4. ASSUME ~(~Has(c) \/ ~Has(i) \/ items[c].def # "casket" \/ ~Counts(c, delta)) PROVE Result
  <2>1. PICK x \in Item : x = items[i]
    BY <1>4, ItemsAre DEF Has
  <2>2. PICK u \in Item : u = items[c]
    BY <1>4, ItemsAre DEF Has
  <2>3. PICK stored, unit : /\ stored = [x EXCEPT !.box = IF box THEN c ELSE 0, !.eq = IF box THEN {} ELSE @]
                            /\ unit = [u EXCEPT !.count = u.count + delta]
    OBVIOUS
  <2>4. PICK objs : objs = With(One(c, unit), One(i, stored))
    OBVIOUS
  <2>5. items' = With(items, objs) /\ SendGame(objs, {}, NoBases)
    BY <1>2, <1>4, <2>1, <2>2, <2>3, <2>4 DEF Casket, NoBases
  <2>6. c \in ItemIds /\ i \in ItemIds /\ c \in 0..Ids /\ ItemsOK(items) /\ BaseOK(base) /\ Ids \in Nat
    BY <1>4, ItemsAre, Counters DEF Has, ItemIds
  <2>7. stored \in Item /\ stored.kills = x.kills /\ stored.def = x.def /\ stored.sticker = x.sticker
    <3>1. PICK b, e : b = (IF box THEN c ELSE 0) /\ e = (IF box THEN {} ELSE x.eq)
      OBVIOUS
    <3>2. 0 \in 0..Ids
      BY <2>6
    <3>3. b \in 0..Ids /\ e \in SUBSET Places
      BY <2>1, <2>6, <3>1, <3>2 DEF Item
    <3>4. stored = [x EXCEPT !.box = b, !.eq = e]
      BY <2>3, <3>1
    <3> QED BY <2>1, <3>3, <3>4 DEF Item
  <2>8. u.count + delta \in -1..Capacity
    BY <1>4, <2>2, Counters DEF Counts, Item
  <2>9. unit \in Item /\ unit.kills = u.kills /\ unit.def = u.def /\ unit.sticker = u.sticker
    BY <2>2, <2>3, <2>8 DEF Item
  <2>10. DOMAIN objs = {c, i} /\ objs[i] = stored /\ (c # i => objs[c] = unit)
    BY <2>4 DEF With, One
  <2>11. ItemsOK(objs)
    BY <2>6, <2>7, <2>9, <2>10 DEF ItemsOK
  <2>12. Does(objs, {})
    BY <2>5, <2>6, <2>11, DoesOnly
  <2>13. BasesTo(NoBases) /\ Sent(objs, {}, NoBases)
    BY <1>1, <2>5, <2>6, BasesKept DEF Sent
  <2>14. \A j \in DOMAIN objs : Has(j) /\ objs[j].kills = items[j].kills /\ objs[j].def = items[j].def /\ objs[j].sticker = items[j].sticker
    BY <1>4, <2>1, <2>2, <2>7, <2>9, <2>10
  <2>15. Work(objs, {}, NoBases)
    BY <1>1, <2>12, <2>13, <2>14 DEF Work, Kits, Has
  <2> QED BY <1>1, <2>15, StaysLast DEF Result
<1> QED BY <1>3, <1>4

LEMMA HandlersWork == TInv /\ Handle => Result \/ OnClientHello \/ HandleSOCacheRequest
<1>1. TInv /\ (CasketItemAdd \/ CasketItemExtract) => Result
  <2>1. 1 \in Int /\ -1 \in Int /\ TRUE \in BOOLEAN /\ FALSE \in BOOLEAN /\ "store" \in Boxing /\ "take" \in Boxing
    BY DEF Boxing
  <2> QED BY <2>1, CasketWorks DEF CasketItemAdd, CasketItemExtract
<1> QED BY <1>1, EquipWorks, EquipBaseWorks, ClearPlaceWorks, UnequipWorks, UseItemWorks, UnlockCrateWorks, StorePurchaseInitWorks,
        DeleteItemWorks, SetItemPositionsWorks, ApplyStickerWorks, ScrapeStickerWorks, RemoveItemNameWorks, NameItemWorks,
        NameBaseItemWorks, IncrementKillCountWorks DEF Handle

---------------------------------------------------------------------------
(* The types.                                                              *)

\* A copy that is told.
LEMMA ToldFacts ==
  ASSUME NEW copy, CopyOK(copy), NEW objs, ItemsOK(objs), NEW ids, NEW b, DOMAIN b \subseteq Places,
         \A p \in DOMAIN b : b[p] \in Bases \cup {None}
  PROVE  /\ CopyOK(Told(copy, objs, ids, b))
         /\ DOMAIN Told(copy, objs, ids, b).items = (DOMAIN copy.items \cup DOMAIN objs) \ ids
         /\ \A j \in (DOMAIN copy.items \cup DOMAIN objs) \ ids :
              Told(copy, objs, ids, b).items[j] = IF j \in DOMAIN objs THEN objs[j] ELSE copy.items[j]
         /\ \A p \in Places : Told(copy, objs, ids, b).base[p] = IF p \in DOMAIN b THEN b[p] ELSE copy.base[p]
<1>1. PICK f, g, told : f = With(copy.items, objs) /\ g = With(copy.base, b) /\ told = Told(copy, objs, ids, b)
  OBVIOUS
<1>2. told.items = Without(f, ids) /\ told.base = g
  BY <1>1 DEF Told
<1>3. DOMAIN f = DOMAIN copy.items \cup DOMAIN objs /\ \A j \in DOMAIN f : f[j] = IF j \in DOMAIN objs THEN objs[j] ELSE copy.items[j]
  BY <1>1 DEF With
<1>4. DOMAIN told.items = DOMAIN f \ ids /\ \A j \in DOMAIN f \ ids : told.items[j] = f[j]
  BY <1>2 DEF Without
<1>5. copy.base \in [Places -> Bases \cup {None}] /\ ItemsOK(copy.items)
  BY DEF CopyOK
<1>6. g \in [Places -> Bases \cup {None}] /\ \A p \in Places : g[p] = IF p \in DOMAIN b THEN b[p] ELSE copy.base[p]
  BY <1>1, <1>5 DEF With
<1>7. ItemsOK(told.items)
  BY <1>3, <1>4, <1>5 DEF ItemsOK
<1>8. CopyOK(told)
  BY <1>2, <1>6, <1>7 DEF CopyOK
<1> QED BY <1>1, <1>2, <1>3, <1>4, <1>6, <1>8

LEMMA NoCopyOK == CopyOK(NoCopy) /\ DOMAIN NoCopy.items = {}
<1>1. NoCopy.items = NoBases /\ NoCopy.base = [p \in Places |-> None]
  BY DEF NoCopy, NoBases
<1>2. ItemsOK(NoCopy.items) /\ DOMAIN NoCopy.items = {}
  BY <1>1, NoneAt DEF ItemsOK
<1> QED BY <1>1, <1>2 DEF CopyOK

LEMMA CopyIsOK ==
  ASSUME ItemsOK(items), BaseOK(base), NEW ids, ids \subseteq DOMAIN items
  PROVE  /\ CopyOK(Copy(ids)) /\ DOMAIN Copy(ids).items = ids /\ \A i \in ids : Copy(ids).items[i] = items[i]
         /\ \A p \in Places : Copy(ids).base[p] = BaseAt(p)
<1>1. PICK c : c = Copy(ids)
  OBVIOUS
<1>2. c.items = [i \in ids |-> items[i]] /\ c.base = [p \in Places |-> BaseAt(p)]
  BY <1>1 DEF Copy
<1>3. DOMAIN c.items = ids /\ \A i \in ids : c.items[i] = items[i]
  BY <1>2
<1>4. ItemsOK(c.items)
  BY <1>3 DEF ItemsOK
<1>5. c.base \in [Places -> Bases \cup {None}]
  BY <1>2, BaseTypes
<1>6. CopyOK(c)
  BY <1>4, <1>5 DEF CopyOK
<1> QED BY <1>1, <1>2, <1>3, <1>6

\* Only what is taken leaves the queue.
LEMMA TakenKinds ==
  ASSUME TInv, Handled
  PROVE  Queue' /\ Requests' /\ Len(inbox') <= Room + 1 /\ UNCHANGED world
<1>1. UNCHANGED world /\ Queue' /\ Len(inbox) \in Nat /\ Len(inbox') = Len(inbox) - 1 /\ Waits' \subseteq Waits
  BY TakenFirst DEF TInv, Handled
<1>2. Len(inbox) <= Room + 1 /\ Room \in Nat
  BY Counters DEF TInv, TypeOK
<1>3. Requests'
  BY <1>1 DEF TInv, Requests, RequestOK
<1> QED BY <1>1, <1>2, <1>3

LEMMA WorkTypes ==
  ASSUME TInv, IInv', Handled, Moves, NEW objs, NEW ids, NEW b, Work(objs, ids, b)
  PROVE  TypeOK'
<1>1. /\ ItemsOK(objs) /\ ItemsOK(items') /\ BaseOK(base') /\ DOMAIN b \subseteq Places
      /\ \A p \in DOMAIN b : b[p] \in Bases \cup {None}
  BY DEF Work, Does, BasesTo
<1>2. CopyOK(client) /\ CopyOK(server)
  BY DEF TInv, TypeOK
<1>3. CopyOK(client')
  <2>1. client' = client \/ client' = Told(client, objs, ids, b)
    BY DEF Work, Sent, SendBoth, SendGame, Failed
  <2> QED BY <1>1, <1>2, <2>1, ToldFacts
<1>4. CopyOK(server')
  <2>1. server' = server \/ server' = Told(server, objs, ids, b)
    BY DEF Work, Sent, SendBoth, SendGame, Failed, ToServer
  <2> QED BY <1>1, <1>2, <2>1, ToldFacts
<1>5. /\ UNCHANGED <<disk, greeted, joined, starts, world>> /\ ItemsOK(disk.items) /\ BaseOK(disk.base)
      /\ greeted \in BOOLEAN /\ joined \in BOOLEAN /\ starts \in 0..world.ends /\ world \in Worlds
  BY DEF Handled, TInv, TypeOK
<1>6. Len(inbox') <= Room + 1
  BY TakenKinds
<1>7. gone' \subseteq ItemIds
  BY DEF IInv, Upwards
<1>8. last' \in 0..Ids
  BY DEF Moves
<1> QED BY <1>1, <1>3, <1>4, <1>5, <1>6, <1>7, <1>8 DEF TypeOK

LEMMA IdleTypes ==
  ASSUME TInv, IInv', Handled, Idle
  PROVE  TypeOK'
<1>1. Len(inbox') <= Room + 1 /\ gone' \subseteq ItemIds
  BY TakenKinds DEF IInv, Upwards
<1> QED BY <1>1 DEF TInv, TypeOK, Handled, Idle, ItemsOK, BaseOK, CopyOK

\* The counts stay below the limit, and one request to count is handled once.
LEMMA WorkKills ==
  ASSUME TInv, IInv', TypeOK', Handled, Moves, NEW objs, NEW ids, NEW b, Work(objs, ids, b)
  PROVE  KillIsCounted'
<1>1. /\ Len(inbox) \in Nat /\ Len(inbox') = Len(inbox) - 1 /\ Len(inbox) >= 1 /\ Head(inbox) = inbox[1]
      /\ \A k \in 1..Len(inbox') : k + 1 \in 1..Len(inbox) /\ inbox'[k] = inbox[k + 1]
  BY TakenFirst DEF TInv, Handled
<1>2. last \in Nat /\ last' \in Nat /\ last' >= last
  BY Counters DEF TInv, TypeOK, Moves
<1>3. ItemsOK(items) /\ ItemsOK(items') /\ ItemsOK(objs) /\ IInv
  BY ItemsAre DEF TInv, Work, Does
<1>4. ASSUME NEW j \in DOMAIN items' PROVE items'[j].kills = IF j \in DOMAIN objs THEN objs[j].kills ELSE items[j].kills
  <2>1. PICK x, y : x = items'[j] /\ y = (IF j \in DOMAIN objs THEN objs[j] ELSE items[j])
    OBVIOUS
  <2>2. Plain(x) = Plain(y) /\ (j \in DOMAIN objs \/ j \in DOMAIN items)
    BY <2>1, <1>4 DEF Work, Does
  <2>3. x \in Item /\ y \in Item
    BY <1>3, <1>4, <2>1, <2>2 DEF ItemsOK
  <2>4. x.kills = y.kills
    BY <2>2, <2>3, PlainFields
  <2> QED BY <2>1, <2>4
<1>5. \A j \in DOMAIN items' : ~Has(j) => j \in DOMAIN objs /\ j > last
  BY DEF Work, Does, Has
<1>6. ASSUME NEW k \in 1..Len(inbox'), inbox'[k].op = "kill"
      PROVE  /\ inbox'[k].item \in ItemIds /\ inbox'[k].item <= last'
             /\ inbox'[k].item \in DOMAIN items' => items'[inbox'[k].item].kills < Kills
             /\ \A m \in 1..Len(inbox') : inbox'[m].op = "kill" => m = k
  <2>1. k + 1 \in 1..Len(inbox) /\ inbox'[k] = inbox[k + 1]
    BY <1>1
  <2>2. PICK i \in ItemIds : i = inbox'[k].item /\ i <= last /\ (Has(i) => items[i].kills < Kills)
    BY <1>6, <2>1 DEF TInv, KillIsCounted
  <2>3. \A m \in 1..Len(inbox) : inbox[m].op = "kill" => m = k + 1
    BY <1>6, <2>1 DEF TInv, KillIsCounted
  <2>4. 1 \in 1..Len(inbox) /\ 1 # k + 1
    BY <1>1
  <2>5. Head(inbox).op # "kill"
    BY <1>1, <2>3, <2>4
  <2>6. i \in Int /\ i <= last'
    BY <1>2, <2>2, Counters
  <2>7. i \in DOMAIN items' => items'[i].kills < Kills
    <3> SUFFICES ASSUME i \in DOMAIN items' PROVE items'[i].kills < Kills
      OBVIOUS
    <3>1. Has(i)
      BY <1>2, <1>5, <2>2, <2>6
    <3>2. items'[i].kills = items[i].kills
      BY <1>4, <2>5, <3>1 DEF Work
    <3> QED BY <2>2, <3>1, <3>2
  <2>8. \A m \in 1..Len(inbox') : inbox'[m].op = "kill" => m = k
    <3> SUFFICES ASSUME NEW m \in 1..Len(inbox'), inbox'[m].op = "kill" PROVE m = k
      OBVIOUS
    <3>1. m + 1 \in 1..Len(inbox) /\ inbox'[m] = inbox[m + 1]
      BY <1>1
    <3>2. m + 1 = k + 1
      BY <2>3, <3>1
    <3> QED BY <3>2
  <2> QED BY <2>2, <2>6, <2>7, <2>8
<1>7. ~joined' => DOMAIN server'.items = {}
  BY DEF Handled, TInv, KillIsCounted, Work, Sent, SendBoth, SendGame, Failed, ToServer
<1>8. ASSUME NEW i \in DOMAIN server'.items
      PROVE  i <= last' /\ (i \in DOMAIN items' => items'[i].kills <= server'.items[i].kills)
  <2>1. CopyOK(server) /\ CopyOK(server')
    BY DEF TInv, TypeOK
  <2>2. i \in ItemIds /\ i \in Int
    BY <1>8, <2>1, Counters DEF CopyOK, ItemsOK
  <2>3. CASE i \in DOMAIN server.items /\ server'.items[i] = server.items[i] /\ (Has(i) /\ i \in DOMAIN objs => Head(inbox).op # "kill")
    <3>1. i <= last /\ (Has(i) => items[i].kills <= server.items[i].kills)
      BY <2>3 DEF TInv, KillIsCounted
    <3>2. i \in DOMAIN items' => Has(i)
      BY <1>2, <1>5, <2>2, <3>1
    <3>3. i \in DOMAIN items' => items'[i].kills = items[i].kills
      BY <1>4, <2>3, <3>2 DEF Work
    <3> QED BY <1>2, <2>2, <2>3, <3>1, <3>2, <3>3
  <2>4. CASE i \in DOMAIN objs /\ i \in DOMAIN items' /\ server'.items[i] = objs[i]
    <3>1. i <= last'
      BY <2>4 DEF IInv, Upwards
    <3>2. items'[i] \in Item /\ items'[i].kills = server'.items[i].kills /\ items'[i].kills \in Int
      BY <1>3, <1>4, <2>4 DEF ItemsOK, Item
    <3> QED BY <3>1, <3>2
  <2>5. CASE SendBoth(objs, ids, b) /\ joined
    <3>1. server' = Told(server, objs, ids, b)
      BY <2>5 DEF SendBoth, ToServer
    <3>2. DOMAIN b \subseteq Places /\ \A p \in DOMAIN b : b[p] \in Bases \cup {None}
      BY DEF Work, BasesTo
    <3>3. /\ i \in (DOMAIN server.items \cup DOMAIN objs) \ ids
          /\ server'.items[i] = IF i \in DOMAIN objs THEN objs[i] ELSE server.items[i]
      BY <1>3, <1>8, <2>1, <3>1, <3>2, ToldFacts
    <3>4. i \in DOMAIN objs => i \in DOMAIN items'
      BY <3>3 DEF Work, Does
    <3> QED BY <2>3, <2>4, <3>3, <3>4
  <2>6. CASE server' = server /\ Head(inbox).op # "kill"
    BY <1>8, <2>3, <2>6
  <2>7. CASE server' = server /\ ~joined
    BY <1>8, <2>7 DEF TInv, KillIsCounted
  <2>8. \/ SendBoth(objs, ids, b) /\ joined
        \/ server' = server /\ Head(inbox).op # "kill"
        \/ server' = server /\ ~joined
    BY DEF Work, Sent, SendBoth, SendGame, Failed, ToServer, Boxing, Partial
  <2> QED BY <2>5, <2>6, <2>7, <2>8
<1> QED BY <1>6, <1>7, <1>8 DEF KillIsCounted, Has

\* What the game knows is what there is.
Same(f, g) == DOMAIN f = DOMAIN g /\ \A i \in DOMAIN f : Plain(f[i]) = Plain(g[i])
Fair(r) == RequestOK(r) /\ r.op \notin {"kill", "cache"} /\ (Same(client.items, items) => Meant(r))

LEMMA MineIsFree ==
  ASSUME TInv, Same(client.items, items)
  PROVE  /\ \A i \in DOMAIN client.items : /\ Has(i) /\ i # 0 /\ client.items[i].def = items[i].def
                                           /\ client.items[i].box = items[i].box
         /\ \A defs : \A i \in Mine(defs) : Free(i, defs)
         /\ 0 \notin DOMAIN client.items
<1>1. CopyOK(client) /\ ItemsOK(items)
  BY DEF TInv, TypeOK
<1>2. ASSUME NEW i \in DOMAIN client.items
      PROVE  Has(i) /\ i # 0 /\ client.items[i].def = items[i].def /\ client.items[i].box = items[i].box
  <2>1. PICK x, y : x = client.items[i] /\ y = items[i]
    OBVIOUS
  <2>2. Has(i) /\ i \in ItemIds /\ x \in Item /\ y \in Item /\ Plain(x) = Plain(y)
    BY <1>1, <1>2, <2>1 DEF Same, Has, CopyOK, ItemsOK
  <2>3. x.def = y.def /\ x.box = y.box
    BY <2>2, PlainFields
  <2> QED BY <2>1, <2>2, <2>3, Counters
<1>3. \A defs : \A i \in Mine(defs) : Free(i, defs)
  BY <1>2 DEF Mine, Free
<1> QED BY <1>2, <1>3

LEMMA LoadoutAsked ==
  ASSUME TInv, AskLoadout
  PROVE  \E r : Ask(r) /\ Fair(r)
<1>1. ASSUME NEW r, Ask(r), r.op \in {"equip", "base", "clear", "unequip"}, r.op \in {"equip", "base", "clear"} => r.at \in Places,
             r.op = "base" => r.def \in Bases
      PROVE  Fair(r)
  BY <1>1 DEF Ask, Fair, RequestOK, Meant
<1>2. ASSUME NEW r, Ask(r), r.op = "use", r.item \in Mine({"spray"})
      PROVE  Fair(r)
  BY <1>2, MineIsFree DEF Ask, Fair, RequestOK, Meant
<1>3. ASSUME NEW i, NEW p \in Slots, Ask([op |-> "equip", item |-> i, at |-> p]) PROVE \E r : Ask(r) /\ Fair(r)
  <2>1. PICK r : r = [op |-> "equip", item |-> i, at |-> p]
    OBVIOUS
  <2>2. Ask(r) /\ r.op = "equip" /\ r.at \in Places
    BY <1>3, <2>1 DEF Slots
  <2> QED BY <1>1, <2>2
<1>4. ASSUME NEW d \in Bases, NEW p \in Slots, Ask([op |-> "base", def |-> d, at |-> p]) PROVE \E r : Ask(r) /\ Fair(r)
  <2>1. PICK r : r = [op |-> "base", def |-> d, at |-> p]
    OBVIOUS
  <2>2. Ask(r) /\ r.op = "base" /\ r.at \in Places /\ r.def \in Bases
    BY <1>4, <2>1 DEF Slots
  <2> QED BY <1>1, <2>2
<1>5. ASSUME NEW p \in Slots \cup {Graffiti}, Ask([op |-> "clear", at |-> p]) PROVE \E r : Ask(r) /\ Fair(r)
  <2>1. PICK r : r = [op |-> "clear", at |-> p]
    OBVIOUS
  <2>2. Ask(r) /\ r.op = "clear" /\ r.at \in Places
    BY <1>5, <2>1, GraffitiIsAPlace DEF Slots
  <2> QED BY <1>1, <2>2
<1>6. ASSUME NEW i, Ask([op |-> "unequip", item |-> i]) PROVE \E r : Ask(r) /\ Fair(r)
  <2>1. PICK r : r = [op |-> "unequip", item |-> i]
    OBVIOUS
  <2>2. Ask(r) /\ r.op = "unequip"
    BY <1>6, <2>1
  <2> QED BY <1>1, <2>2
<1>7. ASSUME NEW i \in Mine({"spray"}), Ask([op |-> "use", item |-> i]) PROVE \E r : Ask(r) /\ Fair(r)
  <2>1. PICK r : r = [op |-> "use", item |-> i]
    OBVIOUS
  <2>2. Ask(r) /\ r.op = "use" /\ r.item \in Mine({"spray"})
    BY <1>7, <2>1
  <2> QED BY <1>2, <2>2
<1> QED BY <1>3, <1>4, <1>5, <1>6, <1>7 DEF AskLoadout

LEMMA ItemsAsked ==
  ASSUME TInv, AskItems
  PROVE  \E r : Ask(r) /\ Fair(r)
<1>1. ASSUME NEW i \in Mine({"crate"}), NEW k \in Mine({"key"}) \cup {0}, Ask([op |-> "crate", item |-> i, with |-> k])
      PROVE  \E r : Ask(r) /\ Fair(r)
  <2>1. PICK r : r = [op |-> "crate", item |-> i, with |-> k]
    OBVIOUS
  <2>2. Ask(r) /\ r.op = "crate" /\ r.item = i /\ r.with = k
    BY <1>1, <2>1
  <2>3. Fair(r)
    BY <1>1, <2>2, MineIsFree DEF Ask, Fair, RequestOK, Meant
  <2> QED BY <2>2, <2>3
<1>2. ASSUME NEW d \in {"tag", "gun"}, Ask([op |-> "buy", def |-> d])
      PROVE  \E r : Ask(r) /\ Fair(r)
  <2>1. PICK r : r = [op |-> "buy", def |-> d]
    OBVIOUS
  <2>2. Ask(r) /\ r.op = "buy" /\ r.def = d
    BY <1>2, <2>1
  <2>3. Fair(r)
    BY <1>2, <2>2 DEF Ask, Fair, RequestOK, Meant
  <2> QED BY <2>2, <2>3
<1>3. ASSUME NEW i \in DOMAIN client.items, client.items[i].box = 0, Holding(i) = {}, Ask([op |-> "delete", item |-> i])
      PROVE  \E r : Ask(r) /\ Fair(r)
  <2>1. PICK r : r = [op |-> "delete", item |-> i]
    OBVIOUS
  <2>2. Ask(r) /\ r.op = "delete" /\ r.item = i
    BY <1>3, <2>1
  <2>3. ASSUME Same(client.items, items)
        PROVE  Has(i) /\ items[i].box = 0 /\ \A j \in DOMAIN items : items[j].box # i
    <3>1. DOMAIN items = DOMAIN client.items /\ \A j \in DOMAIN client.items : client.items[j].box = items[j].box
      BY <2>3, MineIsFree DEF Same
    <3> QED BY <1>3, <3>1 DEF Holding, Has
  <2>4. Fair(r)
    BY <2>2, <2>3 DEF Ask, Fair, RequestOK, Meant
  <2> QED BY <2>2, <2>4
<1>4. ASSUME NEW i \in DOMAIN client.items, NEW j \in DOMAIN client.items, NEW n \in 0..1,
             Ask([op |-> "move", items |-> IF i = j THEN <<i>> ELSE <<i, j>>, pos |-> n])
      PROVE  \E r : Ask(r) /\ Fair(r)
  <2>1. PICK ids : ids = IF i = j THEN <<i>> ELSE <<i, j>>
    OBVIOUS
  <2>2. PICK r : r = [op |-> "move", items |-> ids, pos |-> n]
    OBVIOUS
  <2>3. Ask(r) /\ r.op = "move" /\ r.items = ids /\ r.pos = n
    BY <1>4, <2>1, <2>2
  <2>4. Len(ids) \in Nat /\ \A k \in 1..Len(ids) : ids[k] = i \/ ids[k] = j
    BY <2>1
  <2>5. Same(client.items, items) => Has(i) /\ Has(j)
    BY <1>4 DEF Same, Has
  <2>6. Fair(r)
    BY <1>4, <2>3, <2>4, <2>5 DEF Ask, Fair, RequestOK, Meant
  <2> QED BY <2>3, <2>6
<1> QED BY <1>1, <1>2, <1>3, <1>4 DEF AskItems

LEMMA NamesAsked ==
  ASSUME TInv, AskNames
  PROVE  \E r : Ask(r) /\ Fair(r)
<1>1. ASSUME NEW s \in Mine({"sticker", "patch"}), NEW i \in Mine(Guns) \cup {0}, Ask([op |-> "sticker", item |-> i, with |-> s])
      PROVE  \E r : Ask(r) /\ Fair(r)
  <2>1. PICK r : r = [op |-> "sticker", item |-> i, with |-> s]
    OBVIOUS
  <2>2. Ask(r) /\ r.op = "sticker" /\ r.item = i /\ r.with = s
    BY <1>1, <2>1
  <2>3. Fair(r)
    BY <1>1, <2>2, MineIsFree DEF Ask, Fair, RequestOK, Meant
  <2> QED BY <2>2, <2>3
<1>2. ASSUME NEW i \in Mine(Guns), NEW op \in {"scrape", "unname"}, Ask([op |-> op, item |-> i])
      PROVE  \E r : Ask(r) /\ Fair(r)
  <2>1. PICK r : r = [op |-> op, item |-> i]
    OBVIOUS
  <2>2. Ask(r) /\ r.op = op /\ r.item = i
    BY <1>2, <2>1
  <2>3. Fair(r)
    BY <1>2, <2>2, MineIsFree DEF Ask, Fair, RequestOK, Meant
  <2> QED BY <2>2, <2>3
<1>3. ASSUME NEW i, NEW t, i \in Mine(Guns) \/ i \in Mine({"casket"}), t = 0 \/ t \in Mine({"tag"}), NEW n \in {"plain", "quoted"},
             Ask([op |-> "name", item |-> i, with |-> t, name |-> n])
      PROVE  \E r : Ask(r) /\ Fair(r)
  <2>1. PICK r : r = [op |-> "name", item |-> i, with |-> t, name |-> n]
    OBVIOUS
  <2>2. Ask(r) /\ r.op = "name" /\ r.item = i /\ r.with = t /\ r.name = n
    BY <1>3, <2>1
  <2>3. Same(client.items, items) => Free(i, Guns \cup {"casket"}) /\ (t # 0 => Free(t, {"tag"}))
    BY <1>3, MineIsFree DEF Free
  <2>4. Fair(r)
    BY <1>3, <2>2, <2>3 DEF Ask, Fair, RequestOK, Meant
  <2> QED BY <2>2, <2>4
<1>4. ASSUME NEW t \in Mine({"tag"}), Ask([op |-> "namebase", with |-> t, name |-> "plain"])
      PROVE  \E r : Ask(r) /\ Fair(r)
  <2>1. PICK r : r = [op |-> "namebase", with |-> t, name |-> "plain"]
    OBVIOUS
  <2>2. Ask(r) /\ r.op = "namebase" /\ r.with = t /\ r.name = "plain"
    BY <1>4, <2>1
  <2>3. Fair(r)
    BY <1>4, <2>2, MineIsFree DEF Ask, Fair, RequestOK, Meant
  <2> QED BY <2>2, <2>3
<1> QED BY <1>1, <1>2, <1>3, <1>4 DEF AskNames

LEMMA CasketsAsked ==
  ASSUME TInv, AskCaskets
  PROVE  \E r : Ask(r) /\ Fair(r)
<1>1. ASSUME NEW c \in Mine({"casket"}), NEW i \in Mine(Guns), Ask([op |-> "store", with |-> c, item |-> i])
      PROVE  \E r : Ask(r) /\ Fair(r)
  <2>1. PICK r : r = [op |-> "store", with |-> c, item |-> i]
    OBVIOUS
  <2>2. Ask(r) /\ r.op = "store" /\ r.item = i /\ r.with = c
    BY <1>1, <2>1
  <2>3. Fair(r)
    BY <1>1, <2>2, MineIsFree DEF Ask, Fair, RequestOK, Meant
  <2> QED BY <2>2, <2>3
<1>2. ASSUME NEW c \in Mine({"casket"}), NEW i \in Holding(c), Ask([op |-> "take", with |-> c, item |-> i])
      PROVE  \E r : Ask(r) /\ Fair(r)
  <2>1. PICK r : r = [op |-> "take", with |-> c, item |-> i]
    OBVIOUS
  <2>2. Ask(r) /\ r.op = "take" /\ r.item = i /\ r.with = c
    BY <1>2, <2>1
  <2>3. Same(client.items, items) => Has(i) /\ items[i].box = c
    BY <1>2, MineIsFree DEF Holding
  <2>4. Fair(r)
    BY <1>2, <2>2, <2>3, MineIsFree DEF Ask, Fair, RequestOK, Meant
  <2> QED BY <2>2, <2>4
<1> QED BY <1>1, <1>2 DEF AskCaskets

LEMMA ResultTypes ==
  ASSUME TInv, IInv', Result
  PROVE  TInv'
<1>1. Handled /\ Moves /\ Queue' /\ Requests'
  BY TakenKinds DEF Result
<1>2. CASE Idle
  <2>1. TypeOK'
    BY <1>1, <1>2, IdleTypes
  <2>2. /\ Len(inbox) \in Nat /\ Len(inbox') = Len(inbox) - 1
        /\ \A k \in 1..Len(inbox') : k + 1 \in 1..Len(inbox) /\ inbox'[k] = inbox[k + 1]
    BY <1>1, TakenFirst DEF TInv, Handled
  <2>3. UNCHANGED <<items, last, server, joined>>
    BY <1>1, <1>2 DEF Idle, Handled
  <2>4. ASSUME NEW k \in 1..Len(inbox'), inbox'[k].op = "kill"
        PROVE  /\ inbox'[k].item \in ItemIds /\ inbox'[k].item <= last
               /\ inbox'[k].item \in DOMAIN items => items[inbox'[k].item].kills < Kills
               /\ \A m \in 1..Len(inbox') : inbox'[m].op = "kill" => m = k
    <3>1. k + 1 \in 1..Len(inbox) /\ inbox'[k] = inbox[k + 1]
      BY <2>2
    <3>2. /\ inbox[k + 1].item \in ItemIds /\ inbox[k + 1].item <= last
          /\ inbox[k + 1].item \in DOMAIN items => items[inbox[k + 1].item].kills < Kills
          /\ \A m \in 1..Len(inbox) : inbox[m].op = "kill" => m = k + 1
      BY <2>4, <3>1 DEF TInv, KillIsCounted, Has
    <3>3. ASSUME NEW m \in 1..Len(inbox'), inbox'[m].op = "kill" PROVE m = k
      <4>1. m + 1 \in 1..Len(inbox) /\ inbox'[m] = inbox[m + 1]
        BY <2>2
      <4>2. m + 1 = k + 1
        BY <3>2, <3>3, <4>1
      <4> QED BY <4>2
    <3> QED BY <3>1, <3>2, <3>3
  <2>5. KillIsCounted'
    BY <2>3, <2>4 DEF TInv, KillIsCounted, Has
  <2> QED BY <1>1, <2>1, <2>5 DEF TInv
<1>3. ASSUME NEW objs, NEW ids, NEW b, Work(objs, ids, b) PROVE TInv'
  <2>1. TypeOK'
    BY <1>1, <1>3, WorkTypes
  <2>2. KillIsCounted'
    BY <1>1, <1>3, <2>1, WorkKills
  <2> QED BY <1>1, <2>1, <2>2 DEF TInv
<1> QED BY <1>2, <1>3 DEF Result

\* A copy that is made anew: of the game, or of the game server.
LEMMA CopiedTypes ==
  ASSUME TInv, IInv', OnClientHello \/ HandleSOCacheRequest
  PROVE  TInv'
<1>1. /\ UNCHANGED <<items, base, last, disk, joined, gone, starts, world>> /\ inbox # <<>> /\ inbox' = Tail(inbox)
      /\ greeted' \in BOOLEAN
      /\ client' = client \/ client' = Copy(DOMAIN items)
      /\ server' = server \/ (joined /\ server' = Copy({i \in DOMAIN items : items[i].eq # {}}))
  BY DEF OnClientHello, HandleSOCacheRequest, Got, TInv, TypeOK
<1>2. /\ Queue' /\ Len(inbox) \in Nat /\ Len(inbox') = Len(inbox) - 1 /\ Waits' \subseteq Waits
      /\ \A k \in 1..Len(inbox') : k + 1 \in 1..Len(inbox) /\ inbox'[k] = inbox[k + 1]
  BY <1>1, TakenFirst DEF TInv
<1>3. Requests'
  BY <1>1, <1>2 DEF TInv, Requests, RequestOK
<1>4. ItemsOK(items) /\ BaseOK(base) /\ {i \in DOMAIN items : items[i].eq # {}} \subseteq DOMAIN items
  BY ItemsAre
<1>5. CopyOK(client') /\ CopyOK(server')
  <2>1. CopyOK(client) /\ CopyOK(server)
    BY DEF TInv, TypeOK
  <2> QED BY <1>1, <1>4, <2>1, CopyIsOK
<1>6. Len(inbox') <= Room + 1
  BY <1>2, Counters DEF TInv, TypeOK
<1>7. TypeOK'
  BY <1>1, <1>5, <1>6 DEF TInv, TypeOK, ItemsOK, BaseOK
<1>8. ASSUME NEW k \in 1..Len(inbox'), inbox'[k].op = "kill"
      PROVE  /\ inbox'[k].item \in ItemIds /\ inbox'[k].item <= last
             /\ inbox'[k].item \in DOMAIN items => items[inbox'[k].item].kills < Kills
             /\ \A m \in 1..Len(inbox') : inbox'[m].op = "kill" => m = k
  <2>1. k + 1 \in 1..Len(inbox) /\ inbox'[k] = inbox[k + 1]
    BY <1>2
  <2>2. /\ inbox[k + 1].item \in ItemIds /\ inbox[k + 1].item <= last
        /\ inbox[k + 1].item \in DOMAIN items => items[inbox[k + 1].item].kills < Kills
        /\ \A m \in 1..Len(inbox) : inbox[m].op = "kill" => m = k + 1
    BY <1>8, <2>1 DEF TInv, KillIsCounted, Has
  <2>3. ASSUME NEW m \in 1..Len(inbox'), inbox'[m].op = "kill" PROVE m = k
    <3>1. m + 1 \in 1..Len(inbox) /\ inbox'[m] = inbox[m + 1]
      BY <1>2
    <3>2. m + 1 = k + 1
      BY <2>2, <2>3, <3>1
    <3> QED BY <3>2
  <2> QED BY <2>1, <2>2, <2>3
<1>9. \A i \in DOMAIN server'.items : i <= last /\ (i \in DOMAIN items => items[i].kills <= server'.items[i].kills)
  <2>1. CASE server' = server
    BY <2>1 DEF TInv, KillIsCounted, Has
  <2>2. CASE server' = Copy({i \in DOMAIN items : items[i].eq # {}})
    <3>1. \A i \in DOMAIN server'.items : i \in DOMAIN items /\ server'.items[i] = items[i]
      BY <1>4, <2>2, CopyIsOK
    <3>2. \A i \in DOMAIN items : i <= last /\ items[i].kills \in Int
      BY <1>4 DEF TInv, IInv, Upwards, ItemsOK, Item
    <3> QED BY <3>1, <3>2
  <2> QED BY <1>1, <2>1, <2>2
<1>10. ~joined => DOMAIN server'.items = {}
  BY <1>1 DEF TInv, KillIsCounted
<1>11. KillIsCounted'
  BY <1>1, <1>8, <1>9, <1>10 DEF KillIsCounted, Has
<1> QED BY <1>2, <1>3, <1>7, <1>11 DEF TInv

LEMMA AskTypes ==
  ASSUME TInv, IInv', NEW r, Ask(r), RequestOK(r),
         r.op = "kill" => /\ r.item \in ItemIds /\ r.item <= last /\ (Has(r.item) => items[r.item].kills < Kills)
                          /\ \A k \in 1..Len(inbox) : inbox[k].op # "kill"
  PROVE  TInv'
<1>1. /\ UNCHANGED <<items, base, last, disk, client, server, greeted, joined, gone, starts, world>>
      /\ inbox' = Append(inbox, r) /\ Len(inbox) < IF world.patient THEN 1 ELSE Room
  BY DEF Ask
<1>2. /\ Queue' /\ Len(inbox) \in Nat /\ Len(inbox') = Len(inbox) + 1 /\ Waits' = Waits \cup {r}
      /\ \A k \in 1..Len(inbox) : inbox'[k] = inbox[k]
      /\ inbox'[Len(inbox) + 1] = r
  BY <1>1, PutBehind DEF TInv
<1>3. Requests'
  BY <1>1, <1>2 DEF TInv, Requests, RequestOK
<1>4. Len(inbox') <= Room + 1
  BY <1>1, <1>2, Counters
<1>5. TypeOK'
  BY <1>1, <1>4 DEF TInv, TypeOK, ItemsOK, BaseOK, CopyOK
<1>6. \A k \in 1..Len(inbox') : k \in 1..Len(inbox) \/ k = Len(inbox) + 1
  BY <1>2
<1>7. ASSUME NEW k \in 1..Len(inbox'), inbox'[k].op = "kill"
      PROVE  /\ inbox'[k].item \in ItemIds /\ inbox'[k].item <= last
             /\ Has(inbox'[k].item) => items[inbox'[k].item].kills < Kills
             /\ \A m \in 1..Len(inbox') : inbox'[m].op = "kill" => m = k
  <2>1. CASE r.op = "kill"
    BY <1>2, <1>6, <1>7, <2>1
  <2>2. CASE r.op # "kill"
    BY <1>2, <1>6, <1>7, <2>2 DEF TInv, KillIsCounted
  <2> QED BY <2>1, <2>2
<1>8. KillIsCounted'
  BY <1>1, <1>7 DEF TInv, KillIsCounted, Has
<1> QED BY <1>2, <1>3, <1>5, <1>8 DEF TInv

LEMMA KillTypes ==
  ASSUME TInv, IInv', AskKill
  PROVE  TInv'
<1>1. PICK i \in DOMAIN server.items :
        /\ server.items[i].kills \in 0..(Kills - 1) /\ ~\E k \in DOMAIN inbox : inbox[k].op = "kill"
        /\ Ask([op |-> "kill", item |-> i])
  BY DEF AskKill
<1>2. PICK r : r = [op |-> "kill", item |-> i]
  OBVIOUS
<1>3. Ask(r) /\ r.op = "kill" /\ r.item = i
  BY <1>1, <1>2
<1>4. RequestOK(r)
  BY <1>3 DEF Ask, RequestOK
<1>5. i \in ItemIds /\ i <= last /\ (Has(i) => items[i].kills <= server.items[i].kills)
  BY DEF TInv, TypeOK, CopyOK, ItemsOK, KillIsCounted
<1>6. Has(i) => items[i].kills < Kills
  <2>1. Has(i) => items[i].kills \in Int
    BY ItemsAre DEF Has, Item
  <2> QED BY <1>1, <1>5, <2>1, Counters
<1>7. \A k \in 1..Len(inbox) : inbox[k].op # "kill"
  <2>1. PICK S : inbox \in Seq(S)
    BY DEF TInv, Queue
  <2>2. DOMAIN inbox = 1..Len(inbox)
    BY <2>1
  <2> QED BY <1>1, <2>2
<1> QED BY <1>3, <1>4, <1>5, <1>6, <1>7, AskTypes

LEMMA JoinTypes ==
  ASSUME TInv, IInv', Join \/ LeaveServer
  PROVE  TInv'
<1>1. /\ UNCHANGED <<items, base, last, disk, client, greeted, gone, starts, world>> /\ joined' \in BOOLEAN /\ server' = NoCopy
      /\ UNCHANGED inbox \/ (Len(inbox) < Room /\ inbox' = Append(inbox, [op |-> "cache"]))
  BY DEF Join, LeaveServer
<1>2. PICK r : r = [op |-> "cache"]
  OBVIOUS
<1>3. r.op = "cache" /\ RequestOK(r)
  BY <1>2 DEF RequestOK
<1>4. /\ Queue' /\ Len(inbox) \in Nat /\ Waits' \subseteq Waits \cup {r}
      /\ \/ UNCHANGED inbox
         \/ /\ Len(inbox) < Room /\ Len(inbox') = Len(inbox) + 1
            /\ \A k \in 1..Len(inbox) : inbox'[k] = inbox[k]
            /\ inbox'[Len(inbox) + 1] = r
  <2>1. Queue /\ Len(inbox) \in Nat
    <3>1. PICK S : inbox \in Seq(S)
      BY DEF TInv, Queue
    <3> QED BY <3>1 DEF Queue
  <2>2. CASE UNCHANGED inbox
    BY <2>1, <2>2, WaitsSame
  <2>3. CASE Len(inbox) < Room /\ inbox' = Append(inbox, r)
    BY <2>1, <2>3, PutBehind
  <2> QED BY <1>1, <1>2, <2>2, <2>3
<1>5. Requests'
  BY <1>1, <1>3, <1>4 DEF TInv, Requests, RequestOK
<1>6. Len(inbox') <= Room + 1
  BY <1>4, Counters DEF TInv, TypeOK
<1>7. TypeOK'
  BY <1>1, <1>6, NoCopyOK DEF TInv, TypeOK, ItemsOK, BaseOK, CopyOK
<1>8. \A k \in 1..Len(inbox') : inbox'[k].op = "kill" => k \in 1..Len(inbox) /\ inbox'[k] = inbox[k]
  BY <1>3, <1>4
<1>9. \A k \in 1..Len(inbox) : k \in 1..Len(inbox')
  BY <1>4
<1>10. KillIsCounted'
  BY <1>1, <1>8, NoCopyOK DEF TInv, KillIsCounted, Has
<1> QED BY <1>4, <1>5, <1>7, <1>10 DEF TInv

LEMMA StartTypes ==
  ASSUME TInv, IInv', NEW file, Start(file), ItemsOK(file.items), BaseOK(file.base)
  PROVE  TInv'
<1>1. /\ items' = file.items /\ base' = file.base /\ disk' = file /\ gone' = {} /\ server' = NoCopy /\ client' = NoCopy
      /\ greeted' = FALSE /\ joined' = FALSE /\ UNCHANGED world /\ starts' = starts + 1 /\ starts < world.ends
      /\ inbox' = <<[op |-> "hello"]>>
  BY DEF Start
<1>2. PICK r : r = [op |-> "hello"]
  OBVIOUS
<1>3. r.op = "hello" /\ RequestOK(r) /\ inbox' = <<r>>
  BY <1>1, <1>2 DEF RequestOK
<1>4. Queue' /\ Len(inbox') = 1 /\ inbox'[1] = r
  <2>1. inbox' \in Seq({r})
    BY <1>3
  <2> QED BY <1>3, <2>1 DEF Queue
<1>5. Waits' = {r}
  BY <1>4 DEF Waits
<1>6. Requests'
  BY <1>1, <1>3, <1>5 DEF Requests, RequestOK
<1>7. last' \in 0..Ids
  <2>1. Ids \in Nat /\ DOMAIN file.items \cup {0} \subseteq 0..Ids /\ DOMAIN file.items \cup {0} # {}
    BY Counters DEF ItemsOK, ItemIds
  <2>2. Max(DOMAIN file.items \cup {0}) \in DOMAIN file.items \cup {0}
    BY <2>1, GreatestOf
  <2> QED BY <2>1, <2>2 DEF Start
<1>8. starts' \in 0..world.ends
  BY <1>1, StockIsTyped DEF TInv, TypeOK
<1>9. TypeOK'
  <2>1. ItemsOK(items)' /\ BaseOK(base)' /\ ItemsOK(disk.items)' /\ BaseOK(disk.base)'
    BY <1>1 DEF ItemsOK, BaseOK
  <2>2. CopyOK(client)' /\ CopyOK(server)'
    BY <1>1, NoCopyOK DEF CopyOK, ItemsOK
  <2>3. Len(inbox)' <= Room + 1
    BY <1>4, Counters
  <2>4. greeted' \in BOOLEAN /\ joined' \in BOOLEAN /\ gone' \subseteq ItemIds /\ world' \in Worlds
    BY <1>1 DEF TInv, TypeOK
  <2>5. (starts \in 0..world.ends)'
    BY <1>1, <1>8
  <2> QED BY <1>7, <2>1, <2>2, <2>3, <2>4, <2>5 DEF TypeOK
<1>10. KillIsCounted'
  BY <1>1, <1>3, <1>4, NoCopyOK DEF KillIsCounted
<1> QED BY <1>4, <1>6, <1>9, <1>10 DEF TInv

LEMMA EndTypes ==
  ASSUME TInv, IInv', Exit \/ Die
  PROVE  TInv'
<1>1. CASE Die
  BY <1>1, StartTypes DEF Die, TInv, TypeOK
<1>2. ASSUME NEW file \in Written, Start(file) PROVE TInv'
  <2>1. ItemsOK(items) /\ BaseOK(base)
    BY ItemsAre
  <2>2. CASE Unreadable(items)
    <3>1. file.items = NoBases /\ file.base = {}
      BY <1>2, <2>2 DEF Written, NoBases
    <3>2. ItemsOK(file.items) /\ BaseOK(file.base)
      BY <3>1, NoneAt DEF ItemsOK, BaseOK
    <3> QED BY <1>2, <3>2, StartTypes
  <2>3. CASE ~Unreadable(items)
    <3>1. file.items \in FileItems(items) /\ file.base \subseteq base
      BY <1>2, <2>3, FileIs
    <3>2. ItemsOK(file.items)
      BY <1>2, <2>3, ReadBack
    <3>3. BaseOK(file.base)
      BY <2>1, <3>1 DEF BaseOK
    <3> QED BY <1>2, <3>2, <3>3, StartTypes
  <2> QED BY <2>2, <2>3
<1> QED BY <1>1, <1>2 DEF Exit

LEMMA StutterTypes ==
  ASSUME TInv, IInv', UNCHANGED vars
  PROVE  TInv'
BY DEF TInv, TypeOK, ItemsOK, BaseOK, CopyOK, Queue, Requests, RequestOK, Waits, KillIsCounted, Has, vars

LEMMA NextTypes == TInv /\ [Next]_vars => TInv'
<1> SUFFICES ASSUME TInv, [Next]_vars PROVE TInv'
  OBVIOUS
<1>1. IInv'
  BY NextIInv DEF TInv
<1>2. CASE Handle
  BY <1>1, <1>2, HandlersWork, ResultTypes, CopiedTypes
<1>3. ASSUME NEW r, Ask(r), Fair(r) PROVE TInv'
  BY <1>1, <1>3, AskTypes DEF Fair
<1>4. CASE AskLoadout \/ AskItems \/ AskNames \/ AskCaskets
  BY <1>3, <1>4, LoadoutAsked, ItemsAsked, NamesAsked, CasketsAsked
<1>5. CASE AskKill \/ Join \/ LeaveServer \/ Exit \/ Die
  BY <1>1, <1>5, KillTypes, JoinTypes, EndTypes
<1> QED BY <1>1, <1>2, <1>4, <1>5, StutterTypes DEF Next

LEMMA InitTypes == Init => TInv
<1> SUFFICES ASSUME Init PROVE TInv
  OBVIOUS
<1>1. IInv
  BY InitIInv
<1>2. PICK r : r = [op |-> "hello"]
  OBVIOUS
<1>3. r.op = "hello" /\ RequestOK(r) /\ inbox = <<r>>
  BY <1>2 DEF RequestOK, Init
<1>4. Queue /\ Len(inbox) = 1 /\ inbox[1] = r
  <2>1. inbox \in Seq({r})
    BY <1>3
  <2> QED BY <1>3, <2>1 DEF Queue
<1>5. Requests
  <2>1. Waits = {r}
    BY <1>4 DEF Waits
  <2> QED BY <1>3, <2>1 DEF Requests
<1>6. ItemsOK(items) /\ BaseOK(base) /\ disk.items = items /\ disk.base = base /\ world \in Worlds /\ world.ends \in Nat
  BY StockIsTyped DEF Init, BaseOK
<1>7. last \in 0..Ids
  <2>1. Ids \in Nat /\ DOMAIN items \cup {0} \subseteq 0..Ids /\ DOMAIN items \cup {0} # {}
    BY <1>6, Counters DEF ItemsOK, ItemIds
  <2>2. Max(DOMAIN items \cup {0}) \in DOMAIN items \cup {0}
    BY <2>1, GreatestOf
  <2> QED BY <2>1, <2>2 DEF Init
<1>8. TypeOK
  <2>1. CopyOK(client) /\ CopyOK(server)
    BY NoCopyOK DEF Init
  <2>2. Len(inbox) <= Room + 1
    BY <1>4, Counters
  <2>3. greeted \in BOOLEAN /\ joined \in BOOLEAN /\ gone \subseteq ItemIds
    BY DEF Init
  <2>4. starts \in 0..world.ends
    BY <1>6 DEF Init
  <2> QED BY <1>6, <1>7, <2>1, <2>2, <2>3, <2>4 DEF TypeOK
<1>9. KillIsCounted
  BY <1>3, <1>4, NoCopyOK DEF KillIsCounted, Init
<1> QED BY <1>1, <1>4, <1>5, <1>8, <1>9 DEF TInv

\* TypesHold: for any items, places, capacities and requests, however many wait, every item of the GC, of the file and of both
\* copies has its fields, a storage unit never counts beyond its capacity, and no kill is counted twice (TypeOK).
THEOREM TypesHold == Spec => []TypeOK
<1>1. TInv => TypeOK
  BY DEF TInv
<1> QED BY <1>1, InitTypes, NextTypes, PTL DEF Spec

---------------------------------------------------------------------------
(* The copies.                                                             *)

\* The game waits for each answer, or asks for nothing that may be half done.
Calm == world.patient \/ world.ops \cap Partial = {}

\* What the game was sent is what there is.
GameKnows == greeted /\ Calm => Same(client.items, items) /\ \A p \in Places : client.base[p] = BaseAt(p)

\* A game that waits for each answer has one request at a time, and it is about the items as they are.
Prompt == world.patient =>
  /\ Kits(items) /\ Kits(disk.items)
  /\ \A k \in 1..Len(inbox) : inbox[k].op \in {"cache", "hello"} \/ (k = 1 /\ Meant(inbox[k]))

\* What the game server was sent is what is equipped, unless the copy it asked for is still to come.
Worn(f) == {i \in DOMAIN f : f[i].eq # {}}
SameWorn(f, g) == Worn(f) = Worn(g) /\ \A i \in Worn(f) : Plain(f[i]) = Plain(g[i])
ServerKnows == Calm /\ world.ops \cap Boxing = {} /\ joined /\ (\A r \in Waits : r.op # "cache") =>
  SameWorn(server.items, items) /\ \A p \in Places : server.base[p] = BaseAt(p)

KInv == TInv /\ Prompt /\ GameKnows
SInv == KInv /\ ServerKnows /\ (joined => world.online)

\* Requests that wait for an answer are handled with the items they are about.
LEMMA HeadIsMeant ==
  ASSUME TInv, Prompt, Handled
  PROVE  /\ world.patient => Meant(Head(inbox)) /\ Kits(items)
         /\ Calm => ~(Head(inbox).op \in Partial /\ (Kits(items) => ~Meant(Head(inbox))))
<1>1. Len(inbox) >= 1 /\ Head(inbox) = inbox[1] /\ Len(inbox) \in Nat /\ Head(inbox) \in Waits
  BY TakenFirst DEF TInv, Handled
<1>2. PICK r : r = Head(inbox)
  OBVIOUS
<1>3. 1 \in 1..Len(inbox) /\ r = inbox[1]
  BY <1>1, <1>2
<1>4. world.patient => Kits(items) /\ (r.op \in {"cache", "hello"} \/ Meant(r))
  BY <1>3 DEF Prompt
<1>5. r.op \in {"cache", "hello"} => Meant(r)
  BY DEF Meant
<1>6. r.op \in {"hello", "cache"} \cup world.ops
  BY <1>1, <1>2 DEF TInv, Requests, RequestOK
<1>7. Calm /\ r.op \in Partial => world.patient
  BY <1>6 DEF Calm, Partial
<1> QED BY <1>2, <1>4, <1>5, <1>7

\* So what a handler did is sent, to the game at least.
LEMMA WorkIsSent ==
  ASSUME Calm, TInv, Prompt, Handled, NEW objs, NEW ids, NEW b, Work(objs, ids, b)
  PROVE  /\ client' = Told(client, objs, ids, b)
         /\ server' = (IF joined THEN Told(server, objs, ids, b) ELSE server) \/ Head(inbox).op \in Boxing
BY HeadIsMeant DEF Work, Sent, SendBoth, SendGame, ToServer

\* A copy that was right and is sent the work is right.
LEMMA ToldSame ==
  ASSUME TInv, NEW copy, CopyOK(copy), NEW objs, NEW ids, NEW b, Work(objs, ids, b)
  PROVE  /\ Same(copy.items, items) => Same(Told(copy, objs, ids, b).items, items')
         /\ SameWorn(copy.items, items) => SameWorn(Told(copy, objs, ids, b).items, items')
         /\ (\A p \in Places : copy.base[p] = BaseAt(p)) => \A p \in Places : Told(copy, objs, ids, b).base[p] = BaseAt(p)'
<1>1. /\ ItemsOK(objs) /\ ItemsOK(items') /\ ItemsOK(items) /\ DOMAIN b \subseteq Places /\ (\A p \in DOMAIN b : b[p] \in Bases \cup {None})
      /\ \A p \in Places : BaseAt(p)' = IF p \in DOMAIN b THEN b[p] ELSE BaseAt(p)
      /\ DOMAIN items' = (DOMAIN items \cup DOMAIN objs) \ ids
      /\ \A j \in DOMAIN items' : Plain(items'[j]) = Plain(IF j \in DOMAIN objs THEN objs[j] ELSE items[j])
  BY ItemsAre DEF Work, Does, BasesTo
<1>2. PICK told : told = Told(copy, objs, ids, b)
  OBVIOUS
<1>3. /\ DOMAIN told.items = (DOMAIN copy.items \cup DOMAIN objs) \ ids
      /\ \A j \in DOMAIN told.items : told.items[j] = IF j \in DOMAIN objs THEN objs[j] ELSE copy.items[j]
      /\ \A p \in Places : told.base[p] = IF p \in DOMAIN b THEN b[p] ELSE copy.base[p]
      /\ ItemsOK(told.items) /\ ItemsOK(copy.items)
  <2>1. /\ CopyOK(told) /\ DOMAIN told.items = (DOMAIN copy.items \cup DOMAIN objs) \ ids
        /\ \A j \in (DOMAIN copy.items \cup DOMAIN objs) \ ids : told.items[j] = IF j \in DOMAIN objs THEN objs[j] ELSE copy.items[j]
        /\ \A p \in Places : told.base[p] = IF p \in DOMAIN b THEN b[p] ELSE copy.base[p]
    BY <1>1, <1>2, ToldFacts
  <2> QED BY <2>1 DEF CopyOK
<1>4. ASSUME Same(copy.items, items) PROVE Same(told.items, items')
  BY <1>1, <1>3, <1>4 DEF Same
<1>5. ASSUME SameWorn(copy.items, items) PROVE SameWorn(told.items, items')
  <2>1. \A x, y \in Item : Plain(x) = Plain(y) => x.eq = y.eq
    BY PlainFields
  <2>2. ASSUME NEW j \in DOMAIN items' PROVE items'[j].eq = (IF j \in DOMAIN objs THEN objs[j] ELSE items[j]).eq
    <3>1. PICK x, y : x = items'[j] /\ y = IF j \in DOMAIN objs THEN objs[j] ELSE items[j]
      OBVIOUS
    <3>2. x \in Item /\ y \in Item /\ Plain(x) = Plain(y)
      BY <1>1, <2>2, <3>1 DEF ItemsOK
    <3> QED BY <2>1, <3>1, <3>2
  <2>3. Worn(told.items) = Worn(items')
    <3>1. \A j : j \in Worn(told.items) <=>
            j \notin ids /\ ((j \in DOMAIN objs /\ objs[j].eq # {}) \/ (j \notin DOMAIN objs /\ j \in Worn(copy.items)))
      BY <1>3 DEF Worn
    <3>2. \A j : j \in Worn(items') <=>
            j \notin ids /\ ((j \in DOMAIN objs /\ objs[j].eq # {}) \/ (j \notin DOMAIN objs /\ j \in Worn(items)))
      BY <1>1, <2>2 DEF Worn
    <3> QED BY <1>5, <3>1, <3>2 DEF SameWorn
  <2>4. ASSUME NEW j \in Worn(told.items) PROVE Plain(told.items[j]) = Plain(items'[j])
    <3>1. j \in DOMAIN told.items /\ j \in DOMAIN items' /\ told.items[j].eq # {}
      BY <2>3, <2>4 DEF Worn
    <3>2. CASE j \in DOMAIN objs
      BY <1>1, <1>3, <3>1, <3>2
    <3>3. CASE j \notin DOMAIN objs
      <4>1. j \in DOMAIN copy.items /\ told.items[j] = copy.items[j] /\ j \in Worn(copy.items)
        BY <1>3, <3>1, <3>3 DEF Worn
      <4>2. Plain(copy.items[j]) = Plain(items[j])
        BY <1>5, <4>1 DEF SameWorn
      <4> QED BY <1>1, <3>1, <3>3, <4>1, <4>2
    <3> QED BY <3>2, <3>3
  <2> QED BY <2>3, <2>4 DEF SameWorn
<1>6. (\A p \in Places : copy.base[p] = BaseAt(p)) => \A p \in Places : told.base[p] = BaseAt(p)'
  BY <1>1, <1>3
<1> QED BY <1>2, <1>4, <1>5, <1>6

\* A handler leaves what follows alone.
LEMMA PromptTaken ==
  ASSUME TInv, Prompt, inbox # <<>>, inbox' = Tail(inbox), UNCHANGED <<disk, world>>, Kits(items) => Kits(items') \/ ~world.patient
  PROVE  Prompt'
<1>1. /\ Len(inbox) \in Nat /\ Len(inbox') = Len(inbox) - 1
      /\ \A k \in 1..Len(inbox') : k + 1 \in 1..Len(inbox) /\ inbox'[k] = inbox[k + 1]
  BY TakenFirst DEF TInv
<1>2. ASSUME world.patient, NEW k \in 1..Len(inbox') PROVE inbox'[k].op \in {"cache", "hello"}
  <2>1. k + 1 \in 1..Len(inbox) /\ inbox'[k] = inbox[k + 1] /\ k + 1 # 1
    BY <1>1
  <2> QED BY <1>2, <2>1 DEF Prompt
<1> QED BY <1>2 DEF Prompt

LEMMA WorkKits ==
  ASSUME TInv, NEW objs, NEW ids, NEW b, Work(objs, ids, b), Meant(Head(inbox)), Kits(items)
  PROVE  Kits(items')
<1>1. /\ ItemsOK(objs) /\ ItemsOK(items') /\ ItemsOK(items) /\ Kits(objs)
      /\ DOMAIN items' = (DOMAIN items \cup DOMAIN objs) \ ids
      /\ \A j \in DOMAIN items' : Plain(items'[j]) = Plain(IF j \in DOMAIN objs THEN objs[j] ELSE items[j])
  BY ItemsAre DEF Work, Does
<1>2. ASSUME NEW j \in DOMAIN items', items'[j].def \in {"sticker", "patch"} PROVE items'[j].sticker # Bare
  <2>1. PICK x, y : x = items'[j] /\ y = IF j \in DOMAIN objs THEN objs[j] ELSE items[j]
    OBVIOUS
  <2>2. x \in Item /\ y \in Item /\ Plain(x) = Plain(y)
    BY <1>1, <1>2, <2>1 DEF ItemsOK
  <2>3. x.def = y.def /\ x.sticker = y.sticker
    BY <2>2, PlainFields
  <2>4. y.def \in {"sticker", "patch"} => y.sticker # Bare
    BY <1>1, <1>2, <2>1 DEF Kits
  <2> QED BY <1>2, <2>1, <2>3, <2>4
<1> QED BY <1>2 DEF Kits

LEMMA ResultKnows ==
  ASSUME KInv, TInv', Result
  PROVE  KInv'
<1>1. TInv /\ Prompt /\ GameKnows /\ Handled /\ inbox # <<>> /\ inbox' = Tail(inbox) /\ UNCHANGED <<disk, world, greeted>>
  BY DEF KInv, Result, Handled
<1>2. CASE Idle
  <2>1. Prompt'
    BY <1>1, <1>2, PromptTaken DEF Idle
  <2>2. GameKnows'
    BY <1>1, <1>2 DEF Idle, GameKnows, Calm, Same, BaseAt
  <2> QED BY <2>1, <2>2 DEF KInv
<1>3. ASSUME NEW objs, NEW ids, NEW b, Work(objs, ids, b) PROVE KInv'
  <2>1. Kits(items) => Kits(items') \/ ~world.patient
    BY <1>1, <1>3, HeadIsMeant, WorkKits
  <2>2. Prompt'
    BY <1>1, <2>1, PromptTaken
  <2>3. Calm => client' = Told(client, objs, ids, b)
    BY <1>1, <1>3, WorkIsSent
  <2>4. CopyOK(client)
    BY <1>1 DEF TInv, TypeOK
  <2>5. greeted' /\ Calm' => Same(client'.items, items') /\ \A p \in Places : client'.base[p] = BaseAt(p)'
    BY <1>1, <1>3, <2>3, <2>4, ToldSame DEF GameKnows, Calm
  <2> QED BY <2>2, <2>5 DEF KInv, GameKnows
<1> QED BY <1>2, <1>3 DEF Result

LEMMA ResultServes ==
  ASSUME SInv, TInv', Result, Head(inbox).op # "cache"
  PROVE  SInv'
<1>1. KInv' /\ KInv /\ TInv /\ Prompt /\ Handled /\ inbox # <<>> /\ inbox' = Tail(inbox) /\ UNCHANGED <<joined, world>> /\ (joined => world.online)
  BY ResultKnows DEF KInv, Result, Handled, SInv
<1>2. (\A r \in Waits' : r.op # "cache") => \A r \in Waits : r.op # "cache"
  <2>1. Waits \subseteq Waits' \cup {Head(inbox)}
    BY <1>1, TakenFirst DEF TInv
  <2> QED BY <2>1
<1>3. CASE Idle
  <2>1. ServerKnows'
    BY <1>1, <1>2, <1>3 DEF Idle, SInv, ServerKnows, Calm, SameWorn, Worn, BaseAt
  <2> QED BY <1>1, <2>1 DEF SInv
<1>4. ASSUME NEW objs, NEW ids, NEW b, Work(objs, ids, b) PROVE ServerKnows'
  <2>1. world.ops \cap Boxing = {} => Head(inbox).op \notin Boxing
    <3>1. RequestOK(Head(inbox))
      BY <1>1, HeadOK
    <3> QED BY <3>1 DEF RequestOK, Boxing
  <2>2. Calm /\ world.ops \cap Boxing = {} /\ joined => server' = Told(server, objs, ids, b)
    BY <1>1, <1>4, <2>1, WorkIsSent
  <2>3. CopyOK(server)
    BY <1>1 DEF TInv, TypeOK
  <2>4. Calm' /\ world.ops' \cap Boxing = {} /\ joined' /\ (\A r \in Waits' : r.op # "cache") =>
          SameWorn(server'.items, items') /\ \A p \in Places : server'.base[p] = BaseAt(p)'
    BY <1>1, <1>2, <1>4, <2>2, <2>3, ToldSame DEF SInv, ServerKnows, Calm
  <2> QED BY <2>4 DEF ServerKnows
<1> QED BY <1>1, <1>3, <1>4 DEF SInv, Result

\* Only the request of a copy is answered with one.
LEMMA CacheIsCopied ==
  ASSUME Handle, Head(inbox).op = "cache"
  PROVE  HandleSOCacheRequest
<1>1. ~(Equip \/ EquipBase \/ ClearPlace \/ Unequip \/ UseItem)
  BY OpIs DEF Equip, EquipBase, ClearPlace, Unequip, UseItem
<1>2. ~(UnlockCrate \/ StorePurchaseInit \/ DeleteItem \/ SetItemPositions)
  BY OpIs DEF UnlockCrate, StorePurchaseInit, DeleteItem, SetItemPositions
<1>3. ~(ApplySticker \/ ScrapeSticker \/ RemoveItemName \/ NameItem \/ NameBaseItem)
  BY OpIs DEF ApplySticker, ScrapeSticker, RemoveItemName, NameItem, NameBaseItem
<1>4. ~(IncrementKillCount \/ CasketItemAdd \/ CasketItemExtract \/ OnClientHello)
  BY OpIs DEF IncrementKillCount, CasketItemAdd, CasketItemExtract, Casket, OnClientHello
<1> QED BY <1>1, <1>2, <1>3, <1>4 DEF Handle

LEMMA CopiedKnows ==
  ASSUME SInv, TInv', OnClientHello \/ HandleSOCacheRequest
  PROVE  SInv'
<1>1. /\ TInv /\ Prompt /\ GameKnows /\ inbox # <<>> /\ inbox' = Tail(inbox) /\ (joined => world.online)
      /\ UNCHANGED <<items, base, disk, world, joined>> /\ ItemsOK(items) /\ BaseOK(base)
  BY ItemsAre DEF SInv, KInv, OnClientHello, HandleSOCacheRequest, Got
<1>2. Prompt'
  BY <1>1, PromptTaken
<1>3. \A p \in Places : BaseAt(p)' = BaseAt(p)
  BY <1>1 DEF BaseAt
<1>4. (OnClientHello /\ server' = server /\ Head(inbox).op = "hello") \/ (HandleSOCacheRequest /\ UNCHANGED <<client, greeted>>)
  BY DEF OnClientHello, HandleSOCacheRequest, Got
<1>5. GameKnows'
  <2>1. CASE OnClientHello
    <3>1. client' = Copy(DOMAIN items)
      BY <2>1 DEF OnClientHello
    <3>2. DOMAIN client'.items = DOMAIN items /\ (\A i \in DOMAIN items : client'.items[i] = items[i])
          /\ \A p \in Places : client'.base[p] = BaseAt(p)
      BY <1>1, <3>1, CopyIsOK
    <3> QED BY <1>1, <1>3, <3>2 DEF GameKnows, Calm, Same
  <2>2. CASE UNCHANGED <<client, greeted>>
    BY <1>1, <1>3, <2>2 DEF GameKnows, Calm, Same
  <2> QED BY <1>4, <2>1, <2>2
<1>6. ServerKnows'
  <2>1. CASE server' = server /\ Head(inbox).op = "hello"
    <3>1. Waits \subseteq Waits' \cup {Head(inbox)}
      BY <1>1, TakenFirst DEF TInv
    <3>2. (\A r \in Waits' : r.op # "cache") => \A r \in Waits : r.op # "cache"
      BY <2>1, <3>1
    <3> QED BY <1>1, <1>3, <2>1, <3>2 DEF SInv, ServerKnows, Calm, SameWorn, Worn
  <2>2. ASSUME HandleSOCacheRequest, joined PROVE SameWorn(server'.items, items) /\ \A p \in Places : server'.base[p] = BaseAt(p)
    <3>1. PICK ids : ids = {i \in DOMAIN items : items[i].eq # {}}
      OBVIOUS
    <3>2. server' = Copy(ids) /\ ids \subseteq DOMAIN items
      BY <2>2, <3>1 DEF HandleSOCacheRequest
    <3>3. /\ DOMAIN server'.items = ids /\ (\A i \in ids : server'.items[i] = items[i])
          /\ \A p \in Places : server'.base[p] = BaseAt(p)
      BY <1>1, <3>2, CopyIsOK
    <3> QED BY <3>1, <3>3 DEF SameWorn, Worn
  <2>3. HandleSOCacheRequest => ServerKnows'
    BY <1>1, <1>3, <2>2 DEF ServerKnows, Calm, SameWorn, Worn
  <2> QED BY <1>4, <2>1, <2>3
<1> QED BY <1>1, <1>2, <1>5, <1>6 DEF SInv, KInv

LEMMA AskKnows ==
  ASSUME SInv, TInv', NEW r, Ask(r), (Same(client.items, items) => Meant(r)), r.op # "cache"
  PROVE  SInv'
<1>1. /\ UNCHANGED <<items, base, disk, client, server, greeted, joined, world>> /\ inbox' = Append(inbox, r)
      /\ Len(inbox) < (IF world.patient THEN 1 ELSE Room) /\ greeted
  BY DEF Ask
<1>2. /\ Len(inbox) \in Nat /\ Len(inbox') = Len(inbox) + 1 /\ Waits' = Waits \cup {r}
      /\ \A k \in 1..Len(inbox) : inbox'[k] = inbox[k]
      /\ inbox'[Len(inbox) + 1] = r
  BY <1>1, PutBehind DEF SInv, KInv, TInv
<1>3. world.patient => Meant(r)
  BY <1>1 DEF SInv, KInv, GameKnows, Calm
<1>4. world.patient => Meant(r)'
  BY <1>1, <1>3 DEF Meant, Free, Has
<1>5. ASSUME world.patient, NEW k \in 1..Len(inbox') PROVE k = 1 /\ inbox'[k] = r
  BY <1>1, <1>2, <1>5
<1>6. Prompt'
  <2>1. world.patient => Kits(items) /\ Kits(disk.items)
    BY DEF SInv, KInv, Prompt
  <2>2. world.patient => \A k \in 1..Len(inbox') : k = 1 /\ inbox'[k] = r
    BY <1>5
  <2> QED BY <1>1, <1>4, <2>1, <2>2 DEF Prompt
<1>7. GameKnows' /\ (joined => world.online)'
  BY <1>1 DEF SInv, KInv, GameKnows, Calm, Same, BaseAt
<1>8. ServerKnows'
  BY <1>1, <1>2 DEF SInv, ServerKnows, Calm, SameWorn, Worn, BaseAt
<1> QED BY <1>6, <1>7, <1>8 DEF SInv, KInv

LEMMA KillKnows ==
  ASSUME SInv, TInv', AskKill
  PROVE  SInv'
<1>1. PICK i : Ask([op |-> "kill", item |-> i])
  BY DEF AskKill
<1>2. PICK r : r = [op |-> "kill", item |-> i]
  OBVIOUS
<1>3. Ask(r) /\ r.op = "kill"
  BY <1>1, <1>2
<1>4. Meant(r)
  BY <1>3 DEF Meant
<1> QED BY <1>3, <1>4, AskKnows

LEMMA JoinKnows ==
  ASSUME SInv, TInv', Join \/ LeaveServer
  PROVE  SInv'
<1>1. UNCHANGED <<items, base, disk, client, greeted, world>>
  BY DEF Join, LeaveServer
<1>2. \/ joined' = FALSE /\ UNCHANGED inbox
      \/ world.online /\ joined' = TRUE /\ inbox' = Append(inbox, [op |-> "cache"])
  BY DEF Join, LeaveServer
<1>3. GameKnows' /\ (joined => world.online)'
  BY <1>1, <1>2 DEF SInv, KInv, GameKnows, Calm, Same, BaseAt
<1>4. CASE joined' = FALSE /\ UNCHANGED inbox
  <2>1. Prompt' /\ ServerKnows'
    BY <1>1, <1>4 DEF SInv, KInv, Prompt, ServerKnows, Meant, Free, Has
  <2> QED BY <1>3, <2>1 DEF SInv, KInv
<1>5. ASSUME inbox' = Append(inbox, [op |-> "cache"]) PROVE SInv'
  <2>1. PICK r : r = [op |-> "cache"]
    OBVIOUS
  <2>2. /\ r.op = "cache" /\ Len(inbox) \in Nat /\ Len(inbox') = Len(inbox) + 1 /\ Waits' = Waits \cup {r}
        /\ \A k \in 1..Len(inbox) : inbox'[k] = inbox[k]
        /\ inbox'[Len(inbox) + 1] = r
    BY <1>5, <2>1, PutBehind DEF SInv, KInv, TInv
  <2>3. ServerKnows'
    BY <2>2 DEF ServerKnows
  <2>4. \A q : Meant(q) => Meant(q)'
    BY <1>1 DEF Meant, Free, Has
  <2>5. \A k \in 1..Len(inbox') : inbox'[k] = r \/ (k \in 1..Len(inbox) /\ inbox'[k] = inbox[k])
    BY <2>2
  <2>6. Prompt'
    BY <1>1, <2>2, <2>4, <2>5 DEF SInv, KInv, Prompt
  <2> QED BY <1>3, <2>3, <2>6 DEF SInv, KInv
<1> QED BY <1>2, <1>4, <1>5

LEMMA StartKnows ==
  ASSUME SInv, TInv', NEW file, Start(file), Kits(items) => Kits(file.items) \/ ~world.patient,
         Kits(disk.items) => Kits(file.items) \/ ~world.patient
  PROVE  SInv'
<1>1. /\ items' = file.items /\ disk' = file /\ greeted' = FALSE /\ joined' = FALSE /\ UNCHANGED world
      /\ inbox' = <<[op |-> "hello"]>>
  BY DEF Start
<1>2. PICK r : r = [op |-> "hello"]
  OBVIOUS
<1>3. r.op = "hello" /\ inbox' = <<r>>
  BY <1>1, <1>2
<1>4. \A k \in 1..Len(inbox') : inbox'[k].op = "hello"
  BY <1>3
<1>5. world.patient => Kits(file.items)
  BY DEF SInv, KInv, Prompt
<1>6. Prompt'
  BY <1>1, <1>4, <1>5 DEF Prompt
<1>7. GameKnows' /\ ServerKnows' /\ (joined => world.online)'
  BY <1>1 DEF GameKnows, ServerKnows
<1> QED BY <1>6, <1>7 DEF SInv, KInv

LEMMA EndKnows ==
  ASSUME SInv, TInv', Exit \/ Die
  PROVE  SInv'
<1>1. ASSUME Die PROVE SInv'
  <2>1. world.patient => Kits(disk.items)
    BY DEF SInv, KInv, Prompt
  <2> QED BY <1>1, <2>1, StartKnows DEF Die
<1>2. ASSUME NEW file \in Written, Start(file) PROVE SInv'
  <2>1. CASE Unreadable(items)
    <3>1. file.items = NoBases
      BY <1>2, <2>1 DEF Written, NoBases
    <3>2. Kits(file.items)
      BY <3>1, NoneAt DEF Kits
    <3> QED BY <1>2, <3>2, StartKnows
  <2>2. CASE ~Unreadable(items)
    <3>1. /\ DOMAIN file.items = DOMAIN items
          /\ \A i \in DOMAIN items : file.items[i].def = items[i].def /\ file.items[i].sticker = items[i].sticker
      BY <1>2, <2>2, ReadBack DEF SInv, KInv
    <3>2. Kits(items) => Kits(file.items)
      BY <3>1 DEF Kits
    <3>3. world.patient => Kits(file.items)
      BY <3>2 DEF SInv, KInv, Prompt
    <3> QED BY <1>2, <3>3, StartKnows
  <2> QED BY <2>1, <2>2
<1> QED BY <1>1, <1>2 DEF Exit

LEMMA StutterKnows ==
  ASSUME SInv, TInv', UNCHANGED vars
  PROVE  SInv'
<1>1. Waits' = Waits
  BY WaitsSame DEF vars
<1>2. Prompt'
  BY DEF SInv, KInv, Prompt, Meant, Free, Has, Kits, vars
<1>3. GameKnows'
  BY DEF SInv, KInv, GameKnows, Calm, Same, BaseAt, vars
<1>4. ServerKnows' /\ (joined => world.online)'
  BY <1>1 DEF SInv, ServerKnows, Calm, SameWorn, Worn, BaseAt, vars
<1> QED BY <1>2, <1>3, <1>4 DEF SInv, KInv

LEMMA NextKnows == SInv /\ [Next]_vars => SInv'
<1> SUFFICES ASSUME SInv, [Next]_vars PROVE SInv'
  OBVIOUS
<1>1. TInv /\ TInv'
  BY NextTypes DEF SInv, KInv
<1>2. CASE Handle
  <2>1. Result \/ OnClientHello \/ HandleSOCacheRequest
    BY <1>1, <1>2, HandlersWork
  <2> QED BY <1>1, <1>2, <2>1, CacheIsCopied, ResultServes, CopiedKnows
<1>3. ASSUME NEW r, Ask(r), Fair(r) PROVE SInv'
  <2>1. r.op # "cache"
    BY <1>3 DEF Fair
  <2> QED BY <1>1, <1>3, <2>1, AskKnows DEF Fair
<1>4. CASE AskLoadout \/ AskItems \/ AskNames \/ AskCaskets
  BY <1>1, <1>3, <1>4, LoadoutAsked, ItemsAsked, NamesAsked, CasketsAsked
<1>5. CASE AskKill \/ Join \/ LeaveServer \/ Exit \/ Die
  BY <1>1, <1>5, KillKnows, JoinKnows, EndKnows
<1> QED BY <1>1, <1>2, <1>4, <1>5, StutterKnows DEF Next

LEMMA InitKnows == Init => SInv
<1> SUFFICES ASSUME Init PROVE SInv
  OBVIOUS
<1>1. TInv
  BY InitTypes
<1>2. PICK r : r = [op |-> "hello"]
  OBVIOUS
<1>3. r.op = "hello" /\ inbox = <<r>>
  BY <1>2 DEF Init
<1>4. \A k \in 1..Len(inbox) : inbox[k].op = "hello"
  BY <1>3
<1>5. Kits(items) /\ disk.items = items
  BY StockIsTyped DEF Init
<1>6. Prompt
  BY <1>4, <1>5 DEF Prompt
<1>7. GameKnows /\ ServerKnows /\ (joined => world.online)
  BY DEF Init, GameKnows, ServerKnows
<1> QED BY <1>1, <1>6, <1>7 DEF SInv, KInv

\* GameInStepHolds: for any items, places and number of requests that wait, a game that waits for its answers, or asks for
\* nothing a handler may half do, has the very items and base weapons of the GC once nothing waits: what a handler sends is
\* what it changed (GameInStep).
THEOREM GameInStepHolds == ASSUME Settled PROVE Spec => []GameInStep
<1>1. ASSUME SInv PROVE GameInStep
  <2>1. ASSUME Same(client.items, items) PROVE Known(client.items) = Known(items)
    BY <2>1 DEF Same, Plain, Known
  <2>2. Calm
    BY <1>1 DEF SInv, KInv, TInv, TypeOK, Settled, Calm
  <2> QED BY <1>1, <2>1, <2>2 DEF SInv, KInv, GameKnows, GameInStep
<1> QED BY <1>1, InitKnows, NextKnows, PTL DEF Spec

\* ServerInStepHolds: and a game server the player is on, who stores nothing there, has the items that are equipped, as they
\* are, and no other item as equipped (ServerInStep).
THEOREM ServerInStepHolds == ASSUME Settled, Ashore PROVE Spec => []ServerInStep
<1>1. ASSUME SInv PROVE ServerInStep
  <2>1. ASSUME inbox = <<>> PROVE \A r \in Waits : r.op # "cache"
    BY <2>1 DEF Waits
  <2>2. ASSUME SameWorn(server.items, items) PROVE Loadout(server.items) = Loadout(items)
    <3>1. {j \in DOMAIN server.items : server.items[j].eq # {}} = {j \in DOMAIN items : items[j].eq # {}}
      BY <2>2 DEF SameWorn, Worn
    <3>2. \A i \in {j \in DOMAIN items : items[j].eq # {}} :
            [server.items[i] EXCEPT !.sprays = FALSE] = [items[i] EXCEPT !.sprays = FALSE]
      BY <2>2 DEF SameWorn, Worn, Plain
    <3> QED BY <3>1, <3>2 DEF Loadout
  <2>3. Calm /\ (joined => world.ops \cap Boxing = {})
    BY <1>1 DEF SInv, KInv, TInv, TypeOK, Settled, Ashore, Calm
  <2> QED BY <1>1, <2>1, <2>2, <2>3 DEF SInv, ServerKnows, ServerInStep
<1> QED BY <1>1, InitKnows, NextKnows, PTL DEF Spec

---------------------------------------------------------------------------
(* The storage units.                                                      *)

\* Units hold what they count, here and in the file.
Units ==
  /\ Counted(items) /\ Counted(disk.items)
  /\ ~world.patient => "store" \notin world.ops /\ Unboxed(items) /\ Unboxed(disk.items)

LEMMA InsideIsFinite ==
  ASSUME NEW f, ItemsOK(f), NEW c
  PROVE  IsFiniteSet(Inside(f, c)) /\ Cardinality(Inside(f, c)) \in Nat /\ (Inside(f, c) = {} <=> Cardinality(Inside(f, c)) = 0)
<1>1. Inside(f, c) \subseteq 1..Ids /\ Ids \in Nat
  BY Counters DEF Inside, ItemsOK, ItemIds
<1>2. IsFiniteSet(1..Ids)
  BY <1>1, FS_Interval, Counters
<1>3. IsFiniteSet(Inside(f, c))
  BY <1>1, <1>2, FS_Subset
<1> QED BY <1>3, FS_CardinalityType, FS_EmptySet

\* A handler that stores nothing leaves every unit with what it holds.
LEMMA WorkCounts ==
  ASSUME TInv, Counted(items), NEW objs, NEW ids, NEW b, Work(objs, ids, b), Modest(objs), Spent(ids)
  PROVE  Counted(items') /\ (Unboxed(items) => Unboxed(items'))
<1>1. /\ ItemsOK(objs) /\ ItemsOK(items') /\ ItemsOK(items) /\ ids \subseteq DOMAIN items
      /\ DOMAIN items' = (DOMAIN items \cup DOMAIN objs) \ ids
      /\ \A j \in DOMAIN items' : Plain(items'[j]) = Plain(IF j \in DOMAIN objs THEN objs[j] ELSE items[j])
  BY ItemsAre DEF Work, Does
<1>2. PICK f : f = items'
  OBVIOUS
<1>3. ASSUME NEW j \in DOMAIN f
      PROVE  IF Has(j) THEN f[j].def = items[j].def /\ f[j].box = items[j].box /\ Counting(items[j], f[j])
                       ELSE f[j].box = 0 /\ (f[j].def = "casket" => f[j].count = -1)
  <2>1. PICK x, y : x = f[j] /\ y = IF j \in DOMAIN objs THEN objs[j] ELSE items[j]
    OBVIOUS
  <2>2. x \in Item /\ y \in Item /\ Plain(x) = Plain(y)
    BY <1>1, <1>2, <1>3, <2>1 DEF ItemsOK
  <2>3. x.def = y.def /\ x.box = y.box /\ x.count = y.count
    BY <2>2, PlainFields
  <2>4. IF Has(j) THEN y.def = items[j].def /\ y.box = items[j].box /\ Counting(items[j], y)
                  ELSE y.box = 0 /\ (y.def = "casket" => y.count = -1)
    BY <1>1, <1>2, <1>3, <2>1 DEF Modest, Counting, Has
  <2> QED BY <2>1, <2>3, <2>4 DEF Counting
<1>4. \A j \in DOMAIN items : j \notin DOMAIN f => j \in ids
  BY <1>1, <1>2
<1>5. 0 \notin DOMAIN items /\ 0 \notin DOMAIN f
  BY <1>1, <1>2, Counters DEF ItemsOK
<1>6. \A j \in DOMAIN f : f[j].box # 0 => Has(j) /\ items[j].box = f[j].box
  BY <1>3
<1>7. \A j \in DOMAIN items : items[j].box # 0 => j \in DOMAIN f /\ f[j].box = items[j].box
  BY <1>3, <1>4 DEF Spent, Has
<1>8. ASSUME NEW j \in DOMAIN f, f[j].box # 0 PROVE f[j].box \in DOMAIN f /\ f[f[j].box].def = "casket"
  <2>1. PICK c : c = f[j].box
    OBVIOUS
  <2>2. Has(j) /\ items[j].box = c /\ c # 0 /\ c \in DOMAIN items /\ items[c].def = "casket"
    BY <1>6, <1>8, <2>1 DEF Counted, Has
  <2>3. c \in DOMAIN f
    BY <1>4, <2>2 DEF Spent, Has
  <2>4. f[c].def = "casket"
    BY <1>3, <2>2, <2>3 DEF Has
  <2> QED BY <2>1, <2>3, <2>4
<1>9. ASSUME NEW c \in DOMAIN f, f[c].def = "casket"
      PROVE  IF f[c].count = -1 THEN Inside(f, c) = {} ELSE f[c].count = Cardinality(Inside(f, c))
  <2>1. c # 0
    BY <1>5, <1>9
  <2>2. Inside(f, c) = Inside(items, c)
    <3>1. \A j : j \in Inside(f, c) <=> j \in Inside(items, c)
      BY <1>6, <1>7, <2>1 DEF Inside, Has
    <3> QED BY <3>1
  <2>3. CASE Has(c)
    <3>1. items[c].def = "casket" /\ Counting(items[c], f[c])
      BY <1>3, <1>9, <2>3
    <3>2. IF items[c].count = -1 THEN Inside(items, c) = {} ELSE items[c].count = Cardinality(Inside(items, c))
      BY <2>3, <3>1 DEF Counted, Has
    <3>3. Inside(items, c) = {} => Cardinality(Inside(items, c)) = 0
      BY <1>1, InsideIsFinite
    <3> QED BY <2>2, <3>1, <3>2, <3>3 DEF Counting
  <2>4. CASE ~Has(c)
    <3>1. f[c].count = -1
      BY <1>3, <1>9, <2>4
    <3>2. Inside(items, c) = {}
      BY <2>1, <2>4 DEF Inside, Counted, Has
    <3> QED BY <2>2, <3>1, <3>2
  <2> QED BY <2>3, <2>4
<1>10. Counted(f)
  BY <1>8, <1>9 DEF Counted
<1>11. Unboxed(items) => Unboxed(f)
  BY <1>3 DEF Unboxed, Has
<1> QED BY <1>2, <1>10, <1>11

\* One item goes into a unit, or out of it, and is counted.
LEMMA CasketMoves ==
  ASSUME TInv, NEW c, NEW i, c # i, c = Head(inbox).with, i = Head(inbox).item, NEW delta, NEW to,
         (CasketItemAdd /\ delta = 1 /\ to = c) \/ (CasketItemExtract /\ delta = -1 /\ to = 0)
  PROVE  \/ UNCHANGED items
         \/ /\ Has(c) /\ Has(i) /\ items[c].def = "casket" /\ items[c].count # -1 /\ items[c].count + delta \in 0..Capacity
            /\ DOMAIN items' = DOMAIN items
            /\ items'[c].def = items[c].def /\ items'[c].box = items[c].box /\ items'[c].count = items[c].count + delta
            /\ items'[i].def = items[i].def /\ items'[i].count = items[i].count /\ items'[i].box = to
            /\ \A j \in DOMAIN items : j # c /\ j # i => items'[j] = items[j]
<1>1. CASE ~Has(c) \/ ~Has(i) \/ items[c].def # "casket" \/ ~Counts(c, delta)
  BY <1>1 DEF CasketItemAdd, CasketItemExtract, Casket
<1>2. CASE ~(~Has(c) \/ ~Has(i) \/ items[c].def # "casket" \/ ~Counts(c, delta))
  <2>1. PICK x, y, unit : x = items[i] /\ y = items[c] /\ unit = [y EXCEPT !.count = y.count + delta]
    OBVIOUS
  <2>2. x \in Item /\ y \in Item
    BY <1>2, <2>1, ItemsAre DEF Has
  <2>3. PICK stored : /\ items' = With(items, With(One(c, unit), One(i, stored)))
                      /\ stored.def = x.def /\ stored.count = x.count /\ stored.box = to
    <3>1. \E op : \E box \in BOOLEAN : Casket(op, delta, box) /\ to = IF box THEN c ELSE 0
      <4>1. TRUE \in BOOLEAN /\ FALSE \in BOOLEAN
        OBVIOUS
      <4> QED BY <4>1 DEF CasketItemAdd, CasketItemExtract
    <3>2. PICK op : \E box \in BOOLEAN : Casket(op, delta, box) /\ to = IF box THEN c ELSE 0
      BY <3>1
    <3>3. PICK box \in BOOLEAN : Casket(op, delta, box) /\ to = IF box THEN c ELSE 0
      BY <3>2
    <3>4. PICK stored : stored = [x EXCEPT !.box = IF box THEN c ELSE 0, !.eq = IF box THEN {} ELSE @]
      OBVIOUS
    <3>5. delta \in {1, -1}
      OBVIOUS
    <3>6. items' = With(items, With(One(c, unit), One(i, stored)))
      BY <1>2, <2>1, <3>3, <3>4, <3>5 DEF Casket
    <3>7. stored.def = x.def /\ stored.count = x.count /\ stored.box = IF box THEN c ELSE 0
      BY <2>2, <3>4 DEF Item
    <3> QED BY <3>3, <3>6, <3>7
  <2>4. unit.def = y.def /\ unit.box = y.box /\ unit.count = y.count + delta
    BY <2>1, <2>2 DEF Item
  <2>5. PICK new : new = With(One(c, unit), One(i, stored))
    OBVIOUS
  <2>6. DOMAIN new = {c, i} /\ new[c] = unit /\ new[i] = stored
    BY <2>5 DEF With, One
  <2>7. /\ DOMAIN items' = DOMAIN items /\ items'[c] = unit /\ items'[i] = stored
        /\ \A j \in DOMAIN items : j # c /\ j # i => items'[j] = items[j]
    BY <1>2, <2>3, <2>5, <2>6 DEF With, Has
  <2> QED BY <1>2, <2>1, <2>3, <2>4, <2>7 DEF Counts
<1> QED BY <1>1, <1>2

LEMMA StoreCounts ==
  ASSUME TInv, Counted(items), CasketItemAdd, Meant(Head(inbox))
  PROVE  Counted(items')
<1>1. Casket("store", 1, TRUE) /\ Head(inbox).op = "store"
  BY OpIs DEF CasketItemAdd, Casket
<1>2. PICK c, i : c = Head(inbox).with /\ i = Head(inbox).item
  OBVIOUS
<1>3. Free(c, {"casket"}) /\ Free(i, Guns) /\ c # i
  BY <1>1, <1>2 DEF Meant, Free, Guns
<1>4. CASE UNCHANGED items
  BY <1>4
<1>5. ASSUME ~UNCHANGED items PROVE Counted(items')
  <2>1. PICK f, g : f = items /\ g = items'
    OBVIOUS
  <2>2. /\ c \in DOMAIN f /\ i \in DOMAIN f /\ f[c].def = "casket" /\ f[c].count # -1 /\ DOMAIN g = DOMAIN f
        /\ g[c].def = f[c].def /\ g[c].box = f[c].box /\ g[c].count = f[c].count + 1
        /\ g[i].def = f[i].def /\ g[i].count = f[i].count /\ g[i].box = c
        /\ \A j \in DOMAIN f : j # c /\ j # i => g[j] = f[j]
    <3>1. Has(c) /\ Has(i) /\ items[c].def = "casket" /\ items[c].count # -1 /\ DOMAIN items' = DOMAIN items
          /\ items'[c].def = items[c].def /\ items'[c].box = items[c].box /\ items'[c].count = items[c].count + 1
          /\ items'[i].def = items[i].def /\ items'[i].count = items[i].count /\ items'[i].box = c
          /\ \A j \in DOMAIN items : j # c /\ j # i => items'[j] = items[j]
      BY <1>2, <1>3, <1>5, CasketMoves
    <3> QED BY <2>1, <3>1 DEF Has
  <2>3. f[i].box = 0 /\ f[c].box = 0 /\ f[i].def # "casket" /\ ItemsOK(f) /\ Counted(f) /\ c # 0 /\ 0 \notin DOMAIN f
    BY <1>3, <2>1, <2>2, ItemsAre, Counters DEF Free, Guns, ItemsOK
  <2>4. Inside(g, c) = Inside(f, c) \cup {i} /\ i \notin Inside(f, c)
    BY <1>3, <2>2, <2>3 DEF Inside
  <2>5. f[c].count = Cardinality(Inside(f, c))
    BY <2>2, <2>3 DEF Counted
  <2>6. g[c].count = Cardinality(Inside(g, c))
    <3>1. Cardinality(Inside(f, c) \cup {i}) = Cardinality(Inside(f, c)) + 1
      BY <2>3, <2>4, InsideIsFinite, FS_AddElement
    <3> QED BY <2>2, <2>4, <2>5, <3>1
  <2>7. g[c].count # -1
    BY <2>2, <2>3, <2>5, InsideIsFinite
  <2>8. ASSUME NEW d \in DOMAIN g, d # c, g[d].def = "casket"
        PROVE  IF g[d].count = -1 THEN Inside(g, d) = {} ELSE g[d].count = Cardinality(Inside(g, d))
    <3>1. Inside(g, d) = Inside(f, d)
      BY <1>3, <2>2, <2>3, <2>8 DEF Inside
    <3>2. d # i /\ g[d] = f[d]
      BY <2>2, <2>3, <2>8
    <3> QED BY <2>2, <2>3, <2>8, <3>1, <3>2 DEF Counted
  <2>9. ASSUME NEW j \in DOMAIN g, g[j].box # 0 PROVE g[j].box \in DOMAIN g /\ g[g[j].box].def = "casket"
    <3>1. \A d \in DOMAIN f : g[d].def = f[d].def
      BY <2>2
    <3>2. j = i \/ g[j].box = f[j].box
      BY <2>2
    <3> QED BY <2>2, <2>3, <2>9, <3>1, <3>2 DEF Counted
  <2> QED BY <2>1, <2>6, <2>7, <2>8, <2>9 DEF Counted
<1> QED BY <1>4, <1>5

LEMMA TakeCounts ==
  ASSUME TInv, Counted(items), CasketItemExtract, Meant(Head(inbox))
  PROVE  Counted(items')
<1>1. Casket("take", -1, FALSE) /\ Head(inbox).op = "take"
  BY OpIs DEF CasketItemExtract, Casket
<1>2. PICK c, i : c = Head(inbox).with /\ i = Head(inbox).item
  OBVIOUS
<1>3. Free(c, {"casket"}) /\ Has(i) /\ items[i].box = c /\ c # 0 /\ c # i
  <2>1. Free(c, {"casket"}) /\ Has(i) /\ items[i].box = c
    BY <1>1, <1>2 DEF Meant
  <2>2. c # 0
    BY <2>1, ItemsAre, Counters DEF Free, Has
  <2> QED BY <2>1, <2>2 DEF Free
<1>4. CASE UNCHANGED items
  BY <1>4
<1>5. ASSUME ~UNCHANGED items PROVE Counted(items')
  <2>1. PICK f, g : f = items /\ g = items'
    OBVIOUS
  <2>2. /\ c \in DOMAIN f /\ i \in DOMAIN f /\ f[c].def = "casket" /\ f[c].count # -1 /\ DOMAIN g = DOMAIN f
        /\ g[c].def = f[c].def /\ g[c].box = f[c].box /\ g[c].count = f[c].count + -1 /\ f[c].count + -1 \in 0..Capacity
        /\ g[i].def = f[i].def /\ g[i].count = f[i].count /\ g[i].box = 0
        /\ \A j \in DOMAIN f : j # c /\ j # i => g[j] = f[j]
    <3>1. Has(c) /\ Has(i) /\ items[c].def = "casket" /\ items[c].count # -1 /\ DOMAIN items' = DOMAIN items
          /\ items'[c].def = items[c].def /\ items'[c].box = items[c].box /\ items'[c].count = items[c].count + -1
          /\ items[c].count + -1 \in 0..Capacity
          /\ items'[i].def = items[i].def /\ items'[i].count = items[i].count /\ items'[i].box = 0
          /\ \A j \in DOMAIN items : j # c /\ j # i => items'[j] = items[j]
      BY <1>2, <1>3, <1>5, CasketMoves
    <3> QED BY <2>1, <3>1 DEF Has
  <2>3. f[i].box = c /\ f[c].box = 0 /\ ItemsOK(f) /\ Counted(f) /\ 0 \notin DOMAIN f
    BY <1>3, <2>1, ItemsAre, Counters DEF Free, ItemsOK
  <2>4. Inside(g, c) = Inside(f, c) \ {i} /\ i \in Inside(f, c)
    BY <1>3, <2>2, <2>3 DEF Inside
  <2>5. f[c].count = Cardinality(Inside(f, c))
    BY <2>2, <2>3 DEF Counted
  <2>6. g[c].count = Cardinality(Inside(g, c)) /\ g[c].count # -1
    <3>1. Cardinality(Inside(f, c) \ {i}) = Cardinality(Inside(f, c)) - 1 /\ Cardinality(Inside(f, c)) \in Nat
      BY <2>3, <2>4, InsideIsFinite, FS_RemoveElement
    <3> QED BY <2>2, <2>4, <2>5, <3>1
  <2>7. ASSUME NEW d \in DOMAIN g, d # c, g[d].def = "casket"
        PROVE  IF g[d].count = -1 THEN Inside(g, d) = {} ELSE g[d].count = Cardinality(Inside(g, d))
    <3>1. Inside(g, d) = Inside(f, d)
      BY <1>3, <2>2, <2>3, <2>7 DEF Inside
    <3>2. g[d].def = f[d].def /\ g[d].count = f[d].count
      BY <2>2, <2>7
    <3> QED BY <2>2, <2>3, <2>7, <3>1, <3>2 DEF Counted
  <2>8. ASSUME NEW j \in DOMAIN g, g[j].box # 0 PROVE g[j].box \in DOMAIN g /\ g[g[j].box].def = "casket"
    <3>1. \A d \in DOMAIN f : g[d].def = f[d].def
      BY <2>2
    <3>2. g[j].box = f[j].box
      BY <2>2, <2>8
    <3> QED BY <2>2, <2>3, <2>8, <3>1, <3>2 DEF Counted
  <2> QED BY <2>1, <2>6, <2>7, <2>8 DEF Counted
<1> QED BY <1>4, <1>5

\* Where nothing is stored nothing is taken: the units count 0.
LEMMA NothingTaken ==
  ASSUME TInv, Counted(items), Unboxed(items), CasketItemExtract
  PROVE  UNCHANGED items
<1>1. PICK c : c = Head(inbox).with
  OBVIOUS
<1>2. ASSUME Has(c), items[c].def = "casket", Counts(c, -1) PROVE FALSE
  <2>1. ItemsOK(items) /\ c # 0
    BY <1>2, ItemsAre, Counters DEF Has
  <2>2. Inside(items, c) = {}
    BY <2>1 DEF Inside, Unboxed
  <2>3. items[c].count = 0
    BY <1>2, <2>1, <2>2, InsideIsFinite DEF Counted, Counts, Has
  <2> QED BY <1>2, <2>3 DEF Counts
<1> QED BY <1>1, <1>2 DEF CasketItemExtract, Casket

\* Only storage requests move items into units and out of them.
LEMMA BoxingIsCasket ==
  ASSUME Handle, Head(inbox).op \in Boxing
  PROVE  CasketItemAdd \/ CasketItemExtract
<1>1. "store" \in Boxing /\ "take" \in Boxing /\ \A op \in Boxing : op = "store" \/ op = "take"
  BY DEF Boxing
<1>2. ~(Equip \/ EquipBase \/ ClearPlace \/ Unequip \/ UseItem)
  BY <1>1, OpIs DEF Equip, EquipBase, ClearPlace, Unequip, UseItem
<1>3. ~(UnlockCrate \/ StorePurchaseInit \/ DeleteItem \/ SetItemPositions)
  BY <1>1, OpIs DEF UnlockCrate, StorePurchaseInit, DeleteItem, SetItemPositions
<1>4. ~(ApplySticker \/ ScrapeSticker \/ RemoveItemName \/ NameItem \/ NameBaseItem)
  BY <1>1, OpIs DEF ApplySticker, ScrapeSticker, RemoveItemName, NameItem, NameBaseItem
<1>5. ~(IncrementKillCount \/ OnClientHello \/ HandleSOCacheRequest)
  BY <1>1, OpIs DEF IncrementKillCount, OnClientHello, HandleSOCacheRequest
<1> QED BY <1>2, <1>3, <1>4, <1>5 DEF Handle

LEMMA HandleCounts ==
  ASSUME TInv, Prompt, Units, Handle
  PROVE  Units'
<1>1. Counted(items) /\ (~world.patient => Unboxed(items) /\ "store" \notin world.ops)
  BY DEF Units
<1>2. (UNCHANGED <<disk, world>> /\ Handled) \/ OnClientHello \/ HandleSOCacheRequest
  BY HandlersWork DEF Result, Handled
<1>3. UNCHANGED <<disk, world>>
  BY <1>2 DEF OnClientHello, HandleSOCacheRequest
<1>4. Counted(items') /\ (~world.patient => Unboxed(items'))
  <2>1. CASE UNCHANGED items
    BY <1>1, <2>1
  <2>2. CASE CasketItemAdd
    <3>1. Handled /\ Head(inbox).op = "store"
      BY <2>2, Handles, OpIs DEF CasketItemAdd, Casket
    <3>2. RequestOK(Head(inbox))
      BY <3>1, HeadOK
    <3>3. world.patient
      BY <1>1, <3>1, <3>2 DEF RequestOK
    <3>4. Meant(Head(inbox))
      BY <3>1, <3>3, HeadIsMeant
    <3> QED BY <1>1, <2>2, <3>3, <3>4, StoreCounts
  <2>3. CASE CasketItemExtract
    <3>1. Handled
      BY <2>3, Handles DEF CasketItemExtract, Casket
    <3>2. CASE world.patient
      <4>1. Meant(Head(inbox))
        BY <3>1, <3>2, HeadIsMeant
      <4> QED BY <1>1, <2>3, <3>2, <4>1, TakeCounts
    <3>3. CASE ~world.patient
      BY <1>1, <2>3, <3>3, NothingTaken
    <3> QED BY <3>2, <3>3
  <2>4. ASSUME Handled, Head(inbox).op \notin Boxing, NEW objs, NEW ids, NEW b, Work(objs, ids, b)
        PROVE  Counted(items') /\ (~world.patient => Unboxed(items'))
    <3>1. Meant(Head(inbox)) \/ Unboxed(items)
      BY <1>1, <2>4, HeadIsMeant
    <3>2. Modest(objs) /\ Spent(ids)
      BY <2>4, <3>1 DEF Work
    <3> QED BY <1>1, <2>4, <3>2, WorkCounts
  <2>5. \/ UNCHANGED items
        \/ Handled /\ \E objs, ids, b : Work(objs, ids, b)
    BY HandlersWork DEF Result, Idle, OnClientHello, HandleSOCacheRequest
  <2> QED BY <2>1, <2>2, <2>3, <2>4, <2>5, BoxingIsCasket
<1> QED BY <1>1, <1>3, <1>4 DEF Units

LEMMA StartCounts ==
  ASSUME Units, NEW file, Start(file), Counted(file.items), ~world.patient => Unboxed(file.items)
  PROVE  Units'
<1>1. items' = file.items /\ disk' = file /\ UNCHANGED world
  BY DEF Start
<1> QED BY <1>1 DEF Units

LEMMA EndCounts ==
  ASSUME SInv, Units, Exit \/ Die
  PROVE  Units'
<1>1. ASSUME Die PROVE Units'
  BY <1>1, StartCounts DEF Die, Units
<1>2. ASSUME NEW file \in Written, Start(file) PROVE Units'
  <2>1. CASE Unreadable(items)
    <3>1. file.items = NoBases
      BY <1>2, <2>1 DEF Written, NoBases
    <3>2. Counted(file.items) /\ Unboxed(file.items)
      BY <3>1, NoneAt DEF Counted, Unboxed
    <3> QED BY <1>2, <3>2, StartCounts
  <2>2. CASE ~Unreadable(items)
    <3>1. DOMAIN file.items = DOMAIN items
      BY <1>2, <2>2, ReadBack DEF SInv, KInv
    <3>2. \A i \in DOMAIN items :
            /\ file.items[i].box = items[i].box /\ file.items[i].def = items[i].def /\ file.items[i].count = items[i].count
      BY <1>2, <2>2, ReadBack DEF SInv, KInv
    <3>3. \A c : Inside(file.items, c) = Inside(items, c)
      BY <3>1, <3>2 DEF Inside
    <3>4. Counted(items) => Counted(file.items)
      BY <3>1, <3>2, <3>3 DEF Counted
    <3>5. Unboxed(items) => Unboxed(file.items)
      BY <3>1, <3>2 DEF Unboxed
    <3> QED BY <1>2, <3>4, <3>5, StartCounts DEF Units
  <2> QED BY <2>1, <2>2
<1> QED BY <1>1, <1>2 DEF Exit

LEMMA NextCounts == SInv /\ Units /\ [Next]_vars => Units'
<1> SUFFICES ASSUME SInv, Units, [Next]_vars PROVE Units'
  OBVIOUS
<1>1. CASE Handle
  BY <1>1, HandleCounts DEF SInv, KInv
<1>2. CASE Exit \/ Die
  BY <1>2, EndCounts
<1>3. ASSUME UNCHANGED <<items, disk, world>> PROVE Units'
  BY <1>3 DEF Units
<1>4. AskLoadout \/ AskItems \/ AskNames \/ AskCaskets \/ AskKill \/ Join \/ LeaveServer \/ UNCHANGED vars
      => UNCHANGED <<items, disk, world>>
  BY DEF AskLoadout, AskItems, AskNames, AskCaskets, AskKill, Ask, Join, LeaveServer, vars
<1> QED BY <1>1, <1>2, <1>3, <1>4 DEF Next

LEMMA InitCounts == Stored /\ Init => Units
<1> SUFFICES ASSUME Stored, Init PROVE Units
  OBVIOUS
<1>1. items = world.stock /\ disk.items = items /\ world \in Worlds
  BY DEF Init
<1> QED BY <1>1 DEF Stored, Units

\* UnitsHoldWhatTheyCount: for any items, units and capacity, where a game that stores waits for each answer, the count of a
\* storage unit is the number of items in it, whatever is named, stored, taken out, used up and read back (CasketCounts;
\* the handlers set the count and the casket id of the item together, or neither).
THEOREM UnitsHoldWhatTheyCount == ASSUME Stored PROVE Spec => []CasketCounts
<1>1. ASSUME TInv, Units PROVE CasketCounts
  <2> SUFFICES ASSUME NEW c \in DOMAIN items, {i \in DOMAIN items : items[i].box = c} # {}
               PROVE  items[c].count = Cardinality({i \in DOMAIN items : items[i].box = c})
    BY DEF CasketCounts
  <2>1. Inside(items, c) = {i \in DOMAIN items : items[i].box = c} /\ Inside(items, c) # {} /\ c # 0
    BY <1>1, ItemsAre, Counters DEF Inside
  <2>2. items[c].def = "casket"
    BY <1>1, <2>1 DEF Units, Counted, Inside
  <2>3. items[c].count = Cardinality(Inside(items, c))
    BY <1>1, <2>1, <2>2 DEF Units, Counted
  <2> QED BY <2>1, <2>3
<1>2. Init => SInv /\ Units
  BY InitKnows, InitCounts
<1>3. SInv /\ Units /\ [Next]_vars => (SInv /\ Units)'
  BY NextKnows, NextCounts
<1>4. SInv /\ Units => CasketCounts
  BY <1>1 DEF SInv, KInv
<1> QED BY <1>2, <1>3, <1>4, PTL DEF Spec

---------------------------------------------------------------------------
(* The end of the process.                                                 *)

\* The base weapons of a file are among those that were equipped, and each of those is there.
LEMMA BasesAreKept ==
  ASSUME BaseOK(base), Apart(items, base), base' \in FileBases(base)
  PROVE  /\ \A p \in Places : BaseAt(p)' \in {BaseAt(p), None}
         /\ \A p \in Places : BaseAt(p) # None => \E q \in Places : BaseAt(q)' = BaseAt(p)
<1>1. /\ base' \subseteq base
      /\ \A e \in base : \E d \in base' : d.def = e.def
      /\ \A d, e \in base : d.at = e.at => d = e
      /\ \A e \in base : e.at \in Places
  BY DEF FileBases, Apart, BaseOK
<1>2. ASSUME NEW p, BaseAt(p) # None PROVE \E e \in base : e.at = p /\ BaseAt(p) = e.def
  BY <1>2 DEF BaseAt
<1>3. \A e \in base : BaseAt(e.at) = e.def
  BY <1>1 DEF BaseAt
<1>4. \A e \in base' : BaseAt(e.at)' = e.def
  BY <1>1 DEF BaseAt
<1>5. ASSUME NEW p, BaseAt(p)' # None PROVE \E e \in base' : e.at = p /\ BaseAt(p)' = e.def
  BY <1>5 DEF BaseAt
<1>6. ASSUME NEW p \in Places PROVE BaseAt(p)' \in {BaseAt(p), None}
  BY <1>1, <1>3, <1>5
<1>7. ASSUME NEW p \in Places, BaseAt(p) # None PROVE \E q \in Places : BaseAt(q)' = BaseAt(p)
  <2>1. PICK e \in base : BaseAt(p) = e.def
    BY <1>2, <1>7
  <2>2. PICK d \in base' : d.def = e.def
    BY <1>1
  <2> QED BY <1>1, <1>4, <2>1, <2>2
<1> QED BY <1>6, <1>7

\* NothingLostAtExit: whatever was asked for before, and for any items, places, classes and capacities, a game that waits for
\* its answers, or asks for nothing a handler may half do, and that ends in order with no quotation mark in a name, finds what
\* it showed when it is started again: each item in every class it was equipped in and each base weapon (KeptAtExit; what the
\* handlers send, WriteToFile, and ReadFromFile, which joins the slots of one class).
THEOREM NothingLostAtExit == ASSUME Settled PROVE Spec => KeptAtExit
<1> DEFINE Ends == Exit /\ greeted /\ inbox = <<>> /\ ~Unreadable(client.items)
           Found ==
             /\ Unworn(items') = Unworn(client.items)
             /\ \A i \in DOMAIN client.items :
                  /\ items'[i].eq \subseteq client.items[i].eq
                  /\ OfEachClass(items'[i].eq, client.items[i].eq)
             /\ \A p \in Places : BaseAt(p)' \in {client.base[p], None}
             /\ \A p \in Places : client.base[p] # None => \E q \in Places : BaseAt(q)' = client.base[p]
<1>1. ASSUME SInv, Ends PROVE Found
  <2>1. Same(client.items, items) /\ \A p \in Places : client.base[p] = BaseAt(p)
    BY <1>1 DEF SInv, KInv, GameKnows, TInv, TypeOK, Settled, Calm
  <2>2. /\ DOMAIN client.items = DOMAIN items
        /\ \A i \in DOMAIN items : Plain(client.items[i]) = Plain(items[i])
    BY <2>1 DEF Same
  <2>3. \A i \in DOMAIN items : client.items[i] \in Item /\ items[i] \in Item
    BY <1>1, <2>2 DEF SInv, KInv, TInv, TypeOK, CopyOK, ItemsOK
  <2>4. ASSUME NEW x \in Item, NEW y \in Item, Plain(x) = Plain(y)
        PROVE  x.name = y.name /\ x.eq = y.eq /\ [x EXCEPT !.sprays = FALSE, !.eq = {}] = [y EXCEPT !.sprays = FALSE, !.eq = {}]
    BY <2>4 DEF Plain, Item
  <2>5. ~Unreadable(items)
    BY <1>1, <2>2, <2>3, <2>4 DEF Unreadable
  <2>6. PICK file \in Written : Start(file)
    BY <1>1 DEF Exit
  <2>7. items' \in FileItems(items) /\ base' \in FileBases(base)
    BY <2>5, <2>6, FileIs DEF Start
  <2>8. /\ DOMAIN items' = DOMAIN items
        /\ \A i \in DOMAIN items : /\ items'[i] = [items[i] EXCEPT !.eq = items'[i].eq]
                                 /\ items'[i].eq \subseteq items[i].eq /\ OfEachClass(items'[i].eq, items[i].eq)
    <3>1. \A i \in DOMAIN items : "eq" \in DOMAIN items[i]
      BY <2>3 DEF Item
    <3> QED BY <2>7, <3>1, FileKeeps
  <2>9. ASSUME NEW x \in Item, NEW eq, NEW y, y = [x EXCEPT !.eq = eq]
        PROVE  [y EXCEPT !.sprays = FALSE, !.eq = {}] = [x EXCEPT !.sprays = FALSE, !.eq = {}]
    BY <2>9 DEF Item
  <2>10. ASSUME NEW i \in DOMAIN items
         PROVE  /\ items'[i].eq \subseteq client.items[i].eq /\ OfEachClass(items'[i].eq, client.items[i].eq)
                /\ [items'[i] EXCEPT !.sprays = FALSE, !.eq = {}] = [client.items[i] EXCEPT !.sprays = FALSE, !.eq = {}]
    <3>1. [items'[i] EXCEPT !.sprays = FALSE, !.eq = {}] = [items[i] EXCEPT !.sprays = FALSE, !.eq = {}]
      BY <2>3, <2>8, <2>9
    <3>2. /\ client.items[i].eq = items[i].eq
          /\ [client.items[i] EXCEPT !.sprays = FALSE, !.eq = {}] = [items[i] EXCEPT !.sprays = FALSE, !.eq = {}]
      BY <2>2, <2>3, <2>4
    <3> QED BY <2>8, <3>1, <3>2
  <2>11. Unworn(items') = Unworn(client.items)
    BY <2>2, <2>8, <2>10 DEF Unworn
  <2>12. BaseOK(base) /\ Apart(items, base)
    BY <1>1 DEF SInv, KInv, TInv, TypeOK, IInv, InvPlaces
  <2> QED BY <2>1, <2>2, <2>7, <2>10, <2>11, <2>12, BasesAreKept
<1>2. SInv /\ [Next]_vars => [Ends => Found]_vars
  BY <1>1
<1> QED BY <1>2, InitKnows, NextKnows, PTL DEF Spec, KeptAtExit
=============================================================================
