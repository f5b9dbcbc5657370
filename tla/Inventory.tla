----------------------------- MODULE Inventory -----------------------------
(***************************************************************************)
(* The items of one player: class Inventory of csgo_gc/inventory.cpp with  *)
(* the handlers of csgo_gc/gc_client.cpp that call it, the file it is kept *)
(* in and the two copies of it, that of the game and that of the game      *)
(* server the player is on.                                                *)
(*                                                                         *)
(* The game asks by the item ids of its own copy; what it asked waits in   *)
(* the event queue of the GC.  A handler changes the items and sends the   *)
(* changes.  They reach the game and the game server in order, so a copy   *)
(* is modelled as changed with the items; that it is late shows in the     *)
(* requests that wait.                                                     *)
(*                                                                         *)
(* A place is a class with a slot of it.  The wear of a sticker, the kills *)
(* and the contents of a storage unit are small numbers.                   *)
(***************************************************************************)
EXTENDS Integers, Sequences, SequencesExt, FiniteSetsExt

CONSTANTS
  Ids,       \* BOUND: item ids are 1..Ids; the high half of an id
  Places,    \* where something can be equipped
  Class,     \* the class of a place
  Graffiti,  \* the place of a graffiti, class 0
  Bases,     \* the base weapons
  Wear,      \* scrapes a sticker stands
  Capacity,  \* items a storage unit takes, 1000
  Kills,     \* BOUND: of the kill counter
  Room,      \* BOUND: requests that wait
  Worlds     \* values of world

ItemIds == 1..Ids
None == "none"
Bare == -1
Patch == Wear + 1

ASSUME BoundsAreNatural == {Ids, Wear, Capacity, Kills, Room} \subseteq Nat
ASSUME GraffitiIsAPlace == Graffiti \in Places

\* A file the program wrote: its ids are ids, and no two items share a place.
ASSUME StockIsInOrder ==
  \A w \in Worlds :
    /\ DOMAIN w.stock \subseteq ItemIds
    /\ \A i \in DOMAIN w.stock : "eq" \in DOMAIN w.stock[i]
    /\ \A i, j \in DOMAIN w.stock : i # j => w.stock[i].eq \cap w.stock[j].eq = {}

VARIABLES
  items,   \* m_items
  base,    \* m_defaultEquips
  last,    \* m_lastHighItemId
  disk,    \* what the next process reads from inventory.txt
  inbox,   \* requests that wait for the GC thread
  client,  \* the game's copy of the items and of the base weapons
  server,  \* that of the game server
  greeted, \* the game got its welcome
  joined,  \* the game server knows the player
  gone,    \* history: ids destroyed in this process
  starts,  \* how often the game was started again
  world    \* fixed: what inventory.txt holds at first, the requests of the game
           \* and the slots it shows, whether it waits for each, whether it is on a server, how often it
           \* ends, and m_destroyUsedItems

vars == <<items, base, last, disk, inbox, client, server, greeted, joined, gone, starts, world>>

\* ItemSchema::CreateItem and the items of a crate.
Fresh(def) ==
  [def |-> def, name |-> None, sticker |-> IF def = "sticker" THEN 0 ELSE IF def = "patch" THEN Patch ELSE Bare,
   pos |-> 0, box |-> 0, count |-> -1, kills |-> IF def = "stattrak" THEN 0 ELSE -1,
   sprays |-> FALSE, eq |-> {}]

NoCopy == [items |-> <<>>, base |-> [p \in Places |-> None]]
BaseAt(p) == IF \E e \in base : e.at = p THEN (CHOOSE e \in base : e.at = p).def ELSE None

Init ==
  /\ base = {} /\ inbox = <<[op |-> "hello"]>>
  /\ client = NoCopy /\ server = NoCopy /\ greeted = FALSE /\ joined = FALSE
  /\ gone = {} /\ starts = 0 /\ world \in Worlds
  /\ items = world.stock /\ disk = [items |-> items, base |-> {}] /\ last = Max(DOMAIN items \cup {0})

---------------------------------------------------------------------------
(* What the handlers are made of.                                          *)

With(f, new) == [i \in DOMAIN f \cup DOMAIN new |-> IF i \in DOMAIN new THEN new[i] ELSE f[i]]
Without(f, ids) == [i \in DOMAIN f \ ids |-> f[i]]
One(i, item) == [j \in {i} |-> item]

\* Mutant: the first id that is free.
FirstFree == Min(ItemIds \ DOMAIN items)

\* AllocateItem: the first free id after the last one.
NextId == Min({i \in ItemIds : i > last /\ i \notin DOMAIN items})

\* There is an id left: a bound of the model.
HasRoom == \E i \in ItemIds : i > last /\ i \notin DOMAIN items
Allocate == last' = Max({last + 1, NextId})
NoNew == UNCHANGED last

Got(op) == inbox # <<>> /\ Head(inbox).op = op /\ inbox' = Tail(inbox)
Has(i) == i \in DOMAIN items
Destroy(ids) == gone' = gone \cup ids

\* A copy that was sent objects and destroyed ids.
Told(copy, objects, ids, bases) ==
  [items |-> Without(With(copy.items, objects), ids), base |-> With(copy.base, bases)]

\* Mutant: the game server is not told what is destroyed.
ToServerKept(objects, ids, bases) == IF joined THEN Told(server, objects, {}, bases) ELSE server

\* SendMessage: to the game server the player is on.
ToServer(objects, ids, bases) == IF joined THEN Told(server, objects, ids, bases) ELSE server

\* SendMessageToGame(false, ..): the game only; (true, ..): the game server too.
SendGame(objects, ids, bases) == client' = Told(client, objects, ids, bases) /\ UNCHANGED server
SendBoth(objects, ids, bases) ==
  client' = Told(client, objects, ids, bases) /\ server' = ToServer(objects, ids, bases)

\* A handler that returns false: nothing is sent.
Failed == UNCHANGED <<client, server>>
Alone == UNCHANGED <<disk, greeted, joined, starts, world>>
NoBases == <<>>

\* UnequipItem(class, slot): whatever is at the place, and the marker 0 for a
\* base weapon there.
Holders(p) == {i \in DOMAIN items : p \in items[i].eq}

\* Mutant: base weapons are not looked at.
ClearBaseSkip(p) == base

ClearBase(p) == {e \in base : e.at # p}
Cleared(p) == [i \in Holders(p) |-> [items[i] EXCEPT !.eq = @ \ {p}]]

\* Mutant: no marker.
MarkerMissing(p) == NoBases

Marker(p) == IF BaseAt(p) = None THEN NoBases ELSE [q \in {p} |-> None]

---------------------------------------------------------------------------
(* EquipItem.                                                              *)

\* An item at a place.
Equip ==
  /\ Got("equip")
  /\ LET q == Head(inbox)
         put == With(Cleared(q.at), One(q.item, [items[q.item] EXCEPT !.eq = @ \cup {q.at}]))
     IN IF ~Has(q.item) THEN UNCHANGED <<items, base>> /\ Failed
        ELSE /\ items' = With(items, put) /\ base' = ClearBase(q.at)
             /\ SendBoth(put, {}, Marker(q.at))
  /\ NoNew /\ UNCHANGED gone /\ Alone

\* A base weapon at a place.
EquipBase ==
  /\ Got("base")
  /\ LET q == Head(inbox) IN
       /\ items' = With(items, Cleared(q.at))
       /\ base' = ClearBase(q.at) \cup {[def |-> q.def, at |-> q.at]}
       /\ SendBoth(Cleared(q.at), {}, [p \in {q.at} |-> q.def])
  /\ NoNew /\ UNCHANGED gone /\ Alone

\* Id 0: nothing at a place.
ClearPlace ==
  /\ Got("clear")
  /\ LET p == Head(inbox).at IN
       /\ items' = With(items, Cleared(p)) /\ base' = ClearBase(p)
       /\ SendBoth(Cleared(p), {}, Marker(p))
  /\ NoNew /\ UNCHANGED gone /\ Alone

\* Slot 0xffff: UnequipItem(id), an item from all its places.
Unequip ==
  /\ Got("unequip")
  /\ LET i == Head(inbox).item IN
       IF ~Has(i) THEN UNCHANGED items /\ Failed
       ELSE LET bare == One(i, [items[i] EXCEPT !.eq = {}])
            IN items' = With(items, bare) /\ SendBoth(bare, {}, NoBases)
  /\ NoNew /\ UNCHANGED <<base, gone>> /\ Alone

\* UseItem: the unsealed copy takes the place of the sealed spray and of the old
\* graffiti; the sprays are set on it after it was sent.
UseItem ==
  /\ Got("use")
  /\ LET i == Head(inbox).item IN
       IF ~Has(i) \/ items[i].def # "spray" THEN UNCHANGED <<items, base, last, gone>> /\ Failed
       ELSE /\ HasRoom /\ Allocate
            /\ LET new == [items[i] EXCEPT !.def = "graffiti", !.eq = {Graffiti}]
                   off == Without(Cleared(Graffiti), {i})
               IN /\ items' = With(Without(With(items, off), {i}), One(NextId, [new EXCEPT !.sprays = TRUE]))
                  /\ base' = ClearBase(Graffiti)
                  /\ SendBoth(With(off, One(NextId, new)), {i}, Marker(Graffiti))
            /\ Destroy({i})
  /\ Alone

---------------------------------------------------------------------------
(* Crates, the store, deletion.                                            *)

\* UnlockCrate: the key is not looked at.
UnlockCrate ==
  /\ Got("crate")
  /\ LET q == Head(inbox) IN
       IF ~Has(q.item) \/ items[q.item].def # "crate" THEN UNCHANGED <<items, last, gone>> /\ Failed
       ELSE /\ HasRoom /\ Allocate
            /\ \E def \in {"gun", "stattrak"} :
                 LET used == IF world.destroy THEN {q.item} \cup ({q.with} \cap DOMAIN items) ELSE {}
                 IN /\ items' = Without(With(items, One(NextId, Fresh(def))), used)
                    /\ SendBoth(One(NextId, Fresh(def)), used, NoBases)
                    /\ Destroy(used)
  /\ UNCHANGED base /\ Alone

\* PurchaseItem.
StorePurchaseInit ==
  /\ Got("buy")
  /\ HasRoom /\ Allocate
  /\ LET new == One(NextId, Fresh(Head(inbox).def))
     IN items' = With(items, new) /\ SendBoth(new, {}, NoBases)
  /\ UNCHANGED <<base, gone>> /\ Alone

\* RemoveItem.
DeleteItem ==
  /\ Got("delete")
  /\ LET i == Head(inbox).item IN
       IF ~Has(i) THEN UNCHANGED <<items, gone>> /\ Failed
       ELSE items' = Without(items, {i}) /\ SendBoth(<<>>, {i}, NoBases) /\ Destroy({i})
  /\ NoNew /\ UNCHANGED base /\ Alone

\* SetItemPositions: the items before one that is missing are moved all the same.
SetItemPositions ==
  /\ Got("move")
  /\ LET ids == Head(inbox).items
         found == {k \in 1..Len(ids) : \A m \in 1..k : Has(ids[m])}
         moved == [i \in {ids[k] : k \in found} |-> [items[i] EXCEPT !.pos = Head(inbox).pos]]
     IN /\ items' = With(items, moved)
        /\ IF found = 1..Len(ids) THEN SendBoth(moved, {}, NoBases) ELSE Failed
  /\ NoNew /\ UNCHANGED <<base, gone>> /\ Alone

---------------------------------------------------------------------------
(* Stickers, names, kills.                                                 *)

Used(i) == IF world.destroy THEN {i} \cap DOMAIN items ELSE {}

\* ApplySticker to an item, or to a new one of a base weapon, which is made before
\* the sticker is found to have no kit.
ApplySticker ==
  /\ Got("sticker")
  /\ LET q == Head(inbox) IN
       IF ~Has(q.with) \/ (q.item # 0 /\ ~Has(q.item)) THEN UNCHANGED <<items, last, gone>> /\ Failed
       ELSE /\ q.item = 0 => HasRoom
            /\ IF q.item = 0 THEN Allocate ELSE NoNew
            /\ LET i == IF q.item = 0 THEN NextId ELSE q.item
                   old == IF q.item = 0 THEN Fresh("base") ELSE items[i]
                   kit == items[q.with].sticker
                   new == One(i, [old EXCEPT !.sticker = IF kit = Bare THEN @ ELSE kit])
                   used == IF kit = Bare THEN {} ELSE Used(q.with)
               IN /\ items' = Without(With(items, new), used)
                  /\ IF kit = Bare THEN Failed ELSE SendBoth(new, used, NoBases)
                  /\ Destroy(used)
  /\ UNCHANGED base /\ Alone

\* What is left of an item without its sticker or its name: a base weapon that was
\* cloned for it is destroyed.
Stripped(i, item) ==
  IF items[i].def = "base"
    THEN items' = Without(items, {i}) /\ SendBoth(<<>>, {i}, NoBases) /\ Destroy({i})
    ELSE items' = With(items, One(i, item)) /\ SendBoth(One(i, item), {}, NoBases) /\ UNCHANGED gone

\* ScrapeSticker: a patch, or a sticker that is worn off, is removed.
ScrapeSticker ==
  /\ Got("scrape")
  /\ LET i == Head(inbox).item IN
       IF ~Has(i) THEN UNCHANGED <<items, gone>> /\ Failed
       ELSE IF items[i].sticker \in 0..(Wear - 1)
         THEN LET new == One(i, [items[i] EXCEPT !.sticker = @ + 1])
              IN items' = With(items, new) /\ SendBoth(new, {}, NoBases) /\ UNCHANGED gone
         ELSE Stripped(i, [items[i] EXCEPT !.sticker = Bare])
  /\ NoNew /\ UNCHANGED base /\ Alone

\* RemoveItemName.
RemoveItemName ==
  /\ Got("unname")
  /\ LET i == Head(inbox).item IN
       IF ~Has(i) THEN UNCHANGED <<items, gone>> /\ Failed
       ELSE Stripped(i, [items[i] EXCEPT !.name = None])
  /\ NoNew /\ UNCHANGED base /\ Alone

\* NameItem: a storage unit starts to count.  Renamed before the tag is looked for.
NameItem ==
  /\ Got("name")
  /\ LET q == Head(inbox) IN
       IF ~Has(q.item) THEN UNCHANGED <<items, gone>> /\ Failed
       ELSE LET old == items[q.item]
                new == One(q.item, [old EXCEPT !.name = q.name,
                                      !.count = IF old.def = "casket" /\ @ = -1 THEN 0 ELSE @])
                tag == IF q.with = 0 THEN {} ELSE Used(q.with)
                paid == q.with = 0 \/ ~world.destroy \/ Has(q.with)
            IN /\ items' = Without(With(items, new), tag)
               /\ IF paid THEN SendBoth(new, tag, NoBases) ELSE Failed
               /\ Destroy(tag)
  /\ NoNew /\ UNCHANGED base /\ Alone

\* NameBaseItem: the item is made before the tag is looked for.
NameBaseItem ==
  /\ Got("namebase") /\ HasRoom /\ Allocate
  /\ LET q == Head(inbox)
         new == One(NextId, [Fresh("base") EXCEPT !.name = q.name])
     IN /\ items' = Without(With(items, new), Used(q.with))
        /\ IF world.destroy /\ ~Has(q.with) THEN Failed ELSE SendBoth(new, Used(q.with), NoBases)
        /\ Destroy(Used(q.with))
  /\ UNCHANGED base /\ Alone

\* IncrementKillCountAttribute, asked by the game server.
IncrementKillCount ==
  /\ Got("kill")
  /\ LET i == Head(inbox).item IN
       IF ~Has(i) \/ items[i].kills = -1 THEN UNCHANGED items /\ Failed
       ELSE LET new == One(i, [items[i] EXCEPT !.kills = @ + 1])
            IN items' = With(items, new) /\ SendBoth(new, {}, NoBases)
  /\ NoNew /\ UNCHANGED <<base, gone>> /\ Alone

---------------------------------------------------------------------------
(* Storage units.                                                          *)

\* Mutant: a unit that was never named counts too.
CountsUnnamed(c, delta) == items[c].count + delta \in 0..Capacity

\* Mutant: no limit.
CountsBeyond(c, delta) == items[c].count # -1

\* IncrementCasketItemsCount.
Counts(c, delta) == items[c].count # -1 /\ items[c].count + delta \in 0..Capacity

Casket(op, delta, box) ==
  /\ Got(op)
  /\ LET c == Head(inbox).with
         i == Head(inbox).item
     IN IF ~Has(c) \/ ~Has(i) \/ items[c].def # "casket" \/ ~Counts(c, delta)
          THEN UNCHANGED items /\ Failed
          ELSE LET stored == [items[i] EXCEPT !.box = IF box THEN c ELSE 0, !.eq = IF box THEN {} ELSE @]
                   new == With(One(c, [items[c] EXCEPT !.count = @ + delta]), One(i, stored))
               IN items' = With(items, new) /\ SendGame(new, {}, NoBases)
  /\ NoNew /\ UNCHANGED <<base, gone>> /\ Alone

CasketItemAdd == Casket("store", 1, TRUE)
CasketItemExtract == Casket("take", -1, FALSE)

---------------------------------------------------------------------------
(* The copies, the file and the process.                                   *)

\* BuildCacheSubscription; that for a game server has the equipped items only.
Copy(ids) == [items |-> [i \in ids |-> items[i]], base |-> [p \in Places |-> BaseAt(p)]]

OnClientHello ==
  /\ Got("hello")
  /\ client' = Copy(DOMAIN items) /\ greeted' = TRUE
  /\ UNCHANGED <<items, base, last, disk, server, joined, gone, starts, world>>

HandleSOCacheRequest ==
  /\ Got("cache")
  /\ server' = IF joined THEN Copy({i \in DOMAIN items : items[i].eq # {}}) ELSE server
  /\ UNCHANGED <<items, base, last, disk, client, greeted, joined, gone, starts, world>>

\* Mutant: the equipped state is not written.
FileItemsBare(its) == {[i \in DOMAIN its |-> [its[i] EXCEPT !.eq = {}]]}

\* What ReadFromFile makes of what WriteToFile writes.  Names are not escaped, and a
\* file that does not parse is an empty inventory.  Keys of one name become one.  The
\* key of a place is its class: of the places an item has in a class one stays, here
\* any.  That of a base weapon is its definition: of its places one stays.
OfEachClass(some, all) ==
  /\ \A p, q \in some : Class[p] = Class[q] => p = q
  /\ \A p \in all : \E q \in some : Class[q] = Class[p]
FileItems(its) ==
  {[i \in DOMAIN its |-> [its[i] EXCEPT !.eq = @ \cap kept]] :
     kept \in {k \in SUBSET Places : \A i \in DOMAIN its : OfEachClass(its[i].eq \cap k, its[i].eq)}}
Unreadable(its) == \E i \in DOMAIN its : its[i].name = "quoted"
FileBases(bs) ==
  {kept \in SUBSET bs : /\ \A d, e \in kept : d.def = e.def => d = e
                        /\ \A e \in bs : \E d \in kept : d.def = e.def}
Written == IF Unreadable(items) THEN {[items |-> <<>>, base |-> {}]}
           ELSE [items : FileItems(items), base : FileBases(base)]

\* A new process reads the file and the game says hello.
Start(file) ==
  /\ starts < world.ends /\ starts' = starts + 1
  /\ items' = file.items /\ base' = file.base /\ last' = Max(DOMAIN file.items \cup {0})
  /\ disk' = file /\ gone' = {}
  /\ inbox' = <<[op |-> "hello"]>> /\ client' = NoCopy /\ server' = NoCopy
  /\ greeted' = FALSE /\ joined' = FALSE
  /\ UNCHANGED world

\* The game ends: the destructor writes.  What waits is dropped.
Exit == \E file \in Written : Start(file)

\* The game dies: it does not.
Die == Start(disk)

---------------------------------------------------------------------------
(* The game, and the game server the player is on.                         *)

Ask(request) ==
  /\ greeted /\ request.op \in world.ops
  /\ Len(inbox) < (IF world.patient THEN 1 ELSE Room)
  /\ inbox' = Append(inbox, request)
  /\ UNCHANGED <<items, base, last, disk, client, server, greeted, joined, gone, starts, world>>

Mine(defs) == {i \in DOMAIN client.items : client.items[i].def \in defs /\ client.items[i].box = 0}
Guns == {"gun", "stattrak", "base"}
Slots == (Places \cap world.slots) \ {Graffiti}
Holding(c) == {i \in DOMAIN client.items : client.items[i].box = c}

AskLoadout ==
  \/ \E i \in Mine(Guns), p \in Slots : Ask([op |-> "equip", item |-> i, at |-> p])
  \/ \E d \in Bases, p \in Slots : Ask([op |-> "base", def |-> d, at |-> p])
  \/ \E p \in Slots \cup {Graffiti} : Ask([op |-> "clear", at |-> p])
  \/ \E i \in Mine(Guns) : Ask([op |-> "unequip", item |-> i])
  \/ \E i \in Mine({"spray"}) : Ask([op |-> "use", item |-> i])

AskItems ==
  \/ \E i \in Mine({"crate"}), k \in Mine({"key"}) \cup {0} : Ask([op |-> "crate", item |-> i, with |-> k])
  \/ \E d \in {"tag", "gun"} : Ask([op |-> "buy", def |-> d])
  \/ \E i \in DOMAIN client.items :
       client.items[i].box = 0 /\ Holding(i) = {} /\ Ask([op |-> "delete", item |-> i])
  \/ \E i, j \in DOMAIN client.items : \E n \in 0..1 :
       Ask([op |-> "move", items |-> IF i = j THEN <<i>> ELSE <<i, j>>, pos |-> n])

AskNames ==
  \/ \E s \in Mine({"sticker", "patch"}), i \in Mine(Guns) \cup {0} :
       /\ i # 0 => client.items[i].sticker = Bare
       /\ Ask([op |-> "sticker", item |-> i, with |-> s])
  \/ \E i \in Mine(Guns) : client.items[i].sticker # Bare /\ Ask([op |-> "scrape", item |-> i])
  \/ \E i \in Mine(Guns) : client.items[i].name # None /\ Ask([op |-> "unname", item |-> i])
  \/ \E i \in Mine(Guns), t \in Mine({"tag"}), n \in {"plain", "quoted"} :
       Ask([op |-> "name", item |-> i, with |-> t, name |-> n])
  \/ \E i \in Mine({"casket"}) : Ask([op |-> "name", item |-> i, with |-> 0, name |-> "plain"])
  \/ \E t \in Mine({"tag"}) : Ask([op |-> "namebase", with |-> t, name |-> "plain"])

AskCaskets ==
  \/ \E c \in Mine({"casket"}), i \in Mine(Guns) : Ask([op |-> "store", with |-> c, item |-> i])
  \/ \E c \in Mine({"casket"}) : \E i \in Holding(c) : Ask([op |-> "take", with |-> c, item |-> i])

\* Counted by the game server in its own copy.
AskKill ==
  \E i \in DOMAIN server.items :
    /\ server.items[i].kills \in 0..(Kills - 1) /\ Len(inbox) < Room
    /\ ~\E k \in DOMAIN inbox : inbox[k].op = "kill"
    /\ joined /\ Ask([op |-> "kill", item |-> i])

\* The ticket of the player is known to a game server, or given back.
Join ==
  /\ world.online /\ greeted /\ ~joined /\ joined' = TRUE /\ server' = NoCopy
  /\ Len(inbox) < Room /\ inbox' = Append(inbox, [op |-> "cache"])
  /\ UNCHANGED <<items, base, last, disk, client, greeted, gone, starts, world>>

LeaveServer ==
  /\ joined /\ joined' = FALSE /\ server' = NoCopy
  /\ UNCHANGED <<items, base, last, disk, inbox, client, greeted, gone, starts, world>>

---------------------------------------------------------------------------
Handle ==
  \/ Equip \/ EquipBase \/ ClearPlace \/ Unequip \/ UseItem
  \/ UnlockCrate \/ StorePurchaseInit \/ DeleteItem \/ SetItemPositions
  \/ ApplySticker \/ ScrapeSticker \/ RemoveItemName \/ NameItem \/ NameBaseItem
  \/ IncrementKillCount \/ CasketItemAdd \/ CasketItemExtract
  \/ OnClientHello \/ HandleSOCacheRequest

Next ==
  \/ Handle
  \/ AskLoadout \/ AskItems \/ AskNames \/ AskCaskets \/ AskKill
  \/ Join \/ LeaveServer \/ Exit \/ Die

Spec == Init /\ [][Next]_vars

---------------------------------------------------------------------------
(* What the properties are about.                                          *)

\* Handlers that change items and then fail send nothing of it, and a unit is not sent to the game server.  A game is
\* settled when it waits for each answer or asks nothing of the first kind, and ashore when nobody on a server stores.
Partial == {"move", "name", "namebase", "sticker"}
Boxing == {"store", "take"}
Settled == \A w \in Worlds : w.patient \/ w.ops \cap Partial = {}
Ashore == \A w \in Worlds : w.online => w.ops \cap Boxing = {}

\* Units of a file hold what they count, and only a game that waits for each answer stores.
Inside(f, c) == {i \in DOMAIN f : f[i].box = c}
Unboxed(f) == \A i \in DOMAIN f : f[i].box = 0
Counted(f) ==
  /\ \A i \in DOMAIN f : f[i].box # 0 => f[i].box \in DOMAIN f /\ f[f[i].box].def = "casket"
  /\ \A c \in DOMAIN f : f[c].def = "casket" =>
       IF f[c].count = -1 THEN Inside(f, c) = {} ELSE f[c].count = Cardinality(Inside(f, c))
Stored == \A w \in Worlds : Counted(w.stock) /\ (w.patient \/ ("store" \notin w.ops /\ Unboxed(w.stock)))

\* The kinds of item, and their types.
Defs == {"gun", "stattrak", "base", "sticker", "patch", "tag", "crate", "key", "spray", "graffiti", "casket"}
Item == [def : Defs, name : {None, "plain", "quoted"}, sticker : Bare..Patch, pos : 0..1, box : 0..Ids,
         count : -1..Capacity, kills : -1..Kills, sprays : BOOLEAN, eq : SUBSET Places]
ItemsOK(f) == DOMAIN f \subseteq ItemIds /\ \A i \in DOMAIN f : f[i] \in Item
CopyOK(copy) == ItemsOK(copy.items) /\ copy.base \in [Places -> Bases \cup {None}]
BaseOK(bs) == bs \subseteq [def : Bases, at : Places]

\* A file the program wrote: items have their fields, and CreateItem gave a sticker or patch its kit.
Kits(f) == \A i \in DOMAIN f : f[i].def \in {"sticker", "patch"} => f[i].sticker # Bare
ASSUME StockIsTyped == \A w \in Worlds : ItemsOK(w.stock) /\ Kits(w.stock) /\ w.ends \in Nat

\* Every part of the state has its type.
TypeOK ==
  /\ ItemsOK(items) /\ BaseOK(base) /\ last \in 0..Ids
  /\ ItemsOK(disk.items) /\ BaseOK(disk.base)
  /\ CopyOK(client) /\ CopyOK(server)
  /\ Len(inbox) <= Room + 1 /\ greeted \in BOOLEAN /\ joined \in BOOLEAN
  /\ gone \subseteq ItemIds /\ starts \in 0..world.ends /\ world \in Worlds

\* equipment_sync_implementation.md:16: equipping an item takes the base weapon of
\* its slot off.  Nothing shares a place, whatever was equipped, unsealed, stored or
\* read back before.
OnePerPlace ==
  \A p \in Places : Cardinality(Holders(p)) + Cardinality({e \in base : e.at = p}) <= 1

\* What the handlers send is what they changed: when nothing waits the game has the
\* very items of the GC.  Of a graffiti it does not know the sprays, which UseItem
\* sets after it wrote the update.
Known(f) == [i \in DOMAIN f |-> [f[i] EXCEPT !.sprays = FALSE]]
GameInStep ==
  greeted /\ inbox = <<>> =>
    /\ Known(client.items) = Known(items)
    /\ \A p \in Places : client.base[p] = BaseAt(p)

\* And the game server has the loadout: the items that are equipped, as they are, and
\* no other item as equipped.
Loadout(f) == [i \in {j \in DOMAIN f : f[j].eq # {}} |-> [f[i] EXCEPT !.sprays = FALSE]]
ServerInStep ==
  joined /\ inbox = <<>> =>
    /\ Loadout(server.items) = Loadout(items)
    /\ \A p \in Places : server.base[p] = BaseAt(p)

\* The count of a storage unit is the number of items that are stored in it.
CasketCounts ==
  \A c \in DOMAIN items :
    LET inside == {i \in DOMAIN items : items[i].box = c}
    IN inside # {} => items[c].count = Cardinality(inside)

\* The id of an item that was destroyed is not given again while the process runs, so
\* a request that waits never meets another item than the one it was meant for.
NoReuse == gone \cap DOMAIN items = {}

\* What the game shows when it ends in order is what the next one begins with, whatever
\* was asked for, and in whatever order, since the process began: the same items, stored
\* in the same units, each item in every class it was equipped in, each base weapon that
\* was equipped still equipped, and nothing in a place where something else was.  Not so
\* when a name has a quotation mark in it.  What goes is the second of two places: of an
\* item in two slots of one class, of a base weapon equipped for both teams.
Unworn(f) == [i \in DOMAIN f |-> [f[i] EXCEPT !.sprays = FALSE, !.eq = {}]]
KeptAtExit ==
  [][Exit /\ greeted /\ inbox = <<>> /\ ~Unreadable(client.items) =>
       /\ Unworn(items') = Unworn(client.items)
       /\ \A i \in DOMAIN client.items :
            /\ items'[i].eq \subseteq client.items[i].eq
            /\ OfEachClass(items'[i].eq, client.items[i].eq)
       /\ \A p \in Places : BaseAt(p)' \in {client.base[p], None}
       /\ \A p \in Places : client.base[p] # None => \E q \in Places : BaseAt(q)' = client.base[p]]_vars
=============================================================================
