---------------------------- MODULE MCInventory ----------------------------
(* Worlds of Inventory for TLC: what the game asks for and what it owns.    *)
EXTENDS Inventory

\* Places of a team and slot, one team with two slots, and that of the graffiti.
PlaceClass == [p \in Places |-> IF p \in {"t", "t2"} THEN "t" ELSE p]

Owns(defs) == [i \in DOMAIN defs |-> Fresh(defs[i])]
World(ops, defs, patient, online, ends) ==
  [ops |-> ops, slots |-> {"t", "ct"}, stock |-> Owns(defs), patient |-> patient, online |-> online, ends |-> ends, destroy |-> TRUE]

\* The loadout with requests that wait, on a server; and with the end of the game.
\* Crates and the store; positions.  Stickers and names, with used items kept or not.
\* Storage units.
InventoryWorlds == {
  World({"equip", "base", "clear", "unequip", "use", "kill"}, <<"gun", "spray", "stattrak">>, FALSE, TRUE, 0),
  [World({"equip", "base", "use", "delete"}, <<"gun", "spray">>, TRUE, FALSE, 2) EXCEPT !.slots = Places],
  World({"crate", "buy", "delete", "equip"}, <<"crate", "key">>, FALSE, TRUE, 0),
  World({"move", "delete", "crate"}, <<"crate", "key", "tag">>, TRUE, FALSE, 1),
  World({"sticker", "scrape", "name", "unname", "namebase"}, <<"sticker", "patch", "gun", "tag">>, TRUE, TRUE, 1),
  [World({"sticker", "scrape", "name", "namebase", "equip"}, <<"sticker", "gun", "tag">>, TRUE, FALSE, 0) EXCEPT !.destroy = FALSE],
  World({"name", "store", "take", "equip", "clear"}, <<"casket", "gun", "gun">>, TRUE, FALSE, 1)}

\* The worlds are such as InventoryProofs has its theorems about.
ASSUME TheGameIsSettled == Settled /\ Ashore /\ Stored
=============================================================================
