----------------------------- MODULE MCCatalog ------------------------------
(* Small instances of the control API's resources for TLC. *)
EXTENDS Catalog

Root   == [scopes |-> {"admin"}, channels |-> {}, all |-> TRUE]
Viewer == [scopes |-> {"read"}, channels |-> {1, 3}, all |-> FALSE]

Ask(op, key, id) == [op |-> op, key |-> key, id |-> id, slot |-> 1, asset |-> 0, uri |-> id, limit |-> 1]

Some == {Ask("create_channel", Root, 1), Ask("update_channel", Root, 1),
         Ask("delete_channel", Root, 1),
         Ask("replace", Root, 1), [Ask("replace", Root, 1) EXCEPT !.slot = 2, !.asset = 1], Ask("replace", Viewer, 2),
         Ask("create_asset", Root, 2), Ask("delete_asset", Root, 1),
         Ask("list_channels", Viewer, 0), Ask("list_assets", Viewer, 0)}

ThreeChannels == {1, 2, 3}
TwoAssets   == {[id |-> 1, uri |-> 1], [id |-> 3, uri |-> 3]}
OneEntry    == {[channel |-> 1, slot |-> 1, asset |-> 3, by |-> 0]}
=============================================================================
