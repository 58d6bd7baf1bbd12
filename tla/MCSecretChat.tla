----------------------------- MODULE MCSecretChat -----------------------------
(* Instances of SecretChat for TLC.                                          *)
EXTENDS SecretChat

Each(a, b) == [p \in Peers |-> IF p = "admin" THEN a ELSE b]
W(texts, rekeys, errors, restarts, events) ==
    [texts |-> texts, rekeys |-> rekeys, errors |-> errors, restarts |-> restarts, rare |-> events]

SmallWorlds == {
    W(Each(2, 1), Each(1, 1), 0, 0, {}),
    W(Each(2, 1), Each(1, 0), 1, 0, {}),
    W(Each(3, 0), Each(0, 0), 2, 0, {"retry", "delete"}),
    W(Each(2, 0), Each(0, 0), 1, 1, {}),
    W(Each(1, 0), Each(1, 0), 0, 1, {})}

(* Two messages under the new key fail, and a third that is held remembers    *)
(* that this key was the next one.                                           *)
StaleWorlds == {W(Each(1, 2), Each(2, 0), 2, 0, {})}
=============================================================================
