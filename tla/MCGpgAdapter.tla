---------------------------- MODULE MCGpgAdapter ----------------------------
(* Keys, keyrings and requests for TLC.                                    *)
EXTENDS GpgAdapter

Key(n, uid, created, caps, validity) ==
    [ fpr |-> "fpr" \o n, grip |-> "grip" \o n, keyid |-> "keyid" \o n,
      short |-> "short" \o n, uid |-> uid, created |-> created,
      caps |-> caps, validity |-> validity ]

Pri(caps) == Key("p", "ann", 1, caps, "u")
Sub1(validity) == Key("s", "ann", 2, {"s"}, validity)
Sub2(caps, validity) == Key("t", "ann", 3, caps, validity)
Twins == <<Key("p", "ann", 3, {"s", "c"}, "u"),
           Key("s", "ann", 3, {"s"}, "u"), Key("t", "ann", 3, {"s"}, "u")>>
Other == Key("o", "bob", 1, {"s", "c"}, "u")

(* Two signing subkeys; the newest expired; no key that can sign, then     *)
(* another block; a primary that signs, with an encryption subkey; three   *)
(* signing keys of one age.                                                *)
MCRings ==
    { << <<Pri({"c"}), Sub1("u"), Sub2({"s"}, "u")>>, <<Other>> >>,
      << <<Pri({"s", "c"}), Sub1("u"), Sub2({"s"}, "e")>> >>,
      << <<Pri({"c"}), Sub1("r")>>, <<Other>> >>,
      << <<Pri({"s", "c"}), Sub2({"e"}, "u")>> >>,
      << Twins >> }

Sel(body, forced) == [body |-> body, hex |-> TRUE, forced |-> forced]
User(uid) == [body |-> uid, hex |-> FALSE, forced |-> FALSE]

Probe(key) == [op |-> "probe", key |-> key]
Use(key, foreground) == [op |-> "use", key |-> key, foreground |-> foreground]

MCRequests ==
    { Probe(None), Probe(Sel("shortp", FALSE)), Probe(Sel("fprp", TRUE)),
      Probe(Sel("keyids", FALSE)), Probe(User("ann")),
      Use(None, TRUE), Use(Sel("fprs", FALSE), FALSE),
      [op |-> "state", grip |-> "grips"], [op |-> "state", grip |-> "gripx"],
      [op |-> "clear", grip |-> "grips"],
      [op |-> "pass", fpr |-> "fprs", right |-> TRUE],
      [op |-> "pass", fpr |-> "fprs", right |-> FALSE],
      [op |-> "policy"] }

Option(name, default, configured, explicit) ==
    [name |-> name, default |-> default, configured |-> configured,
     explicit |-> explicit]

MCOptions ==
    LET idle == Option("default-cache-ttl", 600, FALSE, None)
        hard == Option("max-cache-ttl", 7200, TRUE, 900)
        zero == Option("max-cache-ttl", 7200, TRUE, 0)
    IN  {<<Option("verbose", None, FALSE, None), idle, hard>>, <<idle, zero>>,
         <<hard>>}
=============================================================================
