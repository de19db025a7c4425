----------------------------- MODULE KeyListing -----------------------------
(***************************************************************************)
(* The pure half of src/gpg.rs: what it reads out of gpg's status records, *)
(* key listings, agent replies and gpgconf options, and which key of a     *)
(* listing it takes for the signing key.  A line of output is a record; a  *)
(* field that does not parse is None.                                      *)
(***************************************************************************)
EXTENDS Option, Integers, Sequences, SequencesExt

(* The iterator idiom find(): the first of those found in a function of    *)
(* numbers, as a set of at most one.                                       *)
First(f, found) == {f[i] : i \in {j \in found : \A k \in found : j <= k}}

-----------------------------------------------------------------------------
(* gpg --list-secret-keys                                                  *)

(* A sec or ssb row with the fpr and grp rows that follow it, None where   *)
(* there is none with a usable id.                                         *)
KeyRecord(row) ==
    [ primary |-> row.tag = "sec", keyid |-> row.keyid, short |-> row.short,
      fingerprint |-> row.fpr, keygrip |-> row.grip, created |-> row.created,
      can_sign |-> "s" \in row.caps,
      usable |-> row.validity \notin {"r", "e", "n", "d", "i"} ]

(* A block is the primary's record followed by those of its subkeys.  It is *)
(* known by the row it starts at; what comes before the first is dropped.  *)
ParseKeyBlocks(rows) ==
    LET records == [i \in DOMAIN rows |-> KeyRecord(rows[i])]
        starts  == {i \in DOMAIN rows : records[i].primary}
        end(b)  == Max({i \in DOMAIN rows :
                          b <= i /\ \A c \in starts : c <= b \/ i < c})
    IN  [b \in starts |-> SubSeq(records, b, end(b))]

(* Every form of an id that gpg accepts names the key.                     *)
MatchesKeyId(r, needle) ==
    needle \in {r.fingerprint, r.keygrip, r.keyid, r.short}

FindById(blocks, id) ==
    LET named(b) == {n \in DOMAIN b : MatchesKeyId(b[n], id)}
        holders  == {b \in DOMAIN blocks : named(blocks[b]) # {}}
    IN  UNION {First(b, named(b)) : b \in First(blocks, holders)}

TargetOf(r) == [fingerprint |-> r.fingerprint, keygrip |-> r.keygrip]

Age(r) == IF r.created = None THEN 0 ELSE r.created

(* max_by_key on the time of creation, among those that can sign: on a tie *)
(* the primary, then the last.                                             *)
Newest(block) ==
    LET candidates ==
          {i \in DOMAIN block : block[i].usable /\ block[i].can_sign}
        newer(r, s) == \/ Age(r) < Age(s)
                       \/ Age(r) = Age(s) /\ ~r.primary /\ s.primary
        best == {i \in candidates :
                   \A j \in candidates : ~newer(block[i], block[j])}
    IN  {block[i] : i \in {j \in best : \A k \in best : k <= j}}

(* Mutant: a selector that names the primary names just that key.          *)
PrimaryIsExact(block, selector) ==
    LET named == {i \in DOMAIN block : MatchesKeyId(block[i], selector.body)}
    IN  IF selector = None \/ named = {}
          THEN Newest(block)
          ELSE {block[Min(named)]}

(* A selector (with its "!" as "forced") that names a subkey is exact; one *)
(* that names the primary stands for the block unless it is forced.        *)
DefaultSigningKey(block, selector) ==
    LET named == {i \in DOMAIN block : MatchesKeyId(block[i], selector.body)}
        exact == IF selector.forced /\ named = {1} THEN named ELSE named \ {1}
    IN  IF selector = None \/ ~selector.hex \/ exact = {}
          THEN Newest(block)
          ELSE {block[Min(exact)]}

-----------------------------------------------------------------------------
(* gpg --status-fd                                                         *)

(* A record with an unusable argument only shows that there is a stream;   *)
(* the last of a kind counts.  A key is considered once, where it comes    *)
(* first; of all of them only the last is asked for.                       *)
ParseStatus(lines) ==
    LET of(word) == {i \in DOMAIN lines :
                       lines[i].word = word /\ lines[i].arg # None}
        last(S) == IF S = {} THEN None ELSE lines[Max(S)].arg
        considered == of("KEY_CONSIDERED")
    IN  [ sig_created |-> last(of("SIG_CREATED")),
          pinentry_launched |->
            \E i \in DOMAIN lines : lines[i].word = "PINENTRY_LAUNCHED",
          key_considered |->
            last({i \in considered : \A j \in considered :
                    j < i => lines[j].arg # lines[i].arg}),
          saw_status |-> lines # <<>>,
          failure_code |-> last(of("FAILURE")) ]

GPG_ERR_BAD_PASSPHRASE == 11
GPG_ERR_NOT_FOUND == 27
GPG_ERR_CANCELED == 99

(* The low 16 bits: the source is dropped, the system-error flag kept.     *)
Masked(code) == code % 65536

HasFailure(status, wanted) ==
    status.failure_code # None /\ Masked(status.failure_code) = wanted

-----------------------------------------------------------------------------
(* gpg-connect-agent                                                       *)

(* Lines are [word, ...] records; a blank line has the word "".            *)
ParseAgentReply(lines) ==
    LET printed  == {i \in DOMAIN lines : lines[i].word # ""}
        terminal == lines[Max(printed)]
    IN  IF printed # {} /\ terminal.word = "OK"
          THEN [kind |-> "ok"]
        ELSE IF printed # {} /\ terminal.word = "ERR" /\ terminal.code # None
          THEN [kind |-> "err", code |-> terminal.code]
        ELSE [kind |-> "malformed"]

HasCode(reply, wanted) == reply.kind = "err" /\ Masked(reply.code) = wanted

(* The first complete S KEYINFO line.                                      *)
ParseKeyinfo(lines) ==
    LET found == {i \in DOMAIN lines : lines[i].word = "KEYINFO"}
        info  == lines[Min(found)]
    IN  IF found = {}
          THEN None
          ELSE [ cached |-> info.cached = "1",
                 protection |-> CASE info.letter = "P" -> "passphrase"
                                  [] info.letter = "C" -> "clear"
                                  [] OTHER -> "unknown" ]

-----------------------------------------------------------------------------
(* gpgconf --list-options gpg-agent                                        *)

TtlNames == {"default-cache-ttl", "max-cache-ttl"}

(* The configured value if there is one; 0 and None are unusable.          *)
EffectiveTtl(line) ==
    IF line.configured THEN line.explicit ELSE line.default

(* None when an option has no usable value or one of the two is missing.   *)
ParseCachePolicy(lines) ==
    LET of(n)  == {i \in DOMAIN lines : lines[i].name = n}
        ttl(n) == EffectiveTtl(lines[Max(of(n))])
    IN  IF \A n \in TtlNames :
             /\ of(n) # {}
             /\ \A i \in of(n) : EffectiveTtl(lines[i]) \notin {None, 0}
          THEN [ default_ttl |-> ttl("default-cache-ttl"),
                 max_ttl |-> ttl("max-cache-ttl") ]
          ELSE None
=============================================================================
