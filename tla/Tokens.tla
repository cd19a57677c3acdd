------------------------------- MODULE Tokens -------------------------------
(* A token on its way: the sender's wallet puts proofs of one mint and unit  *)
(* into it, in the form of version 4 or, for old keysets or on request, of   *)
(* version 3; the receiver reads it, finds the full ids of its keysets and   *)
(* redeems the proofs, mint by mint.  Tokens of other software may have      *)
(* proofs of several mints.  The wallet's list of sent tokens, and taking    *)
(* them back, are the same with the reserved rows of the database.           *)
(*                                                                           *)
(* Encodings are one to one and left out; what they leave out of a proof, or *)
(* shorten, is not.                                                          *)
EXTENDS Integers, Sequences, FiniteSets, SequencesExt

CONSTANTS KeysetIds,       \* full ids
          IdVersion,       \* KeysetIds -> "base64", "00" or "01"
          Prefix,          \* KeysetIds -> the first 16 characters
          MintOf, UnitOf,  \* KeysetIds -> their mint and unit
          TokenProofs,     \* proofs: id, secret and whether they have a DLEQ proof
          ForeignTokens,   \* version 3 tokens of other software
          SendIds,         \* of sent tokens
          NoSend           \* a proof reserved for a melt has no send id

\* a short id begins like the ids of its version, but is not as long: it is
\* none of the full ids
ASSUME TokensAssumption ==
    /\ IsFiniteSet(KeysetIds) /\ IsFiniteSet(TokenProofs)
    /\ \A k \in KeysetIds : IdVersion[k] = "01" => Prefix[k] \notin KeysetIds
    /\ \A p \in TokenProofs :
         /\ p = [id |-> p.id, secret |-> p.secret, dleq |-> p.dleq]
         /\ p.id \in KeysetIds /\ p.dleq \in BOOLEAN
    /\ NoSend \notin SendIds

VARIABLES
    sent,      \* the proofs that the sender sends
    reservedRows, \* the reserved rows of the sender's table, as pairs of proof and send id
    text,       \* the token as it was sent, or "none" / "raised" in its version
    object,     \* what deserialize_token_from_string makes of it
    redeemed,   \* the proofs that the receiver has handed to a mint: pairs of mint and proof
    unfinished, \* the parts of the token that are not redeemed yet
    back        \* the groups of reserved proofs that "receive --all" tries, in order

wayVars == <<sent, reservedRows, text, object, redeemed, unfinished, back>>

Token(version, unit, dleq, parts) ==
    [version |-> version, unit |-> unit, dleq |-> dleq, parts |-> parts]
Unsent == Token("none", "", FALSE, <<>>)
Raised == Token("raised", "", FALSE, <<>>)
IdsOf(proofs) == {p.id : p \in proofs}

\* any mints, units and proofs, in any number of parts
ASSUME ForeignAssumption ==
    \A t \in ForeignTokens :
      /\ t = Token("V3", t.unit, TRUE, t.parts)
      /\ t.parts \in Seq({t.parts[i] : i \in DOMAIN t.parts})
      /\ \A i \in DOMAIN t.parts : t.parts[i].proofs \subseteq TokenProofs

(* -------------------------- making the token ---------------------------- *)

\* what Wallet.keysets holds for a mint and a unit
Loaded(mint, unit) == {k \in KeysetIds : MintOf[k] = mint /\ UnitOf[k] = unit}

(* _make_tokenv3: a part for each mint; the proofs of a keyset that is not   *)
(* loaded are left out without a word.                                       *)
MakeTokenV3(proofs, loaded) ==
    LET ids   == IdsOf(proofs) \cap loaded
        mints == SetToSeq({MintOf[k] : k \in ids})
    IN  IF Cardinality({UnitOf[k] : k \in ids}) # 1 THEN Raised
        ELSE Token("V3", UnitOf[CHOOSE k \in ids : TRUE], TRUE,
                   [i \in DOMAIN mints |->
                      [mint |-> mints[i],
                       proofs |-> {p \in proofs : p.id \in ids /\ MintOf[p.id] = mints[i]}]])

(* derive_keyset_short_id: the older ids are short.                          *)
ShortId(k) == IF IdVersion[k] = "01" THEN Prefix[k] ELSE k

(* _make_tokenv4: one mint and one unit, all keysets loaded, ids shortened.  *)
MakeTokenV4(proofs, loaded) ==
    IF \/ ~ IdsOf(proofs) \subseteq loaded
       \/ Cardinality({MintOf[k] : k \in IdsOf(proofs)}) # 1
       \/ Cardinality({UnitOf[k] : k \in IdsOf(proofs)}) # 1
    THEN Raised
    ELSE LET k == CHOOSE k \in IdsOf(proofs) : TRUE
         IN  Token("V4", UnitOf[k], TRUE,
                   <<[mint |-> MintOf[k],
                      proofs |-> {[p EXCEPT !.id = ShortId(p.id)] : p \in proofs}]>>)

\* serialize: the DLEQ proofs are left out, or must all be there in version 3
WithoutDleq(parts) ==
    [i \in DOMAIN parts |->
       [parts[i] EXCEPT !.proofs = {[p EXCEPT !.dleq = FALSE] : p \in parts[i].proofs}]]
Serialized(token, include) ==
    CASE token.version = "raised" -> Raised
      [] include /\ token.version = "V3"
           /\ \E i \in DOMAIN token.parts : \E p \in token.parts[i].proofs : ~p.dleq -> Raised
      [] OTHER -> [token EXCEPT !.dleq = include,
                                !.parts = IF include THEN @ ELSE WithoutDleq(@)]

(* serialize_proofs: a keyset with an id in base64 makes it version 3.       *)
SerializeProofs(proofs, loaded, include, legacy) ==
    IF legacy \/ \E p \in proofs : IdVersion[p.id] = "base64"
    THEN Serialized(MakeTokenV3(proofs, loaded), include)
    ELSE Serialized(MakeTokenV4(proofs, loaded), include)

(* -------------------------- reading the token --------------------------- *)

MintsOf(token) == {token.parts[i].mint : i \in DOMAIN token.parts}
ProofsOf(token) == UNION {token.parts[i].proofs : i \in DOMAIN token.parts}

(* deserialize_token_from_string: version 3 becomes version 4, except for    *)
(* ids in base64, whose ValueError is caught; that of several mints is not   *)
(* a ValueError.                                                             *)
FromTokenV3(token) ==
    CASE Cardinality(MintsOf(token)) # 1 -> Raised
      [] /\ Cardinality(MintsOf(token)) = 1
         /\ \E p \in ProofsOf(token) : p.id \in KeysetIds /\ IdVersion[p.id] = "base64" -> token
      [] OTHER -> [token EXCEPT !.version = "V4",
                                !.parts = <<[mint |-> @[1].mint, proofs |-> ProofsOf(token)]>>]
(* TokenV3.parse_obj: a token without a unit is one of sat.                  *)
ParsedV3(token) == [token EXCEPT !.unit = IF @ = "" THEN "sat" ELSE @]
Deserialized(token) == IF token.version = "V3" THEN FromTokenV3(ParsedV3(token)) ELSE token

IsShort(id) == \E k \in KeysetIds : IdVersion[k] = "01" /\ ShortId(k) = id
Matches(id, loaded) == {k \in loaded : ShortId(k) = id}

\* mutant: the first keyset with this prefix will do
ExpandableToFirst(proofs, loaded) ==
    \A p \in proofs : IsShort(p.id) => Matches(p.id, loaded) # {}

(* _expand_short_keyset_ids, with a manager whose caches are empty: the one  *)
(* loaded keyset with this prefix; no proof if there is none, or two.        *)
Expandable(proofs, loaded) ==
    \A p \in proofs : IsShort(p.id) => Cardinality(Matches(p.id, loaded)) = 1
FullIds(proofs, loaded) ==
    {[p EXCEPT !.id = IF IsShort(@) THEN CHOOSE k \in Matches(@, loaded) : TRUE ELSE @] : p \in proofs}

(* Wallet.redeem raises for a proof of a keyset that is not loaded.          *)
Redeemable(proofs, loaded) ==
    Expandable(proofs, loaded) /\ IdsOf(FullIds(proofs, loaded)) \subseteq loaded

(* ------------------------------ the actions ----------------------------- *)

OneMintAndUnit(proofs) ==
    \E k \in KeysetIds : IdsOf(proofs) \subseteq Loaded(MintOf[k], UnitOf[k])

TokensInit ==
    /\ sent \in {P \in SUBSET TokenProofs : P # {} /\ Cardinality(P) <= 3 /\ OneMintAndUnit(P)}
    /\ reservedRows = <<>> /\ back = <<>>
    /\ text = Unsent /\ object = Unsent
    /\ redeemed = {} /\ unfinished = <<>>

(* helpers.send: the token of the proofs; choosing and reserving them is in  *)
(* Wallet.                                                                   *)
SendToken(include, legacy) ==
    /\ text = Unsent /\ reservedRows = <<>>
    /\ LET k == CHOOSE k \in IdsOf(sent) : TRUE
       IN  text' = SerializeProofs(sent, Loaded(MintOf[k], UnitOf[k]), include, legacy)
    /\ UNCHANGED <<sent, reservedRows, object, redeemed, unfinished, back>>

OtherSoftwareSends ==
    /\ text = Unsent /\ reservedRows = <<>>
    /\ text' \in ForeignTokens
    /\ sent' = ProofsOf(text')
    /\ UNCHANGED <<reservedRows, object, redeemed, unfinished, back>>

ReadToken ==
    /\ text.version \in {"V3", "V4"} /\ object = Unsent
    /\ object' = Deserialized(text)
    /\ unfinished' = object'.parts
    /\ UNCHANGED <<sent, reservedRows, text, redeemed, back>>

(* redeem_TokenV4, and redeem_TokenV3 part by part: a wallet for the mint    *)
(* and the token's unit, with the keysets the mint has now; an id that       *)
(* cannot be expanded or is none of them ends the loop, with the parts       *)
(* before it redeemed.                                                       *)
RedeemPart ==
    /\ object.version \in {"V3", "V4"} /\ unfinished # <<>>
    /\ LET part   == Head(unfinished)
           loaded == Loaded(part.mint, object.unit)
       IN  IF Redeemable(part.proofs, loaded)
           THEN /\ redeemed' = redeemed \cup
                     {[mint |-> part.mint, proof |-> p] : p \in FullIds(part.proofs, loaded)}
                /\ unfinished' = Tail(unfinished)
                /\ UNCHANGED object
           ELSE object' = Raised /\ UNCHANGED <<redeemed, unfinished>>
    /\ UNCHANGED <<sent, reservedRows, text, back>>

(* ------------------------ the tokens that were sent ---------------------- *)

(* What get_reserved_proofs reads after several sends and melts have taken   *)
(* their proofs from the table: the rows are where they were.                *)
ReserveRows ==
    /\ text = Unsent /\ reservedRows = <<>>
    /\ \E rows \in [1 .. Cardinality(sent) -> SendIds \cup {NoSend}] :
          reservedRows' = [i \in DOMAIN rows |-> [proof |-> SetToSeq(sent)[i], send |-> rows[i]]]
    /\ UNCHANGED <<sent, text, object, redeemed, unfinished, back>>

\* itertools.groupby: runs of neighbours with the same send id
GroupBy(rows) ==
    LET starts == {i \in DOMAIN rows : i = 1 \/ rows[i].send # rows[i - 1].send}
        run(i) == Cardinality({h \in starts : h <= i})
    IN  [j \in 1 .. Cardinality(starts) |->
           {rows[i].proof : i \in {i \in DOMAIN rows : run(i) = j}}]
SendsOf(rows) == {rows[i].send : i \in DOMAIN rows}
SentTogether(rows, s) == {rows[i].proof : i \in {i \in DOMAIN rows : rows[i].send = s}}

(* "pending" sorts by send id, which Python cannot do with None among them.  *)
PendingTokens ==
    IF NoSend \in SendsOf(reservedRows) /\ Cardinality(SendsOf(reservedRows)) > 1 THEN Raised
    ELSE Token("list", "", FALSE,
               SetToSeq({SerializeProofs(SentTogether(reservedRows, s), KeysetIds, FALSE, FALSE)
                          : s \in SendsOf(reservedRows)}))
ShowPending ==
    /\ reservedRows # <<>> /\ object = Unsent
    /\ object' = PendingTokens
    /\ UNCHANGED <<sent, reservedRows, text, redeemed, unfinished, back>>

(* receive_all_pending does not sort; a group that fails is skipped.         *)
ReceiveAllPending ==
    /\ reservedRows # <<>> /\ back = <<>>
    /\ back' = GroupBy(reservedRows)
    /\ UNCHANGED <<sent, reservedRows, text, object, redeemed, unfinished>>
ReceiveGroup ==
    /\ back # <<>> /\ Head(back) # {}
    /\ LET k      == CHOOSE k \in IdsOf(Head(back)) : TRUE
           loaded == Loaded(MintOf[k], UnitOf[k])
           token  == Deserialized(SerializeProofs(Head(back), loaded, FALSE, FALSE))
       IN  redeemed' = redeemed \cup
             IF token.version \in {"V3", "V4"} /\ Redeemable(ProofsOf(token), loaded)
             THEN {[mint |-> MintOf[k], proof |-> p] : p \in FullIds(ProofsOf(token), loaded)}
             ELSE {}
    /\ back' = IF Len(back) = 1 THEN <<{}>> ELSE Tail(back)
    /\ UNCHANGED <<sent, reservedRows, text, object, unfinished>>

TokensNext ==
    \/ \E include, legacy \in BOOLEAN : SendToken(include, legacy)
    \/ OtherSoftwareSends
    \/ ReadToken \/ RedeemPart
    \/ ReserveRows \/ ShowPending \/ ReceiveAllPending \/ ReceiveGroup

TokensSpec == TokensInit /\ [][TokensNext]_wayVars

(* ------------------------------ properties ------------------------------ *)

\* proofs as they leave the sender, at their mint
AsSent(dleq) ==
    {[mint |-> MintOf[p.id], proof |-> [p EXCEPT !.dleq = dleq /\ @]] : p \in sent}

(* What a receiver hands to a mint are proofs that were sent, each under its *)
(* full keyset id and at its own mint, whichever form the token had and      *)
(* whichever ids share a prefix; and a token that is redeemed without an     *)
(* exception is redeemed whole (serialize_proofs, _expand_short_keyset_ids,  *)
(* redeem_universal, receive_all_pending).                                   *)
TokenKeepsProofs ==
    /\ redeemed \subseteq AsSent(text.dleq)
    /\ object.version \in {"V3", "V4"} /\ unfinished = <<>> => redeemed = AsSent(text.dleq)

(* "Can include proofs from multiple different mints and keysets", "iterates *)
(* through a token with multiple mints": a token of several mints can be     *)
(* read. Violated: from_tokenv3 raises what its caller does not catch.       *)
ManyMintsAreRead == text.version = "V3" => object.version # "raised"

(* Proofs that were sent together are taken back together. Violated: the     *)
(* reserved rows are grouped in the order of the table.                      *)
SentTogetherComesBackTogether ==
    back # <<>> /\ redeemed = {} => Len(back) <= Cardinality(SendsOf(reservedRows))

(* "pending" lists what is reserved. Violated: with a melt under way, whose  *)
(* proofs have no send id, the sort raises.                                  *)
PendingCanBeListed == reservedRows # <<>> => object.version # "raised"
=============================================================================
