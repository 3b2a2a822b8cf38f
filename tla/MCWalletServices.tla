-------------------------- MODULE MCWalletServices --------------------------
(* Instances of WalletServices for TLC.                                    *)
EXTENDS WalletServices

CONSTANTS W, O, V, WT, OT, WN, OX, WX, WQ, M, N, Q

(* W and O each hold a token M, O holds the NFT N, Q is a token nobody     *)
(* verified, WN is a second account of W that may be opened, V belongs to  *)
(* a program.                                                              *)
AllAccounts == <<W, O, V, WT, OT, WN, OX, WX, WQ>>

Ledger ==
  [lamports |-> (W :> 20) @@ (O :> 20) @@ (V :> 20) @@ (WN :> 0)
                @@ (WT :> Rent) @@ (OT :> Rent) @@ (OX :> Rent) @@ (WX :> Rent) @@ (WQ :> Rent),
   tokens   |-> (WT :> [owner |-> W, mint |-> M, amount |-> 4]) @@ (OT :> [owner |-> O, mint |-> M, amount |-> 4])
                @@ (OX :> [owner |-> O, mint |-> N, amount |-> 1]) @@ (WX :> [owner |-> W, mint |-> N, amount |-> 0])
                @@ (WQ :> [owner |-> W, mint |-> Q, amount |-> 0])]

Top(ix)   == ix @@ [inner |-> FALSE]
Inner(ix) == ix @@ [inner |-> TRUE]

Native(from, to, n) == [program |-> "system", op |-> "transfer", source |-> from, destination |-> to, lamports |-> n]
Checked(from, to, by, m, n, d) ==
  [program |-> "token", op |-> "transferChecked", source |-> from, destination |-> to, authority |-> by,
   mint |-> m, amount |-> n, decimals |-> d]
Unchecked(from, to, by, n) ==
  [program |-> "token", op |-> "transfer", source |-> from, destination |-> to, authority |-> by, amount |-> n]
Call(program, op) == [program |-> program, op |-> op]

SomeInstructions ==
  { Top(Native(W, O, 1)), Top(Native(O, W, 6)), Inner(Native(V, W, 6)), Inner(Native(W, V, 6)),
    Top([program |-> "vault", op |-> "pay", from |-> V, to |-> W, lamports |-> 6]),
    Top(Checked(WT, OT, W, M, 2, 6)), Top(Unchecked(OT, WT, O, 3)), Inner(Unchecked(WT, WN, W, 1)),
    Top(Checked(OX, WX, O, N, 1, 0)),
    Inner([program |-> "token", op |-> "mintTo", account |-> WT, mint |-> M, amount |-> 1]),
    Top([program |-> "token", op |-> "mintTo", account |-> WQ, mint |-> Q, amount |-> 9]),
    Top([program |-> "token", op |-> "burn", account |-> WT, authority |-> W, mint |-> M, amount |-> 1]),
    Top([program |-> "ata", op |-> "create", account |-> WN, wallet |-> W, mint |-> M, source |-> W]),
    Top([program |-> "token", op |-> "closeAccount", account |-> WN, destination |-> W]),
    Top([program |-> "token", op |-> "closeAccount", account |-> WX, destination |-> W]),
    Top([program |-> "token", op |-> "setAuthority", account |-> WX, newAuthority |-> O]),
    Top([program |-> "token", op |-> "setAuthority", account |-> WT, newAuthority |-> V]),
    Inner(Call("bubblegum", "transfer") @@ [readable |-> TRUE]),
    Top(Call("bubblegum", "burn") @@ [readable |-> FALSE]),
    Top(Call("aggregator", "route")), Top(Call("stake", "withdraw")), Top(Call("marinade", None)),
    Top(Call("kamino", None)), Top(Call("metaplex", "mint")), Top(Call("memo", None) @@ [text |-> "note"]) }

-----------------------------------------------------------------------------
(* Two owners, each with a stake of SKR, and one account of native stake.  *)
CONSTANTS o1, o2, p1, p2, a1

OwnersOfStakes == p1 :> o1 @@ p2 :> o2
Listed2 == a1 :> {"staker", "withdrawer"}

-----------------------------------------------------------------------------
(* One NFT of every sort, one beside a Token-2022 NFT with any metadata,   *)
(* listed by the index or not, and more of both than its first page takes. *)

Doc(d, a, c, im) == [description |-> d, attributes |-> a, collectionName |-> c, image |-> im]
Docs == {Doc(d, a, c, im) : d \in {"none", "url", "qr", "phishing"}, a \in {"none", "plain", "huge", "url"},
                            c \in BOOLEAN, im \in BOOLEAN}
Nft(m, name, iname, idx, t22, md, doc, cv, h) ==
  [mint |-> m, name |-> name, indexName |-> iname, indexed |-> idx, token2022 |-> t22, metadata |-> md,
   json |-> doc, collectionVerified |-> cv, image |-> FALSE, uri |-> TRUE, held |-> h, blacklisted |-> FALSE]
Classic(m, names, docs) ==
  {Nft(m, n, n, TRUE, FALSE, "none", d, cv, TRUE) : n \in names, d \in docs, cv \in BOOLEAN}
Token2022(m, docs) ==
  {n \in {Nft(m, name, i, idx, TRUE, md, d, FALSE, h) :
             name \in {"plain", "lure", "none"}, i \in {"plain", "lure", "none"}, idx \in BOOLEAN,
             md \in {"own", "group", "other"}, d \in docs, h \in BOOLEAN} :
     n.indexName \in {n.name, "none"} /\ (n.metadata = "other" <=> n.name = "none")}
Burnt(nfts) == {[n EXCEPT !.held = FALSE] : n \in nfts}
Many == {<<n, o, p>> : n \in Classic(1, {"plain"}, {Doc("none", "plain", FALSE, TRUE)})
                              \cup Burnt(Classic(1, {"plain"}, {NoDocument})),
                       o \in Classic(2, {"plain"}, {NoDocument}),
                       p \in Classic(3, {"plain"}, {Doc("none", "plain", FALSE, TRUE)})
                              \cup {t \in Token2022(3, {NoDocument}) : t.name = "plain" /\ t.metadata = "own"}}
SomeHoldings ==
  Many \cup
  {<<n>> : n \in Classic(1, {"plain", "lure", "none", "domain"}, Docs)}
  \cup {<<n, o>> : n \in Classic(1, {"plain", "lure"}, {Doc("none", "plain", FALSE, TRUE)}),
                   o \in Token2022(2, {Doc("url", "plain", FALSE, TRUE), NoDocument})}

AllKinds == {"master", "print", "fungible", "core", "token2022"} \cup Programmable \cup Compressed
SomeAddresses == <<11, 12, 13>>

-----------------------------------------------------------------------------
(* Batches over the cap and over a request's length, with and without      *)
(* events of transactions, and what is refused.                            *)

Event(e, props, ts) == [event |-> e, flat |-> TRUE, props |-> props, ts |-> ts]
Plain  == Event("plain", {<<"chain", "listed">>}, 1)
Later  == Event("plain", {}, -1)
Signed == Event("transaction", {<<"other", "null">>}, 3)
Odd    == {Plain, Event("unknown", {}, -1), [Plain EXCEPT !.flat = FALSE]}
          \cup {Event("plain", {p}, 2) : p \in {<<"success", "listed">>, <<"chain", "address">>, <<"other", "boolean">>}}
Sent(events) == [method |-> "POST", origin |-> "extension", body |-> "events", installId |-> "safe", events |-> events]
SomeBatches ==
  {Sent(<<Plain, Signed, Later, Plain, Signed>>), Sent(<<Signed, Later, Signed, Plain>>), Sent(<<Signed, Signed, Signed>>)}
  \cup {Sent(<<e, Signed>>) : e \in Odd} \cup {Sent(<<e>>) : e \in Odd}
  \cup {[Sent(<<Plain>>) EXCEPT !.method = m] : m \in {"OPTIONS", "GET"}}
  \cup {[Sent(<<Plain>>) EXCEPT !.origin = "page"], [Sent(<<Plain>>) EXCEPT !.origin = "none", !.installId = "none"],
        [Sent(<<Plain>>) EXCEPT !.body = "no json"]}

-----------------------------------------------------------------------------
(* An address that is paid, spends with and without change, and mines; the *)
(* first host answers with more than a chain page, the second with one.    *)

Out(by, n) == [by |-> by, amount |-> n]
In(output, n) == [by |-> IF output = <<>> THEN "other" ELSE "own", output |-> output, amount |-> n]
Got(n) == [takes |-> <<In(<<>>, 9)>>, pays |-> <<Out("other", 8 - n), Out("own", n)>>]
SomeChain ==
  <<Got(5), Got(3),
    [takes |-> <<In(<<1, 2>>, 5)>>, pays |-> <<Out("other", 2), Out("own", 2), Out("other", 0)>>],
    Got(1), [takes |-> <<In(<<2, 2>>, 3), In(<<>>, 1), In(<<3, 2>>, 2)>>, pays |-> <<Out("other", 4)>>],
    [takes |-> <<>>, pays |-> <<Out("own", 6)>>], Got(2)>>
SomeFirstAnswers == <<4, 2>>

-----------------------------------------------------------------------------
(* A mint that scales what is shown of it, in two accounts; one of the     *)
(* same program that does not; one nobody verified; one that is all gone;  *)
(* and one without decimals that neither index nor catalog knows.          *)

CONSTANTS stockMint, steadyMint, communityMint, goneMint, oddMint

Mint(program, listing, decimals, indexed, accounts, scales, worth) ==
  [program |-> program, listing |-> listing, decimals |-> decimals, indexed |-> indexed, accounts |-> accounts,
   scaled |-> scales, worth |-> worth]
SomeMints ==
  stockMint :> Mint("token-2022", "verified", 6, TRUE, <<1, 2>>, TRUE, 2)
  @@ steadyMint :> Mint("token-2022", "verified", 6, TRUE, <<1>>, FALSE, 1)
  @@ communityMint :> Mint("spl-token", "community", 6, TRUE, <<1>>, FALSE, 1)
  @@ goneMint :> Mint("token-2022", "verified", 6, TRUE, <<0>>, FALSE, 1)
  @@ oddMint :> Mint("spl-token", "none", 0, FALSE, <<1>>, FALSE, 1)
=============================================================================
