-------------------------------- MODULE Store --------------------------------
(***************************************************************************)
(* The store (features/store, features/entitlements, the vendors of        *)
(* features/middleman): a client asks for a purchase token, which it may   *)
(* redeem once, within its term; redeeming charges the wallet and grants   *)
(* stacks, instanced cosmetics, currencies and entitlements in one         *)
(* database transaction.  Inventory transactions of the game servers and   *)
(* the clock interleave with both.                                         *)
(***************************************************************************)
EXTENDS Inventory, Sequences

CONSTANTS
    Offers,         \* by SKU: [kind, currency, price, items, cosmetics, grants, window, family, open]
    Families,       \* the middleman's cell families, in the order of their scores
    DAY, WEEK,      \* ticks in a day and in a week
    TOKEN_TERM,     \* ticks a purchase token may be redeemed for (10 minutes)
    MAX_TOKENS      \* bound on purchase tokens

\* An entitlement is sold for a term or for good, never both; what is limited is a bundle.
ASSUME StoreAssumption ==
    /\ DAY \in Nat \ {0} /\ WEEK \in Nat \ {0} /\ TOKEN_TERM \in Nat /\ MAX_TOKENS \in Nat
    /\ \A k \in DOMAIN Offers :
        /\ Offers[k].price \in Nat /\ Quantities(Offers[k].items)
        /\ Offers[k].currency \in Currencies
    /\ \A k, l \in DOMAIN Offers : \A name \in DOMAIN Offers[k].grants \cap DOMAIN Offers[l].grants :
        Offers[k].grants[name] = 0 <=> Offers[l].grants[name] = 0
    /\ \A k \in DOMAIN Offers : \A name \in DOMAIN Offers[k].grants : Offers[k].grants[name] \in Nat
    /\ \A k \in DOMAIN Offers : Offers[k].window \in Nat /\ (Offers[k].window > 0 => Offers[k].kind = "bundle")

VARIABLES purchases, entitlements

storeVars == <<purchases, entitlements>>
economyVars == <<now, inventoryVars, storeVars>>

StoreInit ==
    /\ InventoryInit
    /\ purchases = << >>
    /\ entitlements = [u \in Users |-> Empty]

---------------------------------------------------------------------------
(* Offers: kind is "bundle", "repeatable" or "unlock"; window 0 sells without limit. *)

WindowStart(length, t) == (t \div length) * length

\* Three other families each week, the third at rank 2.
SelectWeeklyMiddlemanOffers(t) ==
    LET n == Len(Families)
        offset == ((t \div WEEK) * 3) % n
    IN  {[family |-> Families[((offset + k) % n) + 1], rank |-> IF k = 2 THEN 2 ELSE 1] :
            k \in {j \in 0 .. 2 : j < n}}

IsRotating(o) == o.family # {}
IsOfferOpen(o) == now \in o.open /\ (IsRotating(o) => o.family \subseteq SelectWeeklyMiddlemanOffers(now))

\* An offer is what a token was issued for; a rotating one names its week.
OfferHash(sku) == IF IsRotating(Offers[sku]) THEN <<sku, WindowStart(WEEK, now)>> ELSE <<sku>>

IsEntitlementActive(row) == row.duration = 0 \/ row.activatedAt + row.duration > now
Entitled(u) == {name \in DOMAIN entitlements[u] : IsEntitlementActive(entitlements[u][name])}

HeldCatalogIds(ch) ==
    {c \in Stackables : stacks[ch][c] > 0} \cup {items[ch][id].catalog : id \in DOMAIN items[ch]}

\* A purchase must not charge for what is held already.
GrantsNothing(u, ch, o) ==
    /\ o.kind = "unlock"
    /\ DOMAIN o.items \cup o.cosmetics \subseteq HeldCatalogIds(ch)
    /\ \A name \in DOMAIN o.grants : name \in Entitled(u) /\ entitlements[u][name].duration = 0

BoughtThisWindow(u, sku, except) ==
    /\ Offers[sku].window > 0
    /\ \E p \in DOMAIN purchases \ {except} :
        /\ purchases[p].user = u /\ purchases[p].sku = sku
        /\ purchases[p].redeemedAt >= WindowStart(Offers[sku].window, now)
        /\ purchases[p].redeemedAt > 0

---------------------------------------------------------------------------
\* A store request names no character: an account must have exactly one.
CharacterOf(u, ch) == {c \in Characters : OwnerOf[c] = u} = {ch}

CreateFreePurchase(u, ch, sku) ==
    LET o == Offers[sku] IN
    /\ Len(purchases) < MAX_TOKENS
    /\ CharacterOf(u, ch)
    /\ IsOfferOpen(o)
    /\ ~BoughtThisWindow(u, sku, 0)
    /\ o.price > 0 => ~GrantsNothing(u, ch, o) /\ wallet[u][o.currency] >= o.price
    /\ purchases' = Append(purchases, [user |-> u, ch |-> ch, sku |-> sku, hash |-> OfferHash(sku),
                                       expiresAt |-> now + TOKEN_TERM, redeemedAt |-> 0])
    /\ UNCHANGED <<now, inventoryVars, entitlements>>

Price(o) == [c \in {o.currency} |-> o.price]
StackLines(o) == Restrict(o.items, {c \in DOMAIN o.items : ~IsCurrency(c)})
MoneyLines(o) == Restrict(o.items, {c \in DOMAIN o.items : IsCurrency(c)})

\* Slip that breaks Settles: unlocks already held are granted once more.
ToGrantAll(ch, o, lines) == lines

\* Unlocks already held are not granted again; consumables and bundles always are.
ToGrant(ch, o, lines) ==
    IF o.kind = "unlock" THEN Restrict(lines, DOMAIN lines \ HeldCatalogIds(ch)) ELSE lines

Cosmetics(t, ch, o) ==
    {[id |-> <<t, c>>, catalog |-> c, kind |-> "stateless", version |-> 0] : c \in o.cosmetics \ HeldCatalogIds(ch)}

\* Slip that breaks NothingShortened: a membership bought again starts over.
ExtendedAnew(u, name, duration) == [duration |-> duration, activatedAt |-> now]

\* A permanent entitlement stays; a running term grows, an ended one starts anew.
Extended(u, name, duration) ==
    IF name \notin DOMAIN entitlements[u] THEN [duration |-> duration, activatedAt |-> now]
    ELSE LET row == entitlements[u][name] IN
        IF row.duration = 0 THEN row
        ELSE IF duration = 0 \/ ~IsEntitlementActive(row) THEN [duration |-> duration, activatedAt |-> now]
        ELSE [row EXCEPT !.duration = @ + duration]

EntitlementsAfter(u, o) ==
    [entitlements EXCEPT ![u] = [name \in DOMAIN @ \cup DOMAIN o.grants |->
        IF name \in DOMAIN o.grants THEN Extended(u, name, o.grants[name]) ELSE @[name]]]

\* Slip that breaks OncePerWindow and ChargedForSomething: only the request for the token checks.
StillDueAsIssued(t) == purchases[t].redeemedAt = 0 /\ purchases[t].expiresAt >= now

\* Checked again when the token is redeemed: time, the game and other tokens have moved on.
StillDue(t) ==
    LET p == purchases[t]
        o == Offers[p.sku]
    IN  /\ p.redeemedAt = 0
        /\ p.expiresAt >= now
        /\ IsOfferOpen(o) /\ OfferHash(p.sku) = p.hash
        /\ o.price > 0 => ~GrantsNothing(p.user, p.ch, o)
        /\ o.kind = "bundle" => ~BoughtThisWindow(p.user, p.sku, t)

RedeemFreePurchase(t) ==
    LET p == purchases[t]
        o == Offers[p.sku]
        given == ToGrant(p.ch, o, StackLines(o))
        new == Cosmetics(t, p.ch, o)
    IN  /\ StillDue(t)
        /\ Affordable(p.user, Price(o))
        /\ wallet' = WalletAfter(p.user, Price(o), MoneyLines(o))
        /\ stacks' = StacksAfter(p.ch, Empty, given)
        /\ Puttable(items[p.ch], new, FALSE)
        /\ items' = [items EXCEPT ![p.ch] = With(@, new)]
        /\ ledger' = IF DOMAIN given = {} /\ new = {} THEN ledger
                     ELSE Recorded(<<"store", t>>, [ch |-> p.ch, put |-> new, drop |-> {}])
        /\ entitlements' = EntitlementsAfter(p.user, o)
        /\ purchases' = [purchases EXCEPT ![t].redeemedAt = now]
        /\ UNCHANGED <<now, revived>>

StoreNext ==
    \/ InventoryNext /\ UNCHANGED storeVars
    \/ Tick /\ UNCHANGED storeVars
    \/ \E u \in Users, ch \in Characters, sku \in DOMAIN Offers : CreateFreePurchase(u, ch, sku)
    \/ \E t \in DOMAIN purchases : RedeemFreePurchase(t)

---------------------------------------------------------------------------
(* Properties *)

\* A limited offer pays once per window and account, however many tokens were taken for it in
\* one window or carried over into the next (BoughtThisWindow, checked at both ends).
OncePerWindow ==
    \A p, q \in DOMAIN purchases :
        LET length == Offers[purchases[p].sku].window IN
        (/\ p # q /\ length > 0
         /\ purchases[p].user = purchases[q].user /\ purchases[p].sku = purchases[q].sku
         /\ purchases[p].redeemedAt > 0 /\ purchases[q].redeemedAt > 0)
        => purchases[p].redeemedAt \div length # purchases[q].redeemedAt \div length

Forever == MAX_TIME * 100
LastsTo(u, name) ==
    IF name \notin DOMAIN entitlements[u] THEN 0
    ELSE LET row == entitlements[u][name] IN
         IF row.duration = 0 THEN Forever ELSE row.activatedAt + row.duration
Redeems(t) == purchases'[t].redeemedAt # purchases[t].redeemedAt

\* Nobody pays for nothing: when a redeemed token lowers a balance, the account then holds
\* more of something, or an entitlement that lasts longer (GrantsNothing, inside the charge).
ChargedForSomething ==
    [][\A t \in DOMAIN purchases : Redeems(t) =>
        LET p == purchases[t] IN
        (\E c \in Currencies : wallet'[p.user][c] < wallet[p.user][c]) =>
            \/ \E c \in Stackables : stacks'[p.ch][c] > stacks[p.ch][c]
            \/ \E c \in Currencies : wallet'[p.user][c] > wallet[p.user][c]
            \/ DOMAIN items'[p.ch] # DOMAIN items[p.ch]
            \/ \E name \in DOMAIN entitlements'[p.user] : LastsTo(p.user, name)' > LastsTo(p.user, name)]_economyVars

\* No time that was bought is lost: a term bought while one runs is added to it whole, one
\* bought after it ended runs from then, and a permanent entitlement stays permanent.
NothingShortened ==
    [][\A t \in DOMAIN purchases : Redeems(t) =>
        LET u == purchases[t].user
            grants == Offers[purchases[t].sku].grants
        IN  \A name \in DOMAIN grants :
                \/ LastsTo(u, name)' = Forever
                \/ LastsTo(u, name)' >= grants[name] + (IF LastsTo(u, name) > now THEN LastsTo(u, name) ELSE now)]_economyVars

---------------------------------------------------------------------------
(* The orders of Settlement: each transaction id and each purchase token. *)

Value == (Users \X Currencies) \cup (Characters \X Stackables)
Worth(lines, c) == Total([id \in {i \in DOMAIN lines : Canonical[i] = c} |-> lines[id] * Units[id]])
Debts(u, ch, lines) ==
    [s \in Value |-> IF s[1] = u THEN Debit(lines, s[2]) ELSE IF s[1] = ch THEN Lines(lines, s[2]) ELSE 0]
Gains(u, ch, lines) ==
    [s \in Value |-> IF s[1] = u THEN Worth(lines, s[2]) ELSE IF s[1] = ch THEN Lines(lines, s[2]) ELSE 0]

TransactionOrder(t) ==
    [ids |-> {t.tx}, once |-> {}, take |-> Debts(t.user, t.ch, t.remove), give |-> Gains(t.user, t.ch, t.add)]
PurchaseOrder(t, u, ch, o) ==
    [ids |-> {<<"store", t>>}, once |-> IF o.kind = "unlock" THEN {ch} \X DOMAIN o.items ELSE {},
     take |-> Debts(u, ch, Price(o)), give |-> Gains(u, ch, o.items)]
StoreOrders ==
    {TransactionOrder(t) : t \in Transactions} \cup
    {PurchaseOrder(t, OwnerOf[ch], ch, Offers[sku]) : t \in 1 .. MAX_TOKENS, ch \in Characters, sku \in DOMAIN Offers}
Redeemed == {<<"store", t>> : t \in {p \in DOMAIN purchases : purchases[p].redeemedAt > 0}}
Applied == DOMAIN ledger \ {<<"store", t>> : t \in 1 .. MAX_TOKENS}
=============================================================================
