------------------------------ MODULE Inventory ------------------------------
(***************************************************************************)
(* What an order takes from the stock and gives back.  An item names lines *)
(* of four kinds, each a quantity of one stock-keeping unit: yards of      *)
(* chosen fabric, pieces of an accessory variant, pieces of a size of a    *)
(* colour variant, yards of the customer's applied fabric.  Where a unit's *)
(* counter is stored (a document of its own, or inside the product) is     *)
(* left out.  Both operations run in one database transaction.             *)
(***************************************************************************)
EXTENDS Integers, Sequences, FiniteSets, SequencesExt

Line(Sku) == [sku: Sku, n: Nat]

\* A deduction in progress: the stock as the transaction sees it, and whether
\* every line so far could be taken.
Taking(stock) == [ok |-> TRUE, stock |-> stock]

Take(t, line) == [t EXCEPT !.stock[line.sku] = @ - line.n]

\* Fabric, accessories and applied fabric: the counter is read again for every
\* line, so each sees what the lines before it took.
TakeIfThere(t, line) ==
    IF t.ok /\ t.stock[line.sku] >= line.n THEN Take(t, line)
    ELSE [t EXCEPT !.ok = FALSE]

TakeEach(t, lines) == FoldLeft(TakeIfThere, t, lines)

\* Colour variants: the product is read once for the item, and every line is
\* compared with that copy.
TakeColors(t, lines) ==
    IF t.ok /\ \A i \in DOMAIN lines : t.stock[lines[i].sku] >= lines[i].n
    THEN FoldLeft(Take, t, lines)
    ELSE [t EXCEPT !.ok = FALSE]

TakeItem(t, item) ==
    TakeEach(TakeColors(TakeEach(TakeEach(t, item.fabric), item.accessory),
                        item.color),
             item.applied)

Deduct(stock, items) == FoldLeft(TakeItem, Taking(stock), items)

\* The lines a restoration gives back: those a deduction takes.
LinesBack(item) == item.fabric \o item.accessory \o item.color \o item.applied

GiveBack(stock, line) == [stock EXCEPT ![line.sku] = @ + line.n]

Restore(stock, items) ==
    FoldLeft(LAMBDA s, item : FoldLeft(GiveBack, s, LinesBack(item)), stock, items)

-----------------------------------------------------------------------------
\* Reference: how much of a unit an order's items need.
Need(items, sku) ==
    FoldLeft(LAMBDA sum, item :
               FoldLeft(LAMBDA s, l : IF l.sku = sku THEN s + l.n ELSE s, sum,
                        item.fabric \o item.accessory \o item.color \o item.applied),
             0, items)
=============================================================================
