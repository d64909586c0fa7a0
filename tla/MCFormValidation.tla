--------------------------- MODULE MCFormValidation ---------------------------
(* Instances of FormValidation for TLC: the two forms of the portal that   *)
(* load the scripts, reduced to two fields, and two that use the rest.     *)
EXTENDS FormValidation, TLC

CONSTANTS f1, f2

Value(len, blank, address, matches) ==
  [len |-> len, blank |-> blank, address |-> address, matches |-> matches]
MCEmpty == Value(0, TRUE, FALSE, FALSE)
MCContents == {MCEmpty, Value(1, TRUE, FALSE, FALSE), Value(2, FALSE, TRUE, TRUE),
               Value(3, FALSE, TRUE, FALSE), Value(4, FALSE, FALSE, FALSE)}

Required == [adapter |-> "required", min |-> None, max |-> None]
MaxLength(n) == [adapter |-> "maxlength", min |-> None, max |-> n]
Length(m, n) == [adapter |-> "length", min |-> m, max |-> n]
Email == [adapter |-> "email", min |-> None, max |-> None]

(* Customers/Create: CustomerName has a box, DestinationDomain has none.   *)
Customer == [annotations |-> (f1 :> {Required, MaxLength(3)} @@ f2 :> {MaxLength(3)}),
             box |-> (f1 :> "replace" @@ f2 :> "none"), summary |-> FALSE]

(* Batches/Create: BatchName and CustomerId, no box at all.                *)
Batch == [annotations |-> (f1 :> {Required, MaxLength(3)} @@ f2 :> {Required}),
          box |-> (f1 :> "none" @@ f2 :> "none"), summary |-> FALSE]

(* What the portal's pages do not use: minimal lengths and formats, two    *)
(* attributes with one rule, a box with a text of its own, a summary.      *)
Lengths == [annotations |-> (f1 :> {Length(2, 3), Email} @@ f2 :> {Length(2, None), MaxLength(3)}),
            box |-> (f1 :> "replace" @@ f2 :> "replace"), summary |-> FALSE]
Summed == [annotations |-> (f1 :> {Email} @@ f2 :> {Length(None, 2), MaxLength(3)}),
           box |-> (f1 :> "keep" @@ f2 :> "none"), summary |-> TRUE]

MCForms == {Customer, Batch, Lengths, Summed}
=============================================================================
