--------------------------- MODULE MCLaboratorio ---------------------------
(***************************************************************************)
(* A behaviour takes one way through the laboratory: every endpoint, every *)
(* endpoint but the delivery, or the delivery of what is reviewed.         *)
(***************************************************************************)
EXTENDS Laboratorio, TLC

CONSTANT Tramos    \* the ways a run looks at

VARIABLE tramo     \* the one this behaviour takes

Simetria == Permutations(Muestras) \cup Permutations(Pruebas)

InitTramos == Init /\ tramo \in Tramos
NextTramos ==
    /\ tramo' = tramo
    /\ \/ tramo = "todo" /\ Next
       \/ tramo = "analisis" /\ Next /\ \A x \in Informes : estatus'[x] = "no"
       \/ tramo = "entrega" /\ NextEntrega
SpecTramos == InitTramos /\ [][NextTramos]_<<vars, tramo>>
=============================================================================
