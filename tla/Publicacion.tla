---------------------------- MODULE Publicacion ----------------------------
(***************************************************************************)
(* What the client is promised about the reports that can be consulted: a  *)
(* report becomes visible only while its sample is in force, and a sample  *)
(* leaves in the same step in which all its visible reports do.  How a     *)
(* batch is received, analysed, reviewed and approved does not show here.  *)
(***************************************************************************)
EXTENDS Naturals

CONSTANTS Muestras, MaxInformes

VARIABLES vigentes, visibles

vars == <<vigentes, visibles>>

Informes == Muestras \X (1..MaxInformes)

Init == vigentes = {} /\ visibles = {}

(* Samples come into force; nothing of theirs is visible yet. *)
Incorporar(S) ==
    /\ vigentes' = vigentes \cup S
    /\ UNCHANGED visibles

(* A sample is withdrawn together with what the client sees of it. *)
RetirarMuestra(m) ==
    /\ vigentes' = vigentes \ {m}
    /\ visibles' = {x \in visibles : x[1] # m}

(* Reports are published, those of one e-mail together. *)
PublicarInformes(X) ==
    /\ \A x \in X : x[1] \in vigentes
    /\ visibles' = visibles \cup X
    /\ UNCHANGED vigentes

OcultarInforme(x) ==
    /\ visibles' = visibles \ {x}
    /\ UNCHANGED vigentes

(* An invalidated result takes down every report of its sample. *)
RetirarInformes(m) ==
    /\ visibles' = {x \in visibles : x[1] # m}
    /\ UNCHANGED vigentes

Next ==
    \/ \E S \in SUBSET Muestras : Incorporar(S)
    \/ \E m \in Muestras : RetirarMuestra(m)
    \/ \E X \in SUBSET Informes : PublicarInformes(X)
    \/ \E x \in Informes : OcultarInforme(x)
    \/ \E m \in Muestras : RetirarInformes(m)

Spec == Init /\ [][Next]_vars
=============================================================================
