------------------------------ MODULE Contrato ------------------------------
(***************************************************************************)
(* The fields of a version of limits and the structure of the test they    *)
(* belong to.  Saving a test deletes its nodes and creates them again, one *)
(* row at a time (misc/api/serializers/pruebas/index.py); the fields of    *)
(* every version are then linked to the new nodes by their code            *)
(* (misc/api/services/limit_contract.py).  What a value is judged with is  *)
(* looked up by node (muestras/api/services/limit_engine.py:240-266).      *)
(*                                                                         *)
(* A node is the edit of the test that created it; 0 is no node.           *)
(***************************************************************************)
EXTENDS Naturals

CONSTANTS Codigos,     \* codes of the leaves: the slug of their names
          TODA,        \* the code of a test without results, its own name
          Matrices,    \* versions of the limits of the test
          MaxEdiciones \* bound: edits of the test

ASSUME TodaAparte == TODA \notin Codigos
ASSUME EdicionesAcotadas == MaxEdiciones \in Nat

VARIABLES nodos,      \* code -> node of its leaf
          enlace,     \* history: how the last edit of the test stands
          hechas,     \* edits of the test so far
          creadas,    \* the versions there are
          informa,    \* version -> codes it does not evaluate
          campos      \* version, code, form -> the field

varsContrato == <<nodos, enlace, hechas, creadas, informa, campos>>

(* A field named as its leaf, or the pair _min and _max of a range. *)
Formas == {"unico", "par"}
CampoDeLimite == [estado : {"no", "inactivo", "vivo"}, nodo : 0..MaxEdiciones]
SinCampo == [estado |-> "no", nodo |-> 0]
CodigosDeCampo == Codigos \cup {TODA}

(* test_limit_leaves: a test without results is one leaf without node. *)
Hojas == IF \A c \in Codigos : nodos[c] = 0 THEN {TODA} ELSE {c \in Codigos : nodos[c] # 0}
NodoDe(c) == IF c = TODA THEN 0 ELSE nodos[c]

Enlazado(c) == [estado |-> "vivo", nodo |-> NodoDe(c)]
Inactivo(campo) == IF campo.estado = "no" THEN campo ELSE [campo EXCEPT !.estado = "inactivo"]

-----------------------------------------------------------------------------
(* configure: the fields of a new version. *)
Configurar(v, informativos) ==
    /\ v \notin creadas
    /\ creadas' = creadas \cup {v}
    /\ informa' = [informa EXCEPT ![v] = informativos \cap Hojas]
    /\ campos' = [campos EXCEPT ![v] =
                     [c \in CodigosDeCampo |->
                         [f \in Formas |-> IF f = "unico" /\ c \in Hojas \ informativos
                                           THEN Enlazado(c) ELSE SinCampo]]]
    /\ UNCHANGED <<nodos, enlace, hechas>>

(* generate_fields: every leaf gets the fields of one form. *)
Generar(v, forma) ==
    /\ v \in creadas
    /\ campos' = [campos EXCEPT ![v] =
                     [c \in CodigosDeCampo |->
                         [f \in Formas |-> IF f = forma /\ c \in Hojas THEN Enlazado(c)
                                           ELSE Inactivo(campos[v][c][f])]]]
    /\ UNCHANGED <<nodos, enlace, hechas, creadas, informa>>

(* DELETE and restore of one field.  Restoring a field that lost its node  *)
(* brings back a rule without one.                                         *)
BorrarCampo(v, c, f) ==
    /\ v \in creadas /\ campos[v][c][f].estado = "vivo"
    /\ campos' = [campos EXCEPT ![v][c][f].estado = "inactivo"]
    /\ UNCHANGED <<nodos, enlace, hechas, creadas, informa>>

RestaurarCampo(v, c, f) ==
    /\ v \in creadas /\ campos[v][c][f].estado # "no"
    /\ campos' = [campos EXCEPT ![v][c][f].estado = "vivo"]
    /\ enlace' = IF c \in Hojas /\ campos[v][c][f].nodo = NodoDe(c) THEN enlace ELSE "roto"
    /\ UNCHANGED <<nodos, hechas, creadas, informa>>

-----------------------------------------------------------------------------
(* Saving the test: the nodes go, and the fields lose theirs; then the new *)
(* nodes come, and the fields are linked.  Every row is committed as it is *)
(* written: a failure leaves what there was.                               *)
SinNodo == [v \in Matrices |-> [c \in CodigosDeCampo |-> [f \in Formas |-> [campos[v][c][f] EXCEPT !.nodo = 0]]]]

Recrear(hojas) ==
    /\ hechas < MaxEdiciones
    /\ hechas' = hechas + 1
    /\ nodos' = [c \in Codigos |-> IF c \in hojas THEN hechas + 1 ELSE 0]
    /\ campos' = SinNodo
    /\ enlace' = "editando"
    /\ UNCHANGED <<creadas, informa>>

Fallar ==
    /\ enlace = "editando"
    /\ enlace' = "roto"
    /\ UNCHANGED <<nodos, hechas, creadas, informa, campos>>

ReconciliadoSinRetirar(v) ==
    [c \in CodigosDeCampo |->
        [f \in Formas |-> IF f = "unico" /\ c \in Hojas \ informa[v] THEN Enlazado(c) ELSE campos[v][c][f]]]

Reconciliado(v) ==
    [c \in CodigosDeCampo |->
        [f \in Formas |-> IF f = "unico" /\ c \in Hojas \ informa[v] THEN Enlazado(c)
                          ELSE Inactivo(campos[v][c][f])]]

(* reconcile_limit_contract, by the edit or by the command of that name:   *)
(* every version, the historical ones too.                                 *)
Reenlazar ==
    /\ campos' = [v \in Matrices |-> IF v \in creadas THEN Reconciliado(v) ELSE campos[v]]
    /\ informa' = [v \in Matrices |-> informa[v] \cap Hojas]
    /\ enlace' = "fiel"
    /\ UNCHANGED <<nodos, hechas, creadas>>

-----------------------------------------------------------------------------
(* _best_limit_field: the fields of the node of the leaf, else those that  *)
(* have no node; the code takes the first of them.                         *)
DelNodo(v, c) ==
    {e \in CodigosDeCampo \X Formas :
        e[1] = c /\ NodoDe(c) # 0 /\ campos[v][c][e[2]] = [estado |-> "vivo", nodo |-> NodoDe(c)]}
SinDueno(v) == {e \in CodigosDeCampo \X Formas : campos[v][e[1]][e[2]] = [estado |-> "vivo", nodo |-> 0]}

Elegibles(v, c) == IF DelNodo(v, c) # {} THEN DelNodo(v, c) ELSE SinDueno(v)

-----------------------------------------------------------------------------
InitContrato ==
    /\ nodos = [c \in Codigos |-> 0]
    /\ enlace = "fiel" /\ hechas = 0
    /\ creadas = {} /\ informa = [v \in Matrices |-> {}]
    /\ campos = [v \in Matrices |-> [c \in CodigosDeCampo |-> [f \in Formas |-> SinCampo]]]

NextContrato ==
    \/ \E v \in Matrices, informativos \in SUBSET Codigos : Configurar(v, informativos)
    \/ \E v \in Matrices, f \in Formas : Generar(v, f)
    \/ \E v \in Matrices, c \in CodigosDeCampo, f \in Formas : BorrarCampo(v, c, f) \/ RestaurarCampo(v, c, f)
    \/ \E hojas \in SUBSET Codigos : Recrear(hojas)
    \/ Fallar \/ Reenlazar

SpecContrato == InitContrato /\ [][NextContrato]_varsContrato

-----------------------------------------------------------------------------
TiposContrato ==
    /\ nodos \in [Codigos -> 0..MaxEdiciones]
    /\ enlace \in {"fiel", "editando", "roto"} /\ hechas \in 0..MaxEdiciones
    /\ creadas \subseteq Matrices /\ informa \in [Matrices -> SUBSET CodigosDeCampo]
    /\ campos \in [Matrices -> [CodigosDeCampo -> [Formas -> CampoDeLimite]]]

(* Once an edit of the test is through, and until one fails or a field     *)
(* that lost its node is restored, no leaf is judged with the rule of      *)
(* another one, in any version, however the fields were made               *)
(* (limit_contract.py:57-63).                                              *)
ReglaDeSuHoja ==
    enlace = "fiel" =>
        \A v \in creadas, c \in Hojas : \A e \in Elegibles(v, c) : e[1] = c

=============================================================================
