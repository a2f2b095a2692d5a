----------------------------- MODULE Predefinidos ---------------------------
(***************************************************************************)
(* The predefined batches of tests and the one offered by default for a    *)
(* type of management (misc/api/serializers/lotesPruebasPredefinidos and   *)
(* the view beside it).  Saving one is no transaction: the row, its        *)
(* details one by one, and last the default mark of the others; requests   *)
(* overlap between any two statements, and two details of a test in one    *)
(* place end the request where it is.                                      *)
(***************************************************************************)
EXTENDS Naturals, Sequences, FiniteSets

CONSTANTS Lotes,        \* ids of LotePruebasPredefinido
          Gestiones,    \* types of management
          Redactores,   \* requests that save a batch at the same time
          Detalles,     \* a test and its place in the batch
          SINDATO,      \* no row, no type of management, no list of details
          ListasEnviadas, \* the lists of details a form may send, SINDATO for none
          MaxGuardados  \* bound: saves in a behaviour

VARIABLES predefinidos, \* the rows, by id
          redaccion,    \* the save each request is in the middle of
          cortados,     \* history: batches some save of which did not reach its end
          guardados     \* bound

varsPredefinidos == <<predefinidos, redaccion, cortados, guardados>>

LotePruebasPredefinido ==
    [gestion : Gestiones \cup {SINDATO}, defecto : BOOLEAN, activo : BOOLEAN,
     detalles : SUBSET Detalles]

(* A save under way: the row it wrote, and what it has still to do.        *)
Redaccion ==
    [lote : Lotes, gestion : Gestiones \cup {SINDATO}, defecto : BOOLEAN,
     paso : {"quitar", "poner"}, faltan : Seq(Detalles)]

ASSUME ListasTipadas ==
    ListasEnviadas \subseteq Seq(Detalles) \cup {SINDATO} /\ MaxGuardados \in Nat
ASSUME SindatoAparte ==
    /\ SINDATO \notin Gestiones
    /\ SINDATO \notin LotePruebasPredefinido
    /\ SINDATO \notin Redaccion

Guardados == {l \in Lotes : predefinidos[l] # SINDATO}
Redacta(e) == redaccion[e] # SINDATO

-----------------------------------------------------------------------------
(* A save *)

(* The row first: a new one, or one with what the form sends over what the *)
(* request had read, whatever that was.                                    *)
GuardarPredefinido(e, l, gestion, defecto, activo, detalles) ==
    /\ ~Redacta(e) /\ guardados < MaxGuardados
    /\ predefinidos' =
           [predefinidos EXCEPT ![l] =
               [gestion |-> gestion, defecto |-> defecto, activo |-> activo,
                detalles |-> IF l \in Guardados THEN predefinidos[l].detalles ELSE {}]]
    /\ redaccion' =
           [redaccion EXCEPT ![e] =
               [lote |-> l, gestion |-> gestion, defecto |-> defecto,
                paso |-> IF detalles = SINDATO THEN "poner" ELSE "quitar",
                faltan |-> IF detalles = SINDATO THEN <<>> ELSE detalles]]
    /\ guardados' = guardados + 1
    /\ UNCHANGED cortados

QuitarDetalles(e) ==
    /\ Redacta(e) /\ redaccion[e].paso = "quitar"
    /\ predefinidos' = [predefinidos EXCEPT ![redaccion[e].lote].detalles = {}]
    /\ redaccion' = [redaccion EXCEPT ![e].paso = "poner"]
    /\ UNCHANGED <<cortados, guardados>>

Poniendo(e) == Redacta(e) /\ redaccion[e].paso = "poner"

(* The unique index on batch, test and place. *)
Repetido(e) == Head(redaccion[e].faltan) \in predefinidos[redaccion[e].lote].detalles

PonerDetalle(e) ==
    /\ Poniendo(e) /\ redaccion[e].faltan # <<>> /\ ~Repetido(e)
    /\ predefinidos' = [predefinidos EXCEPT
           ![redaccion[e].lote].detalles = @ \cup {Head(redaccion[e].faltan)}]
    /\ redaccion' = [redaccion EXCEPT ![e].faltan = Tail(@)]
    /\ UNCHANGED <<cortados, guardados>>

(* What is written stays. *)
Cortar(e) ==
    /\ redaccion' = [redaccion EXCEPT ![e] = SINDATO]
    /\ cortados' = cortados \cup {redaccion[e].lote}
    /\ UNCHANGED <<predefinidos, guardados>>

FallarDetalle(e) == Poniendo(e) /\ redaccion[e].faltan # <<>> /\ Repetido(e) /\ Cortar(e)

CaerRedaccion(e) == Redacta(e) /\ Cortar(e)

(* Slip: only the batches the lists show are looked at. *)
PierdeSiSeVe(r, l) ==
    /\ r.defecto /\ r.gestion # SINDATO /\ l # r.lote
    /\ predefinidos[l].activo /\ predefinidos[l].gestion = r.gestion

(* _apply_default_logic: deleted batches lose the mark too. *)
PierdeLaMarca(r, l) ==
    /\ r.defecto /\ r.gestion # SINDATO /\ l # r.lote
    /\ predefinidos[l].gestion = r.gestion

DejarUno(e) ==
    /\ Poniendo(e) /\ redaccion[e].faltan = <<>>
    /\ predefinidos' =
           [l \in Lotes |-> IF l \in Guardados /\ PierdeLaMarca(redaccion[e], l)
                            THEN [predefinidos[l] EXCEPT !.defecto = FALSE] ELSE predefinidos[l]]
    /\ redaccion' = [redaccion EXCEPT ![e] = SINDATO]
    /\ UNCHANGED <<cortados, guardados>>

-----------------------------------------------------------------------------
(* Deleting and restoring touch neither the mark nor the type.             *)
MarcarActivo(l, activo) ==
    /\ l \in Guardados
    /\ predefinidos' = [predefinidos EXCEPT ![l].activo = activo]
    /\ UNCHANGED <<redaccion, cortados, guardados>>

EliminarPredefinido(l)  == MarcarActivo(l, FALSE)
RestaurarPredefinido(l) == MarcarActivo(l, TRUE)

-----------------------------------------------------------------------------
InitPredefinidos ==
    /\ predefinidos = [l \in Lotes |-> SINDATO]
    /\ redaccion = [e \in Redactores |-> SINDATO]
    /\ cortados = {} /\ guardados = 0

NextPredefinidos ==
    \/ \E e \in Redactores :
          \/ \E l \in Lotes, gestion \in Gestiones \cup {SINDATO}, defecto, activo \in BOOLEAN,
                detalles \in ListasEnviadas :
                 GuardarPredefinido(e, l, gestion, defecto, activo, detalles)
          \/ QuitarDetalles(e) \/ PonerDetalle(e) \/ FallarDetalle(e) \/ CaerRedaccion(e)
          \/ DejarUno(e)
    \/ \E l \in Lotes : EliminarPredefinido(l) \/ RestaurarPredefinido(l)

SpecPredefinidos == InitPredefinidos /\ [][NextPredefinidos]_varsPredefinidos

-----------------------------------------------------------------------------
TiposPredefinidos ==
    /\ predefinidos \in [Lotes -> LotePruebasPredefinido \cup {SINDATO}]
    /\ redaccion \in [Redactores -> Redaccion \cup {SINDATO}]
    /\ cortados \subseteq Lotes /\ guardados \in 0..MaxGuardados

Marcados(g) == {l \in Guardados : predefinidos[l].defecto /\ predefinidos[l].gestion = g}

(* The save that still has to take the mark of the others.                 *)
VaADejarUno(e, l, g) ==
    Redacta(e) /\ redaccion[e].lote = l /\ redaccion[e].defecto /\ redaccion[e].gestion = g

(* However many saves overlap, and after any number of deletions and       *)
(* restorations, a type of management has one batch by default at most;    *)
(* two only while a save of one of them is under way, or after one that    *)
(* did not reach its end (serializers index.py:205-236).                   *)
PredeterminadoUnico ==
    \A g \in Gestiones : \A l, m \in Marcados(g) :
        l = m \/ {l, m} \cap cortados # {}
              \/ \E e \in Redactores : VaADejarUno(e, l, g) \/ VaADejarUno(e, m, g)
=============================================================================
