------------------------- MODULE EntregaConcurrente -------------------------
(***************************************************************************)
(* The report endpoints at the grain the database sees.  No request runs   *)
(* in a transaction except the invalidation of a sample: get_object reads  *)
(* the report with its sample and its batch, the guards look at that copy, *)
(* the save writes some columns, and _mark_lote_reported_if_ready counts   *)
(* the live rows but compares with the batch state of the copy.  Between   *)
(* two statements any statement of another request may run.                *)
(*                                                                         *)
(* The queries of one recalcular_estado are taken together, and so are the *)
(* saving of a report and the ReporteEnvio rows written next.              *)
(***************************************************************************)
EXTENDS Laboratorio

CONSTANTS
    Peticiones,   \* requests in progress at the same time
    Tipos         \* endpoints they call

TiposDeReporte == {"aprobar", "publicar", "ocultar", "correo", "correoFallido",
                   "anular", "invalidar"}
ASSUME TiposAssumption == Tipos \subseteq TiposDeReporte

VARIABLE peticion
varsConcurrentes == <<vars, peticion>>

(* A free worker keeps nothing of its last request. *)
Libre == [paso |-> "libre"]

(* A reviewed batch, the first report of each sample generated. *)
ReportesGenerados ==
    /\ estado = "revisado"
    /\ ingreso = TRUE
    /\ filas = Muestras /\ activas = Muestras /\ ingresadas = Muestras
    /\ conResultados = Muestras /\ revisadas = Muestras
    /\ marca = [m \in Muestras |-> "sin"]
    /\ invalidadoPor = [m \in Muestras |-> NINGUNA]
    /\ contenido = Muestras
    /\ asignacion = [e \in Ensayos |-> "confirmada"]
    /\ completados = Ensayos /\ ensayosRevisados = Ensayos
    /\ resultado = [e \in Ensayos |-> "aprobado"]
    /\ completos = Ensayos
    /\ estatus = [x \in Informes |-> IF x[2] = 1 THEN "generado" ELSE "no"]
    /\ visibles = {} /\ aprobados = {} /\ enviados = {} /\ correos = {}

InitConcurrente == ReportesGenerados /\ peticion = [p \in Peticiones |-> Libre]

-----------------------------------------------------------------------------
(* What each endpoint asks of the copy it has just read. *)
Admitido(tipo, x) ==
    CASE tipo \in {"publicar", "correo", "correoFallido"} -> Liberable(x)
      [] tipo \in {"aprobar", "ocultar"}                  -> estatus[x] # "no"
      [] tipo = "anular"                                  -> Anulable(x)
      [] tipo = "invalidar"                               -> x[1] \in activas

Leer(p) ==
    /\ peticion[p] = Libre
    /\ \E tipo \in Tipos, x \in Informes :
          /\ Admitido(tipo, x)
          /\ peticion' = [peticion EXCEPT ![p] =
                [paso |-> "guardar", tipo |-> tipo, x |-> x,
                 estatus |-> estatus[x], visible |-> x \in visibles, estado |-> estado,
                 total |-> 0, destino |-> estado]]
    /\ UNCHANGED vars

Avanzar(p, siguiente) ==
    peticion' = [peticion EXCEPT ![p] =
                   IF siguiente = "libre" THEN Libre ELSE [@ EXCEPT !.paso = siguiente]]

Escribir(x, nuevo) == Cambiar(x, nuevo) /\ UNCHANGED <<varsLote, varsMuestra>>

(* Only the columns of update_fields are written.  The failed delivery writes
   estatus and visible_cliente too, with the values it read. *)
GuardarReporte(q) ==
    LET x == q.x IN
    \/ /\ q.tipo = "aprobar" /\ Escribir(x, "aprobado")
       /\ aprobados' = aprobados \cup {x}
       /\ UNCHANGED <<visibles, enviados, correos>>
    \/ /\ q.tipo = "publicar" /\ visibles' = visibles \cup {x}
       /\ UNCHANGED <<varsLote, varsMuestra, estatus, aprobados, enviados, correos>>
    \/ /\ q.tipo = "ocultar" /\ visibles' = visibles \ {x}
       /\ UNCHANGED <<varsLote, varsMuestra, estatus, aprobados, enviados, correos>>
    \/ /\ q.tipo = "correo" /\ Escribir(x, "enviado")
       /\ visibles' = visibles \cup {x}
       /\ enviados' = enviados \cup {x} /\ correos' = correos \cup {x}
       /\ UNCHANGED aprobados
    \/ /\ q.tipo = "correoFallido" /\ Escribir(x, q.estatus)
       /\ visibles' = IF q.visible THEN visibles \cup {x} ELSE visibles \ {x}
       /\ enviados' = enviados \cup {x}
       /\ UNCHANGED <<aprobados, correos>>
    \/ /\ q.tipo = "anular" /\ Escribir(x, "anulado")
       /\ UNCHANGED <<visibles, aprobados, enviados, correos>>

(* The transaction of the invalidation, whose guard was read before it. *)
Invalidar(m) ==
    /\ activas' = activas \ {m}
    /\ AnularInformesDe(m)
    /\ UNCHANGED <<ingreso, filas, ingresadas, conResultados, revisadas>>
    /\ Recalcular

(* Slip: the e-mail does not look at the batch after the save. *)
CuentaSoloPublicar(tipo) == tipo \in {"publicar", "ocultar"}
Cuenta(tipo) == tipo \in {"publicar", "ocultar", "correo"}

Guardar(p) ==
    /\ peticion[p].paso = "guardar"
    /\ \/ GuardarReporte(peticion[p])
       \/ peticion[p].tipo = "invalidar" /\ Invalidar(peticion[p].x[1])
    /\ UNCHANGED <<varsInterpretacion, varsEnsayo>>
    /\ Avanzar(p, IF Cuenta(peticion[p].tipo) THEN "contar" ELSE "libre")

-----------------------------------------------------------------------------
(* _mark_lote_reported_if_ready, query by query *)

(* total = active_samples.count() *)
Contar(p) ==
    /\ peticion[p].paso = "contar"
    /\ peticion' = [peticion EXCEPT ![p].paso = "decidir",
                                    ![p].total = Cardinality(activas)]
    /\ UNCHANGED vars

(* reported, counted later, against total and the state of the copy *)
TodasEntregadas(q) ==
    q.total # 0 /\ Cardinality({m \in activas : Entregada(m)}) = q.total

Destinar(p, nuevo) ==
    peticion' = [peticion EXCEPT ![p].paso = "guardarLote", ![p].destino = nuevo]

(* Slip: a closed batch is never looked at again. *)
DecidirSinReabrir(p) ==
    /\ peticion[p].paso = "decidir"
    /\ IF TodasEntregadas(peticion[p]) /\ peticion[p].estado # "reportado"
       THEN Destinar(p, "reportado")
       ELSE Avanzar(p, "libre")
    /\ UNCHANGED vars

Decidir(p) ==
    /\ peticion[p].paso = "decidir"
    /\ IF TodasEntregadas(peticion[p]) /\ peticion[p].estado # "reportado"
       THEN Destinar(p, "reportado")
       ELSE IF ~TodasEntregadas(peticion[p]) /\ peticion[p].estado = "reportado"
       THEN Destinar(p, EstadoDeMuestras)
       ELSE Avanzar(p, "libre")
    /\ UNCHANGED vars

(* The save of the batch writes whatever the state has become meanwhile. *)
GuardarLote(p) ==
    /\ peticion[p].paso = "guardarLote"
    /\ estado' = peticion[p].destino
    /\ Avanzar(p, "libre")
    /\ UNCHANGED <<ingreso, varsMuestra, varsInterpretacion, varsEnsayo, varsInforme>>

Turno(p) == Leer(p) \/ Guardar(p) \/ Contar(p) \/ Decidir(p) \/ GuardarLote(p)

-----------------------------------------------------------------------------
(* Approved, in force, and seen by the client or left by e-mail. *)
EntregadaDeVerdad(m) ==
    \E x \in InformesDe({m}) :
        x \in aprobados /\ estatus[x] # "anulado" /\ x \in visibles \cup correos

EnReposo == \A p \in Peticiones : peticion[p] = Libre

(* The state the batch will have when the request in progress ends. *)
EstadoAlFinal ==
    LET abiertas == {p \in Peticiones : peticion[p] # Libre}
        q == IF abiertas = {} THEN Libre ELSE peticion[CHOOSE p \in abiertas : TRUE]
        listas == activas # {} /\ \A m \in activas : Entregada(m) IN
    CASE q.paso \in {"libre", "guardar"} -> estado
      [] q.paso = "guardarLote"          -> q.destino
      [] q.paso \in {"contar", "decidir"} ->
            IF listas THEN "reportado"
            ELSE IF q.estado = "reportado" THEN EstadoDeMuestras ELSE estado

Atomico == INSTANCE Laboratorio WITH estado <- EstadoAlFinal
PasoAtomico == Atomico!Next
varsAtomicas == Atomico!vars

(* "A report can later be withdrawn or annulled ... Never leave the lot
   terminal in that case": once every request has ended, a closed batch is
   delivered.  Broken when the report is withdrawn between the count and the
   save of the batch by a request that delivers it. *)
NuncaTerminalSinEntrega == EnReposo => ReportadoEntregado
=============================================================================
