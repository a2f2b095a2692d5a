-------------------------------- MODULE Lote --------------------------------
(***************************************************************************)
(* The rows one sample batch (LoteMuestras) is made of, and the helpers    *)
(* every endpoint calls on them: the derived batch state                   *)
(* (recalcular_estado), the capabilities that gate the laboratory          *)
(* (services/workflow.py), the sample rollup computed from its tests       *)
(* (_sync_sample_completion_from_tests), the marker an invalidated result  *)
(* leaves in the saved interpretation, and the closing of a delivered      *)
(* batch (_mark_lote_reported_if_ready).                                   *)
(*                                                                         *)
(* A boolean column is the set of rows where it is true.  A row that does  *)
(* not exist has the value "no" (tests, reports) or "ninguno" (results).   *)
(***************************************************************************)
EXTENDS Naturals, FiniteSets

CONSTANTS
    Muestras,     \* ids a sample of the batch can take
    Pruebas,      \* catalogue of tests
    MaxInformes,  \* bound: report versions of one sample
    NINGUNA       \* no result is named by the interpretation marker

ASSUME LoteAssumption == MaxInformes \in Nat /\ NINGUNA \notin Pruebas

VARIABLES
    estado,            \* LoteMuestras.estado; "sin_lote" when there is no row
    ingreso,           \* the IngresoLabLote row exists
    filas,             \* Muestra rows of the batch
    activas,           \* estado_operativo = "activa"
    ingresadas,        \* is_ingresado
    conResultados,     \* is_resultado_ingresado
    revisadas,         \* is_revisado
    marca,             \* campos_adicionales.interpretacion.estado
    invalidadoPor,     \* ... .resultado_invalidado_id, as the test it is of
    contenido,         \* samples whose saved interpretation has text
    asignacion,        \* PruebaMuestra.estado_asignacion
    completados,       \* PruebaMuestra.completada
    ensayosRevisados,  \* PruebaMuestra.is_revisada
    resultado,         \* estatus of the active Resultado of the test
    completos,         \* tests whose stored values leave no field empty
    estatus,           \* Reporte.estatus
    visibles,          \* Reporte.visible_cliente
    aprobados,         \* Reporte.fecha_aprobacion and usuario_aprobacion set
    enviados,          \* Reporte.fecha_envio set
    correos            \* reports with a ReporteEnvio "email" row "enviado"

varsLote      == <<estado, ingreso>>
varsMuestra   == <<filas, activas, ingresadas, conResultados, revisadas>>
varsInterpretacion == <<marca, invalidadoPor, contenido>>
varsEnsayo    == <<asignacion, completados, ensayosRevisados, resultado, completos>>
varsInforme   == <<estatus, visibles, aprobados, enviados, correos>>
vars == <<varsLote, varsMuestra, varsInterpretacion, varsEnsayo, varsInforme>>

Versiones == 1..MaxInformes
Ensayos   == Muestras \X Pruebas      \* one PruebaMuestra row per pair
Informes  == Muestras \X Versiones    \* unique_together (muestra, version)

EnsayosDe(S)  == S \X Pruebas
InformesDe(S) == S \X Versiones

EstadosLote == {"sin_lote", "borrador", "registrado", "en_laboratorio", "parcial",
                "resultados_completos", "revisado", "reportado", "cancelado"}
EstadosAsignacion == {"no", "borrador", "confirmada"}
EstadosResultado  == {"ninguno", "pendiente", "preliminar", "aprobado", "rechazado"}
Marcas            == {"sin", "requiere_revision", "pendiente_revision"}
EstadosInforme    == {"no", "generado", "pendiente_aprobacion", "aprobado",
                      "enviado", "anulado"}

TypeOK ==
    /\ estado \in EstadosLote
    /\ ingreso \in BOOLEAN
    /\ filas \subseteq Muestras
    /\ estado = "sin_lote" => filas = {}
    /\ activas \subseteq filas
    /\ ingresadas \subseteq filas
    /\ conResultados \subseteq filas
    /\ revisadas \subseteq filas
    /\ marca \in [Muestras -> Marcas]
    /\ invalidadoPor \in [Muestras -> Pruebas \cup {NINGUNA}]
    /\ contenido \subseteq Muestras
    /\ asignacion \in [Ensayos -> EstadosAsignacion]
    /\ \A e \in Ensayos : asignacion[e] # "no" => e[1] \in filas
    /\ completados \subseteq Ensayos
    /\ ensayosRevisados \subseteq Ensayos
    /\ resultado \in [Ensayos -> EstadosResultado]
    /\ completos \subseteq Ensayos
    /\ estatus \in [Informes -> EstadosInforme]
    /\ visibles \cup aprobados \cup enviados \cup correos
         \subseteq {x \in Informes : estatus[x] # "no"}

(* Before the batch row is created. *)
SinLote ==
    /\ estado = "sin_lote"
    /\ ingreso = FALSE
    /\ filas = {} /\ activas = {} /\ ingresadas = {}
    /\ conResultados = {} /\ revisadas = {}
    /\ marca = [m \in Muestras |-> "sin"]
    /\ invalidadoPor = [m \in Muestras |-> NINGUNA]
    /\ contenido = {}
    /\ asignacion = [e \in Ensayos |-> "no"]
    /\ completados = {} /\ ensayosRevisados = {}
    /\ resultado = [e \in Ensayos |-> "ninguno"]
    /\ completos = {}
    /\ estatus = [x \in Informes |-> "no"]
    /\ visibles = {} /\ aprobados = {} /\ enviados = {} /\ correos = {}

-----------------------------------------------------------------------------
(* LoteMuestras.recalcular_estado *)

(* The state the flags of the active samples stand for. *)
EstadoDeMuestras ==
    IF activas = {} THEN IF filas # {} THEN "registrado" ELSE "borrador"
    ELSE IF activas \subseteq revisadas THEN "revisado"
    ELSE IF activas \subseteq conResultados THEN "resultados_completos"
    ELSE IF activas \cap conResultados # {} THEN "parcial"
    ELSE IF activas \cap ingresadas # {} THEN "en_laboratorio"
    ELSE "registrado"

(* Slip: a reviewed batch keeps its state as well. *)
RecalcularSalvoRevisado ==
    estado' = IF estado \in {"cancelado", "borrador", "revisado"} THEN estado
              ELSE EstadoDeMuestras'

(* A cancelled batch and a draft keep their state; any other, a reported one
   included, takes the state of its samples after the step. *)
Recalcular ==
    estado' = IF estado \in {"cancelado", "borrador"} THEN estado
              ELSE EstadoDeMuestras'

-----------------------------------------------------------------------------
(* services/workflow.py: capabilities_for_batch *)

Confirmados == {e \in Ensayos : asignacion[e] = "confirmada"}
ConfirmadosDe(m) == {e \in EnsayosDe({m}) : asignacion[e] = "confirmada"}

Desbloqueado    == estado \notin {"cancelado", "reportado"}
TodasIngresadas == filas # {} /\ filas \subseteq ingresadas
HayRevision     == Confirmados \cap ensayosRevisados # {}
HayRechazo      == \E e \in Confirmados : resultado[e] = "rechazado"

PuedeAsignar == Desbloqueado /\ TodasIngresadas /\ ~HayRevision

PuedeIngresarResultados ==
    /\ Desbloqueado /\ TodasIngresadas /\ Confirmados # {}
    /\ ~HayRevision \/ HayRechazo

PuedeRevisar ==
    /\ Desbloqueado /\ Confirmados # {}
    /\ Confirmados \subseteq completados
    /\ ~(Confirmados \subseteq ensayosRevisados)

-----------------------------------------------------------------------------
(* _sync_sample_completion_from_tests *)

Valido(e) == e \in completados /\ resultado[e] \notin {"ninguno", "rechazado"}

MuestraCompleta(m) == ConfirmadosDe(m) # {} /\ \A e \in ConfirmadosDe(m) : Valido(e)
MuestraRevisada(m) ==
    MuestraCompleta(m) /\ ConfirmadosDe(m) \subseteq ensayosRevisados

(* Slip: the flags are set and never taken back. *)
SincronizarSinRetirar(S) ==
    /\ conResultados' = conResultados \cup {m \in S : MuestraCompleta(m)'}
    /\ revisadas' = revisadas \cup {m \in S : MuestraRevisada(m)'}

(* The flags of the samples in S are computed again from their tests. *)
Sincronizar(S) ==
    /\ conResultados' = (conResultados \ S) \cup {m \in S : MuestraCompleta(m)'}
    /\ revisadas' = (revisadas \ S) \cup {m \in S : MuestraRevisada(m)'}

-----------------------------------------------------------------------------
(* _mark_interpretation_pending_review_after_correction,
   _clear_interpretation_pending_review_after_review *)

(* The marker of m moves on when the result that raised it was replaced; a
   marker without an id moves on with any of them. *)
MarcaAlcanza(m, p) ==
    marca[m] = "requiere_revision" /\ invalidadoPor[m] \in {p, NINGUNA}

MarcarPendiente(S) ==
    /\ marca' = [m \in Muestras |-> IF m \in S THEN "pendiente_revision" ELSE marca[m]]
    /\ invalidadoPor' = [m \in Muestras |-> IF m \in S THEN NINGUNA ELSE invalidadoPor[m]]

LimpiarMarca(S) ==
    marca' = [m \in Muestras |->
                IF m \in S /\ m \in revisadas' /\ marca[m] = "pendiente_revision"
                THEN "sin" ELSE marca[m]]

-----------------------------------------------------------------------------
(* _mark_lote_reported_if_ready *)

Entregado(x) == x \in aprobados /\ x \in visibles \cup enviados
(* filter(...).exclude(reportes__estatus="anulado"): the filter asks for one
   report, the exclude rejects a sample that has any annulled one. *)
Entregada(m) ==
    /\ \E x \in InformesDe({m}) : Entregado(x)
    /\ \A x \in InformesDe({m}) : estatus[x] # "anulado"

(* Slip: the batch closes and no delivery that is withdrawn reopens it. *)
MarcarReportadoSinReabrir ==
    estado' = IF activas # {} /\ \A m \in activas : Entregada(m)' THEN "reportado"
              ELSE estado

MarcarReportado ==
    estado' = IF activas # {} /\ \A m \in activas : Entregada(m)' THEN "reportado"
              ELSE IF estado = "reportado" THEN EstadoDeMuestras
              ELSE estado

=============================================================================
