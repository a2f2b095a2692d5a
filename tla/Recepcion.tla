----------------------------- MODULE Recepcion -----------------------------
(***************************************************************************)
(* Registration and reception: the endpoints on the batch row and its      *)
(* samples (views/loteMuestras, views/muestras) and the laboratory entry   *)
(* (views/ingresoLabLote).  One action per endpoint.                       *)
(***************************************************************************)
EXTENDS Lote

EstadosDelCliente == {"borrador", "registrado", "cancelado"}

(* POST lotes: the client names the state and the samples; the state is
   recalculated once the samples exist. *)
CrearLote(nuevo, S) ==
    /\ estado = "sin_lote"
    /\ filas' = S /\ activas' = S
    /\ ingresadas' = {} /\ conResultados' = {} /\ revisadas' = {}
    /\ estado' = IF nuevo \in {"cancelado", "borrador"} THEN nuevo ELSE EstadoDeMuestras'
    /\ UNCHANGED <<ingreso, varsInterpretacion, varsEnsayo, varsInforme>>

(* PATCH lote: every attribute the client sends is stored, estado too, and
   then recalculated. *)
EditarLote(nuevo) ==
    /\ estado # "sin_lote"
    /\ estado' = IF nuevo \in {"cancelado", "borrador"} THEN nuevo ELSE EstadoDeMuestras
    /\ UNCHANGED <<ingreso, varsMuestra, varsInterpretacion, varsEnsayo, varsInforme>>

(* DELETE lote: only an empty draft. *)
EliminarLote ==
    /\ estado = "borrador" /\ filas = {}
    /\ estado' = "sin_lote" /\ ingreso' = FALSE
    /\ UNCHANGED <<varsMuestra, varsInterpretacion, varsEnsayo, varsInforme>>

(* POST lote/register *)
RegistrarBorrador ==
    /\ estado = "borrador" /\ activas # {}
    /\ estado' = "registrado"
    /\ UNCHANGED <<ingreso, varsMuestra, varsInterpretacion, varsEnsayo, varsInforme>>

EnProceso == {"en_laboratorio", "parcial", "resultados_completos", "revisado", "reportado"}

(* POST lote/cancel *)
CancelarLote ==
    /\ estado # "sin_lote" /\ estado \notin EnProceso
    /\ estado' = "cancelado"
    /\ UNCHANGED <<ingreso, varsMuestra, varsInterpretacion, varsEnsayo, varsInforme>>

(* POST lote/reopen: the state before the cancellation is not recalculated. *)
ReabrirLote ==
    /\ estado = "cancelado"
    /\ estado' = IF filas # {} THEN "registrado" ELSE "borrador"
    /\ UNCHANGED <<ingreso, varsMuestra, varsInterpretacion, varsEnsayo, varsInforme>>

(* POST lote/recalcular-estado *)
RecalcularEstado ==
    /\ estado # "sin_lote"
    /\ UNCHANGED <<ingreso, varsMuestra, varsInterpretacion, varsEnsayo, varsInforme>>
    /\ Recalcular

(* POST lote/samples: new rows are active and carry no flag. *)
AgregarMuestras(S) ==
    /\ estado \notin {"sin_lote", "cancelado"}
    /\ S # {} /\ S \cap filas = {}
    /\ filas' = filas \cup S /\ activas' = activas \cup S
    /\ UNCHANGED <<ingreso, ingresadas, conResultados, revisadas,
                   varsInterpretacion, varsEnsayo, varsInforme>>
    /\ Recalcular

(* Deleting a sample row cascades to its tests, results and reports. *)
BorrarMuestra(m) ==
    /\ filas' = filas \ {m} /\ activas' = activas \ {m}
    /\ ingresadas' = ingresadas \ {m}
    /\ conResultados' = conResultados \ {m} /\ revisadas' = revisadas \ {m}
    /\ marca' = [marca EXCEPT ![m] = "sin"]
    /\ invalidadoPor' = [invalidadoPor EXCEPT ![m] = NINGUNA]
    /\ contenido' = contenido \ {m}
    /\ asignacion' = [e \in Ensayos |-> IF e[1] = m THEN "no" ELSE asignacion[e]]
    /\ resultado' = [e \in Ensayos |-> IF e[1] = m THEN "ninguno" ELSE resultado[e]]
    /\ completados' = completados \ EnsayosDe({m})
    /\ ensayosRevisados' = ensayosRevisados \ EnsayosDe({m})
    /\ completos' = completos \ EnsayosDe({m})
    /\ estatus' = [x \in Informes |-> IF x[1] = m THEN "no" ELSE estatus[x]]
    /\ visibles' = visibles \ InformesDe({m})
    /\ aprobados' = aprobados \ InformesDe({m})
    /\ enviados' = enviados \ InformesDe({m})
    /\ correos' = correos \ InformesDe({m})

(* The sample never entered the laboratory and has no test. *)
Eliminable(m) ==
    m \notin ingresadas /\ \A e \in EnsayosDe({m}) : asignacion[e] = "no"

(* DELETE muestra *)
EliminarMuestra(m) ==
    /\ m \in filas
    /\ Eliminable(m)
    /\ estado \in {"borrador", "registrado"}
    /\ BorrarMuestra(m)
    /\ UNCHANGED ingreso
    /\ Recalcular

(* Slip: the reports are annulled and stay visible. *)
AnularSinOcultar(m) ==
    /\ estatus' = [x \in Informes |->
                     IF x[1] = m /\ estatus[x] # "no" THEN "anulado" ELSE estatus[x]]
    /\ UNCHANGED <<visibles, aprobados, enviados, correos>>

(* Every report of the sample that is not annulled is annulled and hidden. *)
AnularInformesDe(m) ==
    /\ estatus' = [x \in Informes |->
                     IF x[1] = m /\ estatus[x] # "no" THEN "anulado" ELSE estatus[x]]
    /\ visibles' = visibles \ {x \in InformesDe({m}) : estatus[x] # "anulado"}
    /\ UNCHANGED <<aprobados, enviados, correos>>

(* POST muestra/invalidate, one transaction *)
InvalidarMuestra(m) ==
    /\ m \in activas
    /\ activas' = activas \ {m}
    /\ AnularInformesDe(m)
    /\ UNCHANGED <<ingreso, filas, ingresadas, conResultados, revisadas,
                   varsInterpretacion, varsEnsayo>>
    /\ Recalcular

(* Slip: any id that is not active is taken for an invalidated sample. *)
ReactivarSinFila(m) ==
    /\ m \in Muestras \ activas
    /\ activas' = activas \cup {m}
    /\ UNCHANGED <<ingreso, filas, ingresadas, conResultados, revisadas,
                   varsInterpretacion, varsEnsayo, varsInforme>>
    /\ Recalcular

(* POST muestra/reactivate *)
ReactivarMuestra(m) ==
    /\ m \in filas \ activas
    /\ activas' = activas \cup {m}
    /\ UNCHANGED <<ingreso, filas, ingresadas, conResultados, revisadas,
                   varsInterpretacion, varsEnsayo, varsInforme>>
    /\ Recalcular

(* POST ingreso-lab-lote: every row of the batch enters, invalidated or not. *)
IngresarLote ==
    /\ ~ingreso /\ filas # {}
    /\ estado = "registrado"
    /\ ingreso' = TRUE
    /\ ingresadas' = filas
    /\ estado' = "en_laboratorio"
    /\ UNCHANGED <<filas, activas, conResultados, revisadas,
                   varsInterpretacion, varsEnsayo, varsInforme>>

(* Slip: a draft is not taken for a result. *)
SinCompletados == completados = {}
SinResultados == \A e \in Ensayos : e \notin completados /\ resultado[e] = "ninguno"
SinInformes   == \A x \in Informes : estatus[x] = "no"

(* DELETE ingreso-lab-lote *)
RevertirIngreso ==
    /\ ingreso
    /\ SinResultados /\ SinInformes
    /\ ingreso' = FALSE
    /\ ingresadas' = {}
    /\ estado' = "registrado"
    /\ UNCHANGED <<filas, activas, conResultados, revisadas,
                   varsInterpretacion, varsEnsayo, varsInforme>>

Recibir ==
    \/ \E nuevo \in EstadosDelCliente, S \in SUBSET Muestras : CrearLote(nuevo, S)
    \/ \E nuevo \in EstadosDelCliente : EditarLote(nuevo)
    \/ EliminarLote
    \/ RegistrarBorrador
    \/ CancelarLote
    \/ ReabrirLote
    \/ RecalcularEstado
    \/ \E S \in SUBSET Muestras : AgregarMuestras(S)
    \/ \E m \in Muestras : EliminarMuestra(m)
    \/ \E m \in Muestras : InvalidarMuestra(m)
    \/ \E m \in Muestras : ReactivarMuestra(m)
    \/ IngresarLote
    \/ RevertirIngreso
=============================================================================
