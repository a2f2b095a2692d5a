------------------------------ MODULE Entrega ------------------------------
(***************************************************************************)
(* The reports of the samples: generation from the interpretation, the     *)
(* approval circuit, publication to the client, delivery by e-mail and     *)
(* annulment (apps/reporte/api/views).                                     *)
(***************************************************************************)
EXTENDS Revision

Emitidos(m) == {v \in Versiones : estatus[<<m, v>>] # "no"}

(* _next_version: one more than the last one. *)
EsSiguiente(m, v) ==
    v - 1 \in Emitidos(m) \cup {0} /\ \A w \in Emitidos(m) : w < v

Interpretada(m) == marca[m] # "requiere_revision" /\ m \in contenido
(* Slip: the interpretation alone is asked for. *)
GenerableSinRevision(m) == Interpretada(m)
Generable(m) == m \in revisadas /\ Interpretada(m)

(* New reports are "generado", not approved, not visible, not sent. *)
Generar(X) ==
    /\ estatus' = [x \in Informes |-> IF x \in X THEN "generado" ELSE estatus[x]]
    /\ UNCHANGED <<ingreso, varsMuestra, varsInterpretacion, varsEnsayo,
                   visibles, aprobados, enviados, correos>>
    /\ MarcarReportado

(* POST generate-from-interpretation *)
GenerarInforme(m, v) ==
    /\ m \in activas
    /\ Generable(m)
    /\ EsSiguiente(m, v)
    /\ Generar({<<m, v>>})

(* POST generate-batch-from-interpretation: a report for each active sample,
   or none. *)
GenerarInformesLote ==
    /\ estado # "sin_lote"
    /\ \A m \in activas : Generable(m) /\ \E v \in Versiones : EsSiguiente(m, v)
    /\ Generar({x \in Informes : x[1] \in activas /\ EsSiguiente(x[1], x[2])})

Cambiar(x, nuevo) == estatus' = [estatus EXCEPT ![x] = nuevo]

(* POST aprobar: whatever the status of the report. *)
Aprobar(x) ==
    /\ estatus[x] # "no"
    /\ Cambiar(x, "aprobado")
    /\ aprobados' = aprobados \cup {x}
    /\ UNCHANGED <<varsLote, varsMuestra, varsInterpretacion, varsEnsayo,
                   visibles, enviados, correos>>

(* POST enviar_aprobacion: whatever the status of the report. *)
EnviarAprobacion(x) ==
    /\ estatus[x] # "no"
    /\ Cambiar(x, "pendiente_aprobacion")
    /\ UNCHANGED <<varsLote, varsMuestra, varsInterpretacion, varsEnsayo,
                   visibles, aprobados, enviados, correos>>

(* Slip: the sample is not looked at. *)
LiberableSinMuestra(x) == estatus[x] \notin {"no", "anulado"} /\ x \in aprobados

(* What publication and e-mail ask of a report. *)
Liberable(x) ==
    estatus[x] \notin {"no", "anulado"} /\ x[1] \in activas /\ x \in aprobados

(* POST publish-client *)
Publicar(x) ==
    /\ Liberable(x)
    /\ visibles' = visibles \cup {x}
    /\ UNCHANGED <<ingreso, varsMuestra, varsInterpretacion, varsEnsayo,
                   estatus, aprobados, enviados, correos>>
    /\ MarcarReportado

(* POST unpublish-client *)
Ocultar(x) ==
    /\ estatus[x] # "no"
    /\ visibles' = visibles \ {x}
    /\ UNCHANGED <<ingreso, varsMuestra, varsInterpretacion, varsEnsayo,
                   estatus, aprobados, enviados, correos>>
    /\ MarcarReportado

(* The reports X leave by e-mail. *)
Despachar(X) ==
    /\ estatus' = [x \in Informes |-> IF x \in X THEN "enviado" ELSE estatus[x]]
    /\ visibles' = visibles \cup X
    /\ enviados' = enviados \cup X
    /\ correos' = correos \cup X
    /\ UNCHANGED <<ingreso, varsMuestra, varsInterpretacion, varsEnsayo, aprobados>>
    /\ MarcarReportado

(* POST send-email *)
EnviarCorreo(x) == Liberable(x) /\ Despachar({x})

(* The mail server refuses it: the date of the attempt is stored all the same. *)
FallarCorreo(x) ==
    /\ Liberable(x)
    /\ enviados' = enviados \cup {x}
    /\ UNCHANGED <<varsLote, varsMuestra, varsInterpretacion, varsEnsayo,
                   estatus, visibles, aprobados, correos>>

(* _approved_reports_for_batch: the last approved report of the sample that is
   not annulled. *)
Aprobados(m) == {x \in InformesDe({m}) : x \in aprobados /\ estatus[x] # "anulado"}
EsUltimo(x)  == x \in Aprobados(x[1]) /\ \A y \in Aprobados(x[1]) : y[2] <= x[2]

(* POST batch-send; when the mail fails no report changes. *)
EnviarLote ==
    /\ activas # {} /\ \A m \in activas : Aprobados(m) # {}
    /\ Despachar({x \in Informes : x[1] \in activas /\ EsUltimo(x)})

(* Slip: only the status is looked at, not what the client saw. *)
AnulablePublicado(x) == estatus[x] \notin {"no", "anulado", "enviado"}
Anulable(x) ==
    estatus[x] \notin {"no", "anulado", "enviado"} /\ x \notin enviados \cup visibles

(* POST annul *)
Anular(x) ==
    /\ Anulable(x)
    /\ Cambiar(x, "anulado")
    /\ UNCHANGED <<varsLote, varsMuestra, varsInterpretacion, varsEnsayo,
                   visibles, aprobados, enviados, correos>>

Entregar ==
    \/ \E x \in Informes : GenerarInforme(x[1], x[2])
    \/ GenerarInformesLote
    \/ \E x \in Informes : Aprobar(x)
    \/ \E x \in Informes : EnviarAprobacion(x)
    \/ \E x \in Informes : Publicar(x)
    \/ \E x \in Informes : Ocultar(x)
    \/ \E x \in Informes : EnviarCorreo(x)
    \/ \E x \in Informes : FallarCorreo(x)
    \/ EnviarLote
    \/ \E x \in Informes : Anular(x)
=============================================================================
