---------------------------- MODULE Laboratorio ----------------------------
(***************************************************************************)
(* One batch through the whole laboratory: reception, assignment, entry    *)
(* and review of results, interpretation and delivery, every endpoint      *)
(* enabled whenever its own guards hold.  A request is one step here; the  *)
(* interleaving of the statements of two requests is EntregaConcurrente.   *)
(***************************************************************************)
EXTENDS Entrega

Init == SinLote

Next == Recibir \/ Asignar \/ Capturar \/ Revisar \/ Entregar

Spec == Init /\ [][Next]_vars

(* The straight way to a reviewed and interpreted batch, and from there
   everything that happens to its reports: a part of Next that leaves the
   samples of a larger batch within reach. *)
CaminoDirecto ==
    \/ CrearLote("registrado", Muestras)
    \/ IngresarLote
    \/ AsignarPruebas(activas, Pruebas, "confirmada")
    \/ \E e \in Ensayos : ConfirmarResultado(e, TRUE)
    \/ CompletarRevision
    \/ \E m \in Muestras : GuardarInterpretacion(m, TRUE)

NextEntrega ==
    \/ CaminoDirecto
    \/ EditarLote("registrado")
    \/ \E m \in Muestras : InvalidarMuestra(m)
    \/ \E m \in Muestras : ReactivarMuestra(m)
    \/ \E e \in Ensayos : InvalidarResultado(e)
    \/ \E e \in Ensayos : CorregirResultado(e, TRUE)
    \/ Entregar

SpecEntrega == Init /\ [][NextEntrega]_vars

-----------------------------------------------------------------------------
(* Every result, review and report belongs to a sample that entered the
   laboratory, a result to an assigned test, and a review to a result:
   whatever a deletion of a sample, an assignment or the reception takes away
   has no evidence under it. *)
EvidenciaIngresada ==
    /\ ingresadas # {} => ingreso
    /\ \A e \in Ensayos :
          Protegido(e) => /\ resultado[e] # "ninguno"
                          /\ e[1] \in ingresadas
                          /\ asignacion[e] # "no"
    /\ \A x \in Informes : estatus[x] # "no" => x[1] \in ingresadas

(* Every confirmed test of the sample is completed and reviewed, and its
   result in force. *)
EnsayosVigentes(m) ==
    /\ ConfirmadosDe(m) # {}
    /\ \A e \in ConfirmadosDe(m) :
          /\ e \in completados \cap ensayosRevisados
          /\ resultado[e] \notin {"ninguno", "rechazado"}

(* A sample is flagged as reviewed only while each of its confirmed tests has
   a completed result that was not invalidated, and was marked as reviewed:
   the flags the report endpoints read never run ahead of the tests. *)
RevisadaRespaldada ==
    \A m \in revisadas : EnsayosVigentes(m)

(* A batch shown as reviewed has every active sample reviewed: whatever adds,
   reactivates or takes back the review of a sample moves the batch too. *)
LoteRevisadoRespaldado ==
    estado = "revisado" => activas # {} /\ activas \subseteq revisadas

(* A client sees only approved reports, never an annulled one, and only of
   samples in force. *)
LiberadoSoloVigente ==
    \A x \in visibles : x \in aprobados /\ estatus[x] # "anulado" /\ x[1] \in activas

(* A batch is closed only while every active sample has an approved report,
   not annulled, that was published or left by e-mail, whatever the steps
   taken since then. *)
ReportadoEntregado ==
    estado = "reportado" =>
        \A m \in activas : \E x \in InformesDe({m}) : Entregado(x) /\ estatus[x] # "anulado"

(* A stored result and an issued report are never deleted; what stops being
   valid is marked (rechazado, anulado), whoever deletes samples, assignments
   or the reception of the batch. *)
EvidenciaConservada ==
    [][ /\ \A e \in Ensayos : resultado[e] # "ninguno" => resultado'[e] # "ninguno"
        /\ \A x \in Informes : estatus[x] # "no" => estatus'[x] # "no" ]_vars

(* A report is issued only of a sample all of whose confirmed tests are
   reviewed and valid at that moment, also after an invalidation and its
   correction. *)
EmitidoSoloRevisado ==
    [][ \A x \in Informes : estatus[x] = "no" /\ estatus'[x] # "no"
          => x[1] \in activas /\ EnsayosVigentes(x[1]) ]_vars

(* A report that reached the client is annulled only by the invalidation of
   its sample or of one of its results, never by itself. *)
AnuladoPorInvalidacion ==
    [][ \A x \in visibles \cup enviados :
          estatus[x] # "anulado" /\ estatus'[x] = "anulado"
          => \/ x[1] \in activas \ activas'
             \/ \E e \in EnsayosDe({x[1]}) : resultado'[e] = "rechazado" ]_vars

(* The laboratory keeps the promise made to the client. *)
P == INSTANCE Publicacion WITH vigentes <- activas
CumplePublicacion == P!Spec

-----------------------------------------------------------------------------
(* What the repository says of itself and the code does not do.            *)

(* "[Invalidar] deja sin vigencia la revision, la interpretacion y cualquier
   informe que dependia de el": no client sees a report of a sample with an
   invalidated result.  Broken when an annulled report is approved again. *)
PublicadoSinRechazo ==
    \A x \in visibles : \A e \in ConfirmadosDe(x[1]) : resultado[e] # "rechazado"
=============================================================================
