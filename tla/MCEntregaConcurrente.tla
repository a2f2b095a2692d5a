------------------------ MODULE MCEntregaConcurrente ------------------------
(***************************************************************************)
(* Requests that never overlap, of every kind, or requests of a few kinds  *)
(* that do: a behaviour is of one of these two modes.                      *)
(***************************************************************************)
EXTENDS EntregaConcurrente, TLC

CONSTANTS Modos,         \* the modes a run looks at
          Concurrentes   \* the endpoints that may overlap

VARIABLE modo            \* "solas": one request at a time; "juntas": any overlap

Simetria == Permutations(Muestras) \cup Permutations(Peticiones)

Admitida(p) ==
    IF modo = "solas" THEN \A o \in Peticiones \ {p} : peticion[o] = Libre
    ELSE peticion'[p] # Libre => peticion'[p].tipo \in Concurrentes

InitModos == InitConcurrente /\ modo \in Modos
NextModos == \E p \in Peticiones : Turno(p) /\ Admitida(p) /\ modo' = modo
SpecModos == InitModos /\ [][NextModos]_<<varsConcurrentes, modo>>

(* Two deliveries of the last two reports at the same time still close the *)
(* batch: each counts after its own save, so the one that saves last       *)
(* counts both.  Stated when no request is in progress, for behaviours     *)
(* that withdraw nothing.                                                  *)
CierreAlcanzado ==
    modo = "juntas" /\ EnReposo /\ (\A m \in activas : EntregadaDeVerdad(m)) => estado = "reportado"

(* One request at a time is one atomic action of Laboratorio: splitting    *)
(* the handlers adds no behaviour by itself, only their interleaving does. *)
PeticionAtomica == [][modo = "solas" => PasoAtomico]_varsAtomicas
=============================================================================
