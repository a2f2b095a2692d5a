--------------------------- MODULE Activos_proofs ---------------------------
(***************************************************************************)
(* Proofs about Activos, for any plant, samples and number of assignments: *)
(* the point in force of a sample and the history it leaves, and the one   *)
(* root of each active company.                                            *)
(***************************************************************************)
EXTENDS Activos, FiniteSetTheorems, TLAPS

Asignado == [punto : Puntos, activa : BOOLEAN]

Tablas ==
    /\ punto \in [Puntos -> FilaDePunto \cup {NINGUNO}]
    /\ equipo \in [Muestras -> Maquinas \cup {NINGUNO, AUSENTE}]
    /\ asignaciones \in [Muestras -> Seq(Asignado)]

(* A sample that does not exist has no assignments, and of those it has    *)
(* one is in force, of a point that exists.                                *)
UnaVigente ==
    \A s \in Muestras :
        /\ equipo[s] = AUSENTE => asignaciones[s] = <<>>
        /\ \A i \in Activas(s) : Existe(punto, asignaciones[s][i].punto) /\ \A j \in Activas(s) : i = j

(* The point in force is of the machine of the sample. *)
EnSuMaquina ==
    \A s \in Muestras : \A i \in Activas(s) :
        LET p == asignaciones[s][i].punto IN p \in trasladados \/ punto[p].maquina = equipo[s]

(* What a request that has read keeps in memory. *)
LoLeido ==
    /\ enCurso.op = "organizar" =>
          enCurso.punto \in Puntos /\ Existe(punto, enCurso.punto) /\ enCurso.muestras \subseteq Muestras
    /\ enCurso.op = "fijar" =>
          /\ enCurso.muestra \in Muestras
          /\ enCurso.punto # NINGUNO => enCurso.punto \in Puntos /\ Existe(punto, enCurso.punto)
    /\ enCurso.op = "editar" => enCurso.muestra \in Muestras /\ enCurso.nuevo \in Maquinas \cup {NINGUNO}
    /\ enCurso.op = "retirar" => enCurso.punto \in Puntos /\ Existe(punto, enCurso.punto)

(* Without other requests in between it is still true when it is written. *)
SigueCierto ==
    /\ enCurso.op = "organizar" => \A s \in enCurso.muestras : equipo[s] = punto[enCurso.punto].maquina
    /\ enCurso.op = "fijar" /\ enCurso.punto # NINGUNO =>
          equipo[enCurso.muestra] = punto[enCurso.punto].maquina
    /\ enCurso.op = "editar" => equipo[enCurso.muestra] = enCurso.leido

InvActivos ==
    /\ Tablas /\ UnaVigente /\ LoLeido
    /\ foco = "secuencial" => EnSuMaquina /\ SigueCierto

(* At most one row in force, and the one it is. *)
LEMMA UnPuntoFiel == InvActivos => PuntoFiel
  <1> SUFFICES ASSUME InvActivos, NEW s \in Muestras
               PROVE  /\ Cardinality(Activas(s)) <= 1
                      /\ foco = "secuencial" /\ PuntoVigente(s) # NINGUNO
                             => \/ PuntoVigente(s) \in trasladados
                                \/ punto[PuntoVigente(s)].maquina = equipo[s]
    BY DEF PuntoFiel
  <1>1. \A i, j \in Activas(s) : i = j
    BY DEF InvActivos, UnaVigente
  <1>2. CASE Activas(s) = {}
    BY <1>2, FS_EmptySet DEF PuntoVigente
  <1>3. CASE Activas(s) # {}
    <2>1. PICK i : Activas(s) = {i}
      BY <1>1, <1>3
    <2>2. Cardinality(Activas(s)) = 1
      BY <2>1, FS_Singleton
    <2>3. PuntoVigente(s) = asignaciones[s][i].punto
      BY <2>1 DEF PuntoVigente
    <2> QED BY <2>1, <2>2, <2>3 DEF InvActivos, EnSuMaquina
  <1> QED BY <1>2, <1>3

-----------------------------------------------------------------------------
(* The rows of one sample *)

Continua(h, h2) ==
    \A i \in DOMAIN h : i \in DOMAIN h2 /\ h2[i].punto = h[i].punto /\ (h2[i].activa => h[i].activa)

LEMMA HistoriaTipada ==
  ASSUME NEW h \in Seq(Asignado)
  PROVE  DOMAIN h = 1..Len(h) /\ Len(h) \in Nat /\ \A i \in DOMAIN h : h[i] \in Asignado
  OBVIOUS

LEMMA CerradaBien ==
  ASSUME Tablas, NEW s \in Muestras
  PROVE  /\ Cerrada(s) \in Seq(Asignado)
         /\ \A i \in DOMAIN Cerrada(s) : ~Cerrada(s)[i].activa
         /\ Continua(asignaciones[s], Cerrada(s))
  <1> DEFINE h == asignaciones[s]
             c == Cerrada(s)
  <1>1. h \in Seq(Asignado) /\ DOMAIN h = 1..Len(h) /\ Len(h) \in Nat /\ \A i \in DOMAIN h : h[i] \in Asignado
    BY HistoriaTipada DEF Tablas
  <1>2. \A i \in DOMAIN h : LET f == [h[i] EXCEPT !.activa = FALSE]
                            IN f \in Asignado /\ f.punto = h[i].punto /\ f.activa = FALSE
    BY <1>1 DEF Asignado
  <1>3. c = [i \in 1..Len(h) |-> [h[i] EXCEPT !.activa = FALSE]]
    BY <1>1 DEF Cerrada
  <1> HIDE DEF h, c
  <1>4. c \in Seq(Asignado) /\ DOMAIN c = DOMAIN h
    BY <1>1, <1>2, <1>3
  <1>5. \A i \in DOMAIN h : c[i].punto = h[i].punto /\ c[i].activa = FALSE
    BY <1>1, <1>2, <1>3
  <1> QED BY <1>4, <1>5 DEF c, h, Continua

LEMMA ReasignadaBien ==
  ASSUME Tablas, NEW s \in Muestras, NEW p \in Puntos
  PROVE  /\ Reasignada(s, p) \in Seq(Asignado)
         /\ \A i, j \in DOMAIN Reasignada(s, p) :
                Reasignada(s, p)[i].activa => /\ Reasignada(s, p)[i].punto = p
                                              /\ Reasignada(s, p)[j].activa => i = j
         /\ Continua(asignaciones[s], Reasignada(s, p))
  <1> DEFINE c == Cerrada(s)
             fila == [punto |-> p, activa |-> TRUE]
             r == Append(c, fila)
  <1>1. c \in Seq(Asignado) /\ (\A i \in DOMAIN c : ~c[i].activa) /\ Continua(asignaciones[s], c)
    BY CerradaBien
  <1>2. fila \in Asignado /\ fila.punto = p
    BY DEF Asignado
  <1> HIDE DEF c, fila
  <1>3. r \in Seq(Asignado) /\ DOMAIN r = DOMAIN c \cup {Len(c) + 1} /\ r[Len(c) + 1] = fila
        /\ \A i \in DOMAIN c : r[i] = c[i]
    BY <1>1, <1>2
  <1> HIDE DEF r
  <1>4. \A i \in DOMAIN r : r[i].activa => i = Len(c) + 1 /\ r[i].punto = p
    BY <1>1, <1>2, <1>3
  <1>5. Continua(asignaciones[s], r)
    BY <1>1, <1>3 DEF Continua
  <1>6. r = Reasignada(s, p)
    BY DEF r, c, fila, Reasignada
  <1> QED BY <1>3, <1>4, <1>5, <1>6

LEMMA PrimeraBien ==
  ASSUME NEW p \in Puntos
  PROVE  LET h == <<[punto |-> p, activa |-> TRUE]>>
         IN h \in Seq(Asignado) /\ \A i \in DOMAIN h : i = 1 /\ h[i].punto = p
  <1> DEFINE fila == [punto |-> p, activa |-> TRUE]
  <1>1. fila \in Asignado /\ fila.punto = p
    BY DEF Asignado
  <1> HIDE DEF fila
  <1>2. <<fila>> \in Seq(Asignado) /\ \A i \in DOMAIN <<fila>> : i = 1 /\ <<fila>>[i].punto = p
    BY <1>1
  <1> QED BY <1>2 DEF fila

-----------------------------------------------------------------------------
(* What a step does to each sample: nothing, retire its point, or give it  *)
(* the one point p.                                                        *)
Queda(s) == asignaciones'[s] = asignaciones[s] /\ equipo'[s] = equipo[s]

SinVigente(s) ==
    /\ \A i \in DOMAIN asignaciones'[s] : ~asignaciones'[s][i].activa
    /\ equipo'[s] = AUSENTE => asignaciones'[s] = <<>>

ConPunto(s, p) ==
    /\ equipo'[s] # AUSENTE /\ punto'[p] # NINGUNO
    /\ \A i, j \in DOMAIN asignaciones'[s] :
          asignaciones'[s][i].activa => /\ asignaciones'[s][i].punto = p
                                        /\ asignaciones'[s][j].activa => i = j
    /\ foco = "secuencial" => punto'[p].maquina = equipo'[s]

(* No point disappears, and one that changes machine is marked. *)
PuntosQuedan ==
    /\ trasladados \subseteq trasladados'
    /\ \A p \in Puntos : punto[p] # NINGUNO =>
          punto'[p] # NINGUNO /\ (p \in trasladados' \/ punto'[p].maquina = punto[p].maquina)

PasoBien ==
    /\ foco' = foco /\ Tablas' /\ PuntosQuedan
    /\ \A s \in Muestras : Queda(s) \/ SinVigente(s) \/ \E p \in Puntos : ConPunto(s, p)
    /\ \A s \in Recibidas : equipo'[s] # AUSENTE => Continua(asignaciones[s], asignaciones'[s])

(* A request under way that nobody steps over stays what it was. *)
NadieEnMedio ==
    \/ enCurso' = Nada
    \/ enCurso' = enCurso /\ (enCurso = Nada \/ foco # "secuencial")

LEMMA PuntoDeFila ==
  ASSUME Tablas, NEW s \in Muestras, NEW i \in DOMAIN asignaciones[s]
  PROVE  asignaciones[s][i].punto \in Puntos
  <1>1. asignaciones[s][i] \in Asignado
    BY HistoriaTipada DEF Tablas
  <1> QED BY <1>1 DEF Asignado

LEMMA MuestrasBien ==
  ASSUME InvActivos, PasoBien
  PROVE  UnaVigente' /\ (foco' = "secuencial" => EnSuMaquina')
  <1> SUFFICES ASSUME NEW s \in Muestras
      PROVE  /\ equipo'[s] = AUSENTE => asignaciones'[s] = <<>>
             /\ \A i \in DOMAIN asignaciones'[s] : asignaciones'[s][i].activa =>
                   LET p == asignaciones'[s][i].punto
                   IN  /\ punto'[p] # NINGUNO
                       /\ \A j \in DOMAIN asignaciones'[s] : asignaciones'[s][j].activa => i = j
                       /\ foco = "secuencial" => p \in trasladados' \/ punto'[p].maquina = equipo'[s]
    BY DEF UnaVigente, EnSuMaquina, Activas, Existe, PasoBien
  <1>1. CASE Queda(s)
    <2>1. /\ equipo[s] = AUSENTE => asignaciones[s] = <<>>
          /\ \A i \in DOMAIN asignaciones[s] : asignaciones[s][i].activa =>
                /\ asignaciones[s][i].punto \in Puntos /\ punto[asignaciones[s][i].punto] # NINGUNO
                /\ \A j \in DOMAIN asignaciones[s] : asignaciones[s][j].activa => i = j
                /\ foco = "secuencial" => \/ asignaciones[s][i].punto \in trasladados
                                          \/ punto[asignaciones[s][i].punto].maquina = equipo[s]
      BY PuntoDeFila DEF InvActivos, UnaVigente, EnSuMaquina, Activas, Existe
    <2> QED BY <1>1, <2>1 DEF Queda, PasoBien, PuntosQuedan
  <1>2. CASE SinVigente(s)
    BY <1>2 DEF SinVigente
  <1>3. CASE \E p \in Puntos : ConPunto(s, p)
    BY <1>3 DEF ConPunto
  <1> QED BY <1>1, <1>2, <1>3 DEF PasoBien

LEMMA Conservado ==
  ASSUME InvActivos, PasoBien, LoLeido', foco' = "secuencial" => SigueCierto'
  PROVE  InvActivos'
  BY MuestrasBien DEF InvActivos, PasoBien

LEMMA EnMedio ==
  ASSUME InvActivos, PasoBien, NadieEnMedio
  PROVE  LoLeido' /\ (foco' = "secuencial" => SigueCierto')
  <1>1. CASE enCurso' = Nada
    BY <1>1 DEF Nada, LoLeido, SigueCierto
  <1>2. CASE enCurso' = enCurso /\ foco # "secuencial"
    BY <1>2 DEF InvActivos, LoLeido, Existe, PasoBien, PuntosQuedan
  <1> QED BY <1>1, <1>2 DEF NadieEnMedio

-----------------------------------------------------------------------------
(* The steps *)

LEMMA SinTocarMuestras ==
  ASSUME InvActivos, UNCHANGED <<equipo, asignaciones, foco>>,
         punto' \in [Puntos -> FilaDePunto \cup {NINGUNO}], PuntosQuedan
  PROVE  PasoBien
  BY DEF InvActivos, Tablas, PasoBien, Queda, Continua

LEMMA FilaDePuntoNueva ==
  ASSUME NEW m \in Maquinas, NEW activo \in BOOLEAN
  PROVE  LET fila == [maquina |-> m, activo |-> activo]
         IN fila \in FilaDePunto /\ fila.maquina = m /\ fila # NINGUNO
  BY FilasAparte DEF FilaDePunto

LEMMA PuntoEscrito ==
  ASSUME InvActivos, NEW p \in Puntos, NEW m \in Maquinas, NEW activo \in BOOLEAN,
         punto' = [punto EXCEPT ![p] = [maquina |-> m, activo |-> activo]],
         UNCHANGED <<equipo, asignaciones, foco>>, trasladados \subseteq trasladados',
         punto[p] # NINGUNO => p \in trasladados' \/ punto[p].maquina = m
  PROVE  PasoBien
  <1> DEFINE fila == [maquina |-> m, activo |-> activo]
  <1>1. fila \in FilaDePunto /\ fila.maquina = m /\ fila # NINGUNO
    BY FilaDePuntoNueva
  <1>2. punto' = [punto EXCEPT ![p] = fila] /\ punto \in [Puntos -> FilaDePunto \cup {NINGUNO}]
    BY DEF InvActivos, Tablas
  <1> HIDE DEF fila
  <1>3. PuntosQuedan
    BY <1>1, <1>2 DEF PuntosQuedan
  <1> QED BY <1>1, <1>2, <1>3, SinTocarMuestras

(* activo alone changes, in some of the points. *)
LEMMA SoloActivo ==
  ASSUME InvActivos, NEW S, NEW activo \in BOOLEAN,
         \A p \in Puntos \cap S : punto[p] # NINGUNO,
         punto' = [p \in Puntos |-> IF p \in S THEN [punto[p] EXCEPT !.activo = activo] ELSE punto[p]],
         UNCHANGED <<equipo, asignaciones, foco, trasladados>>
  PROVE  PasoBien
  <1>1. \A p \in Puntos \cap S : LET f == [punto[p] EXCEPT !.activo = activo]
                               IN f \in FilaDePunto /\ f.maquina = punto[p].maquina /\ f # NINGUNO
    BY FilasAparte DEF InvActivos, Tablas, FilaDePunto
  <1>2. punto \in [Puntos -> FilaDePunto \cup {NINGUNO}]
    BY DEF InvActivos, Tablas
  <1>3. punto' \in [Puntos -> FilaDePunto \cup {NINGUNO}] /\ PuntosQuedan
    BY <1>1, <1>2 DEF PuntosQuedan
  <1> QED BY <1>3, SinTocarMuestras

LEMMA UnSoloPunto ==
  ASSUME InvActivos, NEW p \in Puntos, NEW activo \in BOOLEAN, punto[p] # NINGUNO,
         punto' = [punto EXCEPT ![p].activo = activo],
         UNCHANGED <<equipo, asignaciones, foco, trasladados>>
  PROVE  PasoBien
  <1> DEFINE S == {p}
  <1>1. punto' = [q \in Puntos |-> IF q \in S THEN [punto[q] EXCEPT !.activo = activo] ELSE punto[q]]
    BY DEF InvActivos, Tablas
  <1>2. \A q \in Puntos \cap S : punto[q] # NINGUNO
    OBVIOUS
  <1>3. UNCHANGED <<equipo, asignaciones, foco, trasladados>>
    OBVIOUS
  <1> HIDE DEF S
  <1> QED BY <1>1, <1>2, <1>3, SoloActivo

LEMMA MaquinasBien == InvActivos /\ NextMaquinas => PasoBien /\ enCurso' = enCurso
  <1> SUFFICES ASSUME InvActivos, NextMaquinas PROVE PasoBien /\ enCurso' = enCurso
    OBVIOUS
  <1>1. ASSUME NoCambiaPlanta PROVE PasoBien /\ enCurso' = enCurso
    BY <1>1, SinTocarMuestras DEF NoCambiaPlanta, InvActivos, Tablas, PuntosQuedan
  <1>2. ASSUME NEW m \in Maquinas, DesactivarMaquina(m) PROVE PasoBien /\ enCurso' = enCurso
    <2> DEFINE S == {p \in Puntos : Existe(punto, p) /\ punto[p].maquina = m}
    <2>1. punto' = [p \in Puntos |-> IF p \in S THEN [punto[p] EXCEPT !.activo = FALSE] ELSE punto[p]]
      BY <1>2 DEF DesactivarMaquina
    <2>2. \A p \in Puntos \cap S : punto[p] # NINGUNO
      BY DEF Existe
    <2> HIDE DEF S
    <2> QED BY <1>2, <2>1, <2>2, SoloActivo DEF DesactivarMaquina
  <1> QED BY <1>1, <1>2 DEF NextMaquinas, CrearMaquina, ReactivarMaquina

LEMMA ArbolBien == InvActivos /\ NextArbol => PasoBien /\ enCurso' = enCurso
  <1> SUFFICES ASSUME InvActivos, NextArbol PROVE PasoBien /\ enCurso' = enCurso
    OBVIOUS
  <1>1. NoCambiaPlanta
    BY DEF NextArbol, CrearEmpresa, EditarEmpresa, CrearCarpeta, EditarCarpeta, BorrarCarpeta,
           EditarMaquina, SoloArbol
  <1> QED BY <1>1, SinTocarMuestras DEF NoCambiaPlanta, InvActivos, Tablas, PuntosQuedan

(* Only the sample s is written. *)
LEMMA MuestraEscrita ==
  ASSUME InvActivos, NEW s \in Muestras, NEW q \in Maquinas \cup {NINGUNO, AUSENTE}, NEW h \in Seq(Asignado),
         equipo' = [equipo EXCEPT ![s] = q], asignaciones' = [asignaciones EXCEPT ![s] = h],
         punto' \in [Puntos -> FilaDePunto \cup {NINGUNO}], PuntosQuedan, foco' = foco,
         SinVigente(s) \/ \E p \in Puntos : ConPunto(s, p),
         s \in Recibidas /\ q # AUSENTE => Continua(asignaciones[s], h)
  PROVE  PasoBien
  <1>1. equipo \in [Muestras -> Maquinas \cup {NINGUNO, AUSENTE}] /\ asignaciones \in [Muestras -> Seq(Asignado)]
    BY DEF InvActivos, Tablas
  <1>2. equipo' \in [Muestras -> Maquinas \cup {NINGUNO, AUSENTE}] /\ asignaciones' \in [Muestras -> Seq(Asignado)]
        /\ equipo'[s] = q /\ asignaciones'[s] = h
    BY <1>1
  <1>3. \A t \in Muestras \ {s} : Queda(t)
    BY <1>1 DEF Queda
  <1>4. \A t \in Muestras \ {s} : Continua(asignaciones[t], asignaciones'[t])
    BY <1>3 DEF Queda, Continua
  <1> QED BY <1>2, <1>3, <1>4 DEF PasoBien, Tablas, Recibidas

LEMMA RecibirBien ==
  ASSUME InvActivos, NEW s \in Muestras, NEW m \in Maquinas, NEW p \in Puntos, equipo[s] = AUSENTE,
         equipo' = [equipo EXCEPT ![s] = m],
         asignaciones' = [asignaciones EXCEPT ![s] = <<[punto |-> p, activa |-> TRUE]>>],
         punto' \in [Puntos -> FilaDePunto \cup {NINGUNO}], PuntosQuedan, foco' = foco,
         punto'[p] # NINGUNO, punto'[p].maquina = m
  PROVE  PasoBien
  <1> DEFINE h == <<[punto |-> p, activa |-> TRUE]>>
  <1>1. h \in Seq(Asignado) /\ \A i \in DOMAIN h : i = 1 /\ h[i].punto = p
    BY PrimeraBien
  <1>2. asignaciones' = [asignaciones EXCEPT ![s] = h]
    OBVIOUS
  <1> HIDE DEF h
  <1>3. equipo'[s] = m /\ asignaciones'[s] = h /\ m # AUSENTE
    BY <1>2, FilasAparte DEF InvActivos, Tablas
  <1>4. ConPunto(s, p)
    BY <1>1, <1>3 DEF ConPunto
  <1>5. s \notin Recibidas
    BY DEF Recibidas
  <1> QED BY <1>1, <1>2, <1>4, <1>5, MuestraEscrita

LEMMA SinAsignar ==
  ASSUME InvActivos, NEW s \in Muestras, NEW q \in Maquinas \cup {NINGUNO}, equipo[s] = AUSENTE,
         equipo' = [equipo EXCEPT ![s] = q], UNCHANGED <<punto, asignaciones, trasladados, foco>>
  PROVE  PasoBien
  <1>1. asignaciones[s] = <<>> /\ asignaciones \in [Muestras -> Seq(Asignado)]
    BY DEF InvActivos, UnaVigente, Tablas
  <1>2. asignaciones' = [asignaciones EXCEPT ![s] = <<>>] /\ asignaciones'[s] = <<>>
    BY <1>1
  <1>3. SinVigente(s)
    BY <1>2 DEF SinVigente
  <1>4. <<>> \in Seq(Asignado) /\ s \notin Recibidas /\ PuntosQuedan
    BY DEF Recibidas, PuntosQuedan
  <1>5. punto' \in [Puntos -> FilaDePunto \cup {NINGUNO}] /\ foco' = foco
    BY DEF InvActivos, Tablas
  <1> QED BY <1>2, <1>3, <1>4, <1>5, MuestraEscrita

LEMMA PlacaBien ==
  ASSUME InvActivos, NEW s \in Muestras, NEW m \in Maquinas, NEW e \in Companias,
         NEW p \in Puntos \cup {NINGUNO}, RecibirConPlaca(s, m, e, p)
  PROVE  PasoBien
  <1>1. equipo[s] = AUSENTE /\ equipo' = [equipo EXCEPT ![s] = m] /\ UNCHANGED <<trasladados, foco>>
    BY DEF RecibirConPlaca
  <1>2. CASE p = NINGUNO
    <2>1. UNCHANGED <<punto, asignaciones>>
      BY <1>2 DEF RecibirConPlaca
    <2> QED BY <1>1, <2>1, SinAsignar
  <1>3. CASE p # NINGUNO
    <2> DEFINE fila == [maquina |-> m, activo |-> TRUE]
    <2>1. /\ p \in Puntos
          /\ punto[p] # NINGUNO => punto[p].maquina = m
          /\ punto' = [punto EXCEPT ![p] = fila]
          /\ asignaciones' = [asignaciones EXCEPT ![s] = <<[punto |-> p, activa |-> TRUE]>>]
      BY <1>3 DEF RecibirConPlaca, Existe
    <2>2. fila \in FilaDePunto /\ fila.maquina = m /\ fila # NINGUNO
      BY FilaDePuntoNueva
    <2>3. punto \in [Puntos -> FilaDePunto \cup {NINGUNO}]
      BY DEF InvActivos, Tablas
    <2> HIDE DEF fila
    <2>4. punto' \in [Puntos -> FilaDePunto \cup {NINGUNO}] /\ punto'[p] = fila /\ PuntosQuedan
      BY <1>1, <2>1, <2>2, <2>3 DEF PuntosQuedan
    <2> QED BY <1>1, <2>1, <2>2, <2>4, RecibirBien
  <1> QED BY <1>2, <1>3

LEMMA PuntosBien == InvActivos /\ NextPuntos => PasoBien /\ enCurso' = enCurso
  <1> SUFFICES ASSUME InvActivos, NextPuntos PROVE PasoBien /\ enCurso' = enCurso
    OBVIOUS
  <1>0. Tablas
    BY DEF InvActivos
  <1>1. ASSUME NEW p \in Puntos, NEW m \in Maquinas, CrearPunto(p, m) PROVE PasoBien /\ enCurso' = enCurso
    <2>1. punto[p] = NINGUNO
      BY <1>0, <1>1 DEF CrearPunto, Siguiente, Existentes, Existe, Tablas
    <2> QED BY <1>1, <2>1, PuntoEscrito DEF CrearPunto, Terreno
  <1>2. ASSUME NEW p \in Puntos, NEW m \in Maquinas, NEW activo \in BOOLEAN, EditarPunto(p, m, activo)
        PROVE  PasoBien /\ enCurso' = enCurso
    BY <1>2, PuntoEscrito DEF EditarPunto, Terreno
  <1>3. ASSUME NEW p \in Puntos, ReactivarPunto(p) PROVE PasoBien /\ enCurso' = enCurso
    BY <1>3, UnSoloPunto DEF ReactivarPunto, Existe, Terreno
  <1>4. ASSUME NEW s \in Muestras, NEW p \in Puntos, RecibirConPunto(s, p) PROVE PasoBien /\ enCurso' = enCurso
    <2>1. punto[p] # NINGUNO /\ punto[p].maquina \in Maquinas /\ PuntosQuedan
      BY <1>0, <1>4 DEF RecibirConPunto, PuntoActivo, Existe, Tablas, FilaDePunto, PuntosQuedan
    <2> QED BY <1>0, <1>4, <2>1, RecibirBien DEF RecibirConPunto, Terreno, Tablas
  <1>5. ASSUME NEW s \in Muestras, NEW m \in Maquinas, NEW e \in Companias, NEW p \in Puntos \cup {NINGUNO},
               RecibirConPlaca(s, m, e, p)
        PROVE  PasoBien /\ enCurso' = enCurso
    BY <1>5, PlacaBien DEF RecibirConPlaca
  <1>6. ASSUME NEW s \in Muestras, RecibirSinEquipo(s) PROVE PasoBien /\ enCurso' = enCurso
    BY <1>6, SinAsignar DEF RecibirSinEquipo, Terreno
  <1>7. ASSUME NEW s \in Muestras, BorrarMuestra(s) PROVE PasoBien /\ enCurso' = enCurso
    <2>1. asignaciones'[s] = <<>> /\ <<>> \in Seq(Asignado)
      BY <1>0, <1>7 DEF BorrarMuestra, Tablas
    <2>2. SinVigente(s) /\ PuntosQuedan
      BY <1>7, <2>1 DEF SinVigente, PuntosQuedan, BorrarMuestra
    <2> QED BY <1>0, <1>7, <2>1, <2>2, MuestraEscrita DEF BorrarMuestra, Terreno, Tablas
  <1> QED BY <1>1, <1>2, <1>3, <1>4, <1>5, <1>6, <1>7 DEF NextPuntos

(* Reading changes no row. *)
LEMMA LeerBien ==
  ASSUME InvActivos, Leer
  PROVE  PasoBien /\ LoLeido' /\ (foco' = "secuencial" => SigueCierto')
  <1>1. UNCHANGED <<punto, equipo, asignaciones, trasladados, foco>>
    BY DEF Leer, Terreno
  <1>2. PasoBien
    BY <1>1, SinTocarMuestras DEF InvActivos, Tablas, PuntosQuedan
  <1>3. ASSUME NEW p \in Puntos, NEW S \in SUBSET Muestras, LeerOrganizar(p, S)
        PROVE  LoLeido' /\ SigueCierto'
    BY <1>1, <1>3 DEF LeerOrganizar, LoLeido, SigueCierto, PuntoActivo, Existe
  <1>4. ASSUME NEW s \in Muestras, NEW p \in Puntos \cup {NINGUNO}, LeerFijarPunto(s, p)
        PROVE  LoLeido' /\ SigueCierto'
    BY <1>1, <1>4 DEF LeerFijarPunto, LoLeido, SigueCierto, PuntoActivo, Existe
  <1>5. ASSUME NEW s \in Muestras, NEW m \in Maquinas \cup {NINGUNO}, LeerEditarMuestra(s, m)
        PROVE  LoLeido' /\ SigueCierto'
    BY <1>1, <1>5 DEF LeerEditarMuestra, LoLeido, SigueCierto
  <1>6. ASSUME NEW p \in Puntos, LeerRetirarPunto(p) PROVE LoLeido' /\ SigueCierto'
    BY <1>1, <1>6 DEF LeerRetirarPunto, LoLeido, SigueCierto, PuntoActivo, Existe
  <1> QED BY <1>2, <1>3, <1>4, <1>5, <1>6 DEF Leer

LEMMA OrganizarBien ==
  ASSUME InvActivos, EscribirOrganizar, trasladados' = trasladados, foco' = foco
  PROVE  PasoBien
  <1> DEFINE p == enCurso.punto
             S == {s \in enCurso.muestras \cap Recibidas : PuntoVigente(s) # p}
  <1>1. /\ asignaciones' = [s \in Muestras |-> IF s \in S THEN Reasignada(s, p) ELSE asignaciones[s]]
        /\ UNCHANGED <<punto, equipo>>
    BY DEF EscribirOrganizar
  <1>2. p \in Puntos /\ punto[p] # NINGUNO /\ S \subseteq Muestras
        /\ \A s \in S : s \in Recibidas /\ (foco = "secuencial" => punto[p].maquina = equipo[s])
    BY DEF EscribirOrganizar, InvActivos, LoLeido, SigueCierto, Existe
  <1> HIDE DEF p, S
  <1>3. Tablas /\ Tablas'
    BY <1>1, <1>2, ReasignadaBien DEF InvActivos, Tablas
  <1>4. PuntosQuedan
    BY <1>1 DEF PuntosQuedan
  <1>5. ASSUME NEW s \in Muestras, s \in S
        PROVE  ConPunto(s, p) /\ Continua(asignaciones[s], asignaciones'[s])
    <2>1. asignaciones'[s] = Reasignada(s, p)
      BY <1>1, <1>5
    <2> QED BY <1>1, <1>2, <1>3, <1>5, <2>1, ReasignadaBien DEF ConPunto, Recibidas
  <1>6. ASSUME NEW s \in Muestras, s \notin S
        PROVE  Queda(s) /\ Continua(asignaciones[s], asignaciones'[s])
    BY <1>1, <1>6 DEF Queda, Continua
  <1> QED BY <1>2, <1>3, <1>4, <1>5, <1>6 DEF PasoBien, Recibidas

(* A write that leaves the points and the machine of the sample. *)
LEMMA AsignacionEscrita ==
  ASSUME InvActivos, NEW s \in Muestras, NEW q \in Maquinas \cup {NINGUNO}, NEW h \in Seq(Asignado),
         s \in Recibidas, equipo' = [equipo EXCEPT ![s] = q], asignaciones' = [asignaciones EXCEPT ![s] = h],
         UNCHANGED <<punto, trasladados, foco>>, Continua(asignaciones[s], h),
         \/ \A i \in DOMAIN h : ~h[i].activa
         \/ \E p \in Puntos : /\ punto[p] # NINGUNO /\ (foco = "secuencial" => punto[p].maquina = q)
                              /\ \A i, j \in DOMAIN h : h[i].activa => h[i].punto = p /\ (h[j].activa => i = j)
  PROVE  PasoBien
  <1>1. equipo'[s] = q /\ asignaciones'[s] = h /\ q # AUSENTE
    BY FilasAparte DEF InvActivos, Tablas
  <1>2. PuntosQuedan /\ punto' \in [Puntos -> FilaDePunto \cup {NINGUNO}]
    BY DEF PuntosQuedan, InvActivos, Tablas
  <1>3. SinVigente(s) \/ \E p \in Puntos : ConPunto(s, p)
    BY <1>1 DEF SinVigente, ConPunto
  <1> QED BY <1>2, <1>3, MuestraEscrita

LEMMA FijarBien ==
  ASSUME InvActivos, EscribirFijarPunto, trasladados' = trasladados, foco' = foco
  PROVE  PasoBien
  <1> DEFINE s == enCurso.muestra
             p == enCurso.punto
  <1>1. UNCHANGED <<punto, equipo>> /\ s \in Muestras
    BY DEF EscribirFijarPunto, InvActivos, LoLeido
  <1>2. CASE asignaciones' = asignaciones
    BY <1>1, <1>2, SinTocarMuestras DEF InvActivos, Tablas, PuntosQuedan
  <1>3. CASE asignaciones' # asignaciones
    <2>1. s \in Recibidas
          /\ asignaciones' = [asignaciones EXCEPT ![s] = IF p = NINGUNO THEN Cerrada(s) ELSE Reasignada(s, p)]
      BY <1>3 DEF EscribirFijarPunto
    <2>2. p # NINGUNO => p \in Puntos /\ punto[p] # NINGUNO /\ (foco = "secuencial" => punto[p].maquina = equipo[s])
      BY DEF EscribirFijarPunto, InvActivos, LoLeido, SigueCierto, Existe
    <2>3. Tablas
      BY DEF InvActivos
    <2> HIDE DEF s, p
    <2>4. equipo' = [equipo EXCEPT ![s] = equipo[s]] /\ equipo[s] \in Maquinas \cup {NINGUNO}
      BY <1>1, <2>1, <2>3 DEF Tablas, Recibidas
    <2>5. CASE p = NINGUNO
      BY <1>1, <2>1, <2>3, <2>4, <2>5, CerradaBien, AsignacionEscrita
    <2>6. CASE p # NINGUNO
      <3> DEFINE h == Reasignada(s, p)
      <3>1. h \in Seq(Asignado) /\ Continua(asignaciones[s], h)
            /\ \A i, j \in DOMAIN h : h[i].activa => h[i].punto = p /\ (h[j].activa => i = j)
        BY <1>1, <2>2, <2>3, <2>6, ReasignadaBien
      <3>2. asignaciones' = [asignaciones EXCEPT ![s] = h]
        BY <2>1, <2>6
      <3> HIDE DEF h
      <3>3. \E x \in Puntos : /\ punto[x] # NINGUNO /\ (foco = "secuencial" => punto[x].maquina = equipo[s])
                              /\ \A i, j \in DOMAIN h : h[i].activa => h[i].punto = x /\ (h[j].activa => i = j)
        BY <2>2, <2>6, <3>1
      <3>4. UNCHANGED <<punto, trasladados, foco>> /\ s \in Recibidas
        BY <1>1, <2>1
      <3> QED BY <1>1, <2>4, <3>1, <3>2, <3>3, <3>4, AsignacionEscrita
    <2> QED BY <2>5, <2>6
  <1> QED BY <1>2, <1>3

LEMMA EditarMuestraBien ==
  ASSUME InvActivos, EscribirEditarMuestra, trasladados' = trasladados, foco' = foco
  PROVE  PasoBien
  <1> DEFINE s == enCurso.muestra
  <1>1. punto' = punto /\ s \in Muestras /\ enCurso.nuevo \in Maquinas \cup {NINGUNO} /\ Tablas
    BY DEF EscribirEditarMuestra, InvActivos, LoLeido
  <1>2. CASE s \notin Recibidas
    <2>1. UNCHANGED <<equipo, asignaciones>>
      BY <1>2 DEF EscribirEditarMuestra
    <2> QED BY <1>1, <2>1, SinTocarMuestras DEF InvActivos, Tablas, PuntosQuedan
  <1>3. CASE s \in Recibidas /\ PierdeElPunto
    <2>1. equipo' = [equipo EXCEPT ![s] = enCurso.nuevo] /\ asignaciones' = [asignaciones EXCEPT ![s] = Cerrada(s)]
      BY <1>3 DEF EscribirEditarMuestra
    <2> HIDE DEF s
    <2> QED BY <1>1, <1>3, <2>1, CerradaBien, AsignacionEscrita
  <1>4. CASE s \in Recibidas /\ ~PierdeElPunto
    <2>1. equipo' = [equipo EXCEPT ![s] = enCurso.nuevo] /\ asignaciones' = asignaciones
      BY <1>4 DEF EscribirEditarMuestra
    <2>2. foco = "secuencial" => equipo[s] = enCurso.nuevo
      BY <1>4 DEF PierdeElPunto, EscribirEditarMuestra, InvActivos, SigueCierto
    <2> HIDE DEF s
    <2> DEFINE h == asignaciones[s]
    <2>3. asignaciones' = [asignaciones EXCEPT ![s] = h] /\ h \in Seq(Asignado) /\ Continua(h, h)
      BY <1>1, <2>1 DEF Tablas, Continua
    <2>4. CASE \A i \in DOMAIN h : ~h[i].activa
      BY <1>1, <1>4, <2>1, <2>3, <2>4, AsignacionEscrita
    <2>5. CASE foco # "secuencial" /\ \E i \in DOMAIN h : h[i].activa
      <3>1. PICK i \in DOMAIN h : h[i].activa
        BY <2>5
      <3>2. h[i].punto \in Puntos /\ punto[h[i].punto] # NINGUNO
            /\ \A j, k \in DOMAIN h : h[j].activa => h[j].punto = h[i].punto /\ (h[k].activa => j = k)
        BY <1>1, <3>1, PuntoDeFila DEF InvActivos, UnaVigente, Activas, Existe
      <3> QED BY <1>1, <1>4, <2>1, <2>3, <2>5, <3>2, AsignacionEscrita
    <2>6. CASE foco = "secuencial"
      <3>1. equipo' = equipo
        BY <1>1, <2>1, <2>2, <2>6 DEF Tablas
      <3> QED BY <1>1, <2>1, <3>1, SinTocarMuestras DEF InvActivos, Tablas, PuntosQuedan
    <2> QED BY <2>4, <2>5, <2>6
  <1> QED BY <1>2, <1>3, <1>4

LEMMA EscribirBien == InvActivos /\ Escribir => PasoBien /\ enCurso' = Nada
  <1> SUFFICES ASSUME InvActivos, Escribir PROVE PasoBien /\ enCurso' = Nada
    OBVIOUS
  <1>1. enCurso' = Nada /\ trasladados' = trasladados /\ foco' = foco
    BY DEF Escribir, Terreno
  <1>2. CASE EscribirRetirarPunto
    <2>1. enCurso.punto \in Puntos /\ punto[enCurso.punto] # NINGUNO
      BY <1>2 DEF EscribirRetirarPunto, InvActivos, LoLeido, Existe
    <2> QED BY <1>1, <1>2, <2>1, UnSoloPunto DEF EscribirRetirarPunto
  <1> QED BY <1>1, <1>2, OrganizarBien, FijarBien, EditarMuestraBien DEF Escribir

LEMMA ActivosPaso == InvActivos /\ [NextActivos]_varsActivos => InvActivos' /\ PasoBien
  <1> SUFFICES ASSUME InvActivos, [NextActivos]_varsActivos PROVE InvActivos' /\ PasoBien
    OBVIOUS
  <1>1. ASSUME PasoBien, NadieEnMedio PROVE InvActivos' /\ PasoBien
    BY <1>1, EnMedio, Conservado
  <1>2. CASE Escribir
    BY <1>1, <1>2, EscribirBien DEF NadieEnMedio
  <1>3. CASE (enCurso = Nada \/ foco = "concurrente") /\ (NextMaquinas \/ NextPuntos)
    BY <1>1, <1>3, MaquinasBien, PuntosBien DEF NadieEnMedio
  <1>4. CASE foco = "arbol" /\ NextArbol
    BY <1>1, <1>4, ArbolBien DEF NadieEnMedio
  <1>5. CASE Leer
    BY <1>5, LeerBien, Conservado
  <1>6. CASE UNCHANGED varsActivos
    <2>1. PasoBien
      BY <1>6, SinTocarMuestras DEF varsActivos, InvActivos, Tablas, PuntosQuedan
    <2>2. LoLeido' /\ (foco' = "secuencial" => SigueCierto')
      BY <1>6 DEF varsActivos, InvActivos, LoLeido, SigueCierto, Existe
    <2> QED BY <2>1, <2>2, Conservado
  <1> QED BY <1>2, <1>3, <1>4, <1>5, <1>6 DEF NextActivos

LEMMA ActivosInicio == InitActivos => InvActivos
  <1> SUFFICES ASSUME InitActivos PROVE InvActivos
    OBVIOUS
  <1>1. /\ punto = [p \in Puntos |-> NINGUNO] /\ equipo = [s \in Muestras |-> AUSENTE]
        /\ asignaciones = [s \in Muestras |-> <<>>] /\ enCurso.op = "nada"
    BY DEF InitActivos, Nada
  <1>2. \A s \in Muestras : asignaciones[s] = <<>> /\ Activas(s) = {}
    BY <1>1 DEF Activas
  <1> QED BY <1>1, <1>2 DEF InvActivos, Tablas, UnaVigente, EnSuMaquina, LoLeido, SigueCierto

-----------------------------------------------------------------------------
(* One assignment of a sample is in force at most, and while requests do   *)
(* not overlap its point is of the machine of the sample, or was moved     *)
(* itself (organize, measurement_point, reception, the edition of a        *)
(* sample and of a point).                                                 *)
THEOREM PuntoSiempreFiel == SpecActivos => []PuntoFiel
  BY UnPuntoFiel, ActivosInicio, ActivosPaso, PTL DEF SpecActivos

(* The history of a sample only grows, and what was closed stays closed    *)
(* (AsignacionPuntoMuestreo: "retained as history; it is never deleted").  *)
THEOREM HistorialSiempreConservado == SpecActivos => HistorialConservado
  <1>1. InvActivos /\ [NextActivos]_varsActivos
        => [\A s \in Recibidas :
                equipo'[s] # AUSENTE =>
                    \A i \in DOMAIN asignaciones[s] :
                        /\ i \in DOMAIN asignaciones'[s]
                        /\ asignaciones'[s][i].punto = asignaciones[s][i].punto
                        /\ asignaciones'[s][i].activa => asignaciones[s][i].activa]_varsActivos
    BY ActivosPaso DEF PasoBien, Continua
  <1> QED BY <1>1, ActivosInicio, ActivosPaso, PTL DEF SpecActivos, HistorialConservado
-----------------------------------------------------------------------------
(* The tree.  A company has one root at most, by the unique constraint and *)
(* because ensure_company_root writes the one there is; and one is made,   *)
(* with its name, whenever the company is left active.                     *)
NodosBien(ns) == ns \in [Nodos -> Carpeta \cup {NINGUNO}]
UnaRaiz(ns) == \A e \in Companias : \A a, b \in Raices(ns, e) : a = b
ConSuNombre(ns, e, nombre) ==
    (\E n \in Raices(ns, e) : TRUE) /\ \A n \in Raices(ns, e) : ns[n].nombre = nombre

(* A company has the roots it had, as they were. *)
MismasRaices(ns, ns2, e) == Raices(ns2, e) = Raices(ns, e) /\ \A n \in Raices(ns, e) : ns2[n] = ns[n]

InvArbol ==
    /\ empresa \in [Companias -> FilaDeEmpresa \cup {NINGUNO}]
    /\ maquina \in [Maquinas -> FilaDeMaquina \cup {NINGUNO}]
    /\ \A m \in Maquinas : Existe(maquina, m) => Existe(empresa, maquina[m].empresa)
    /\ NodosBien(nodo) /\ UnaRaiz(nodo)
    /\ \A e \in Companias : Existe(empresa, e) /\ empresa[e].activa => ConSuNombre(nodo, e, empresa[e].nombre)

LEMMA FilasDeNodo ==
  ASSUME NEW ns, NodosBien(ns)
  PROVE  /\ DOMAIN ns = Nodos /\ Existentes(ns) \subseteq Nodos
         /\ \A n \in Existentes(ns) : ns[n] \in Carpeta
         /\ \A n \in Siguiente(ns) : n \in Nodos /\ n \notin Existentes(ns)
         /\ \A e : Raices(ns, e) \subseteq Existentes(ns)
  BY DEF NodosBien, Existentes, Existe, Siguiente, Raices

(* A node that is not a root becomes another row that is not. *)
LEMMA SinTocarRaices ==
  ASSUME NEW ns, NodosBien(ns), NEW n \in Nodos, NEW c \in Carpeta \cup {NINGUNO}, NEW e,
         n \notin Raices(ns, e), c = NINGUNO \/ ~EsRaiz(c, e)
  PROVE  NodosBien([ns EXCEPT ![n] = c]) /\ MismasRaices(ns, [ns EXCEPT ![n] = c], e)
  <1> DEFINE ns2 == [ns EXCEPT ![n] = c]
  <1>1. NodosBien(ns2) /\ ns2[n] = c /\ \A x \in Nodos \ {n} : ns2[x] = ns[x]
    BY DEF NodosBien
  <1>2. DOMAIN ns = Nodos /\ DOMAIN ns2 = Nodos
    BY <1>1 DEF NodosBien
  <1> HIDE DEF ns2
  <1>3. \A x : x \in Raices(ns2, e) <=> x \in Raices(ns, e)
    BY <1>1, <1>2 DEF Raices, Existentes, Existe
  <1>4. \A x \in Raices(ns, e) : x \in Nodos \ {n}
    BY <1>2 DEF Raices, Existentes
  <1>5. MismasRaices(ns, ns2, e)
    BY <1>1, <1>3, <1>4 DEF MismasRaices
  <1> QED BY <1>1, <1>5 DEF ns2

(* What ensure_company_root leaves. *)
Asegurada(ns, ns2, e, nombre) ==
    /\ NodosBien(ns2) /\ UnaRaiz(ns2) /\ ConSuNombre(ns2, e, nombre)
    /\ \A f \in Companias \ {e} : MismasRaices(ns, ns2, f)

LEMMA OtrasRaices ==
  ASSUME NEW ns, NEW ns2, NEW e \in Companias, UnaRaiz(ns),
         \A a, b \in Raices(ns2, e) : a = b, \A f \in Companias \ {e} : MismasRaices(ns, ns2, f)
  PROVE  UnaRaiz(ns2)
  BY DEF UnaRaiz, MismasRaices

LEMMA RaizAseguradaEs ==
  ASSUME NEW ns, NodosBien(ns), UnaRaiz(ns), NEW e \in Companias, NEW nombre \in Nombres,
         NEW ns2 \in RaizAsegurada(ns, e, nombre)
  PROVE  Asegurada(ns, ns2, e, nombre)
  <1>1. CASE Raices(ns, e) # {}
    <2>1. ns2 = [n \in Nodos |-> IF n \in Raices(ns, e) THEN [ns[n] EXCEPT !.nombre = nombre] ELSE ns[n]]
      BY <1>1 DEF RaizAsegurada
    <2>2. \A n \in Raices(ns, e) :
             LET c == [ns[n] EXCEPT !.nombre = nombre]
             IN  c \in Carpeta /\ c # NINGUNO /\ c.nombre = nombre /\ EsRaiz(c, e)
                 /\ \A f \in Companias \ {e} : ~EsRaiz(c, f) /\ ~EsRaiz(ns[n], f)
      <3> TAKE n \in Raices(ns, e)
      <3>1. ns[n] \in Carpeta /\ EsRaiz(ns[n], e)
        BY FilasDeNodo DEF Raices
      <3> DEFINE c == [ns[n] EXCEPT !.nombre = nombre]
      <3>2. /\ c \in Carpeta /\ c.nombre = nombre
            /\ c.compania = ns[n].compania /\ c.tipo = ns[n].tipo /\ c.padre = ns[n].padre
        BY <3>1 DEF Carpeta
      <3> HIDE DEF c
      <3>3. c # NINGUNO
        BY <3>2, FilasAparte
      <3>4. EsRaiz(c, e) /\ \A f \in Companias \ {e} : ~EsRaiz(c, f) /\ ~EsRaiz(ns[n], f)
        BY <3>1, <3>2 DEF EsRaiz
      <3> QED BY <3>2, <3>3, <3>4 DEF c
    <2>3. /\ DOMAIN ns2 = Nodos /\ DOMAIN ns = Nodos /\ Raices(ns, e) \subseteq Nodos
          /\ \A n \in Nodos \ Raices(ns, e) : ns2[n] = ns[n]
          /\ \A n \in Raices(ns, e) : /\ ns2[n] \in Carpeta /\ ns2[n] # NINGUNO /\ ns2[n].nombre = nombre
                                      /\ EsRaiz(ns2[n], e)
                                      /\ \A f \in Companias \ {e} : ~EsRaiz(ns2[n], f) /\ ~EsRaiz(ns[n], f)
      BY <2>1, <2>2, FilasDeNodo
    <2>4. NodosBien(ns2)
      BY <2>1, <2>3 DEF NodosBien
    <2>5. \A n : n \in Raices(ns2, e) <=> n \in Raices(ns, e)
      BY <2>3 DEF Raices, Existentes, Existe
    <2>6. ASSUME NEW f \in Companias \ {e} PROVE MismasRaices(ns, ns2, f)
      <3>1. \A n : n \in Raices(ns, f) => n \in Nodos \ Raices(ns, e)
        BY <2>3 DEF Raices, Existentes
      <3>2. \A n : n \in Raices(ns2, f) => n \in Nodos \ Raices(ns, e)
        BY <2>3 DEF Raices, Existentes
      <3>3. \A n \in Nodos \ Raices(ns, e) : n \in Raices(ns2, f) <=> n \in Raices(ns, f)
        BY <2>3 DEF Raices, Existentes, Existe
      <3>4. \A n : n \in Raices(ns2, f) <=> n \in Raices(ns, f)
        BY <3>1, <3>2, <3>3
      <3> QED BY <2>3, <3>1, <3>4 DEF MismasRaices
    <2>7. ConSuNombre(ns2, e, nombre)
      BY <1>1, <2>3, <2>5 DEF ConSuNombre
    <2>8. UnaRaiz(ns2)
      <3>1. \A a, b \in Raices(ns2, e) : a = b
        BY <2>5 DEF UnaRaiz
      <3> QED BY <2>6, <3>1, OtrasRaices
    <2> QED BY <2>4, <2>6, <2>7, <2>8 DEF Asegurada
  <1>2. CASE Raices(ns, e) = {}
    <2> DEFINE c == [compania |-> e, tipo |-> "root", padre |-> RAIZ, maquina |-> NINGUNO, nombre |-> nombre]
    <2>1. PICK n \in Siguiente(ns) : ns2 = [ns EXCEPT ![n] = c]
      BY <1>2 DEF RaizAsegurada
    <2>2. /\ c \in Carpeta /\ c.nombre = nombre /\ EsRaiz(c, e)
          /\ \A f \in Companias \ {e} : ~EsRaiz(c, f)
      BY DEF Carpeta, EsRaiz, Tipos
    <2> HIDE DEF c
    <2>3. n \in Nodos /\ n \notin Existentes(ns) /\ c # NINGUNO /\ \A f : n \notin Raices(ns, f)
      BY <2>1, <2>2, FilasDeNodo, FilasAparte
    <2>4. \A f \in Companias \ {e} : MismasRaices(ns, ns2, f)
      BY <2>1, <2>2, <2>3, SinTocarRaices
    <2>5. NodosBien(ns2) /\ ns2[n] = c /\ \A x \in Nodos \ {n} : ns2[x] = ns[x]
      BY <2>1, <2>2, <2>3 DEF NodosBien
    <2>6. Raices(ns2, e) = {n}
      <3>1. DOMAIN ns = Nodos /\ DOMAIN ns2 = Nodos
        BY <2>5 DEF NodosBien
      <3>2. \A x \in Nodos \ {n} : x \notin Raices(ns2, e)
        BY <1>2, <2>5, <3>1 DEF Raices, Existentes, Existe
      <3>3. n \in Raices(ns2, e) /\ \A x \in Raices(ns2, e) : x \in Nodos
        BY <2>2, <2>3, <2>5, <3>1 DEF Raices, Existentes, Existe
      <3> QED BY <3>2, <3>3
    <2>7. ConSuNombre(ns2, e, nombre)
      BY <2>2, <2>5, <2>6 DEF ConSuNombre
    <2>8. UnaRaiz(ns2)
      BY <2>4, <2>6, OtrasRaices
    <2> QED BY <2>4, <2>5, <2>7, <2>8 DEF Asegurada
  <1> QED BY <1>1, <1>2

(* The node of a machine is not a root. *)
LEMMA NodoAseguradoEs ==
  ASSUME NEW ns, NodosBien(ns), UnaRaiz(ns), NEW m \in Maquinas, NEW e \in Companias, NEW carpeta \in Nodos \cup {NINGUNO},
         empresa[e].nombre \in Nombres, NEW ns2 \in NodoAsegurado(ns, m, e, carpeta)
  PROVE  Asegurada(ns, ns2, e, empresa[e].nombre)
  <1> DEFINE padre(r) == IF carpeta = NINGUNO THEN CHOOSE x \in Raices(r, e) : TRUE ELSE carpeta
             c(r) == [compania |-> e, tipo |-> "machine", maquina |-> m, nombre |-> NINGUNO, padre |-> padre(r)]
  <1>1. PICK r \in RaizAsegurada(ns, e, empresa[e].nombre) :
            ns2 = r \/ \E n \in Siguiente(r) : ns2 = [r EXCEPT ![n] = c(r)]
    BY DEF NodoAsegurado
  <1>2. Asegurada(ns, r, e, empresa[e].nombre)
    BY RaizAseguradaEs
  <1>3. CASE ns2 = r
    BY <1>2, <1>3
  <1>4. CASE \E n \in Siguiente(r) : ns2 = [r EXCEPT ![n] = c(r)]
    <2>1. PICK n \in Siguiente(r) : ns2 = [r EXCEPT ![n] = c(r)]
      BY <1>4
    <2>2. Raices(r, e) # {} /\ Raices(r, e) \subseteq Nodos /\ NodosBien(r)
      BY <1>2, FilasDeNodo DEF Asegurada, ConSuNombre
    <2>3. padre(r) \in Nodos
      BY <2>2
    <2> HIDE DEF padre
    <2>4. c(r) \in Carpeta /\ \A f : ~EsRaiz(c(r), f)
      BY <2>3 DEF Carpeta, EsRaiz, Tipos
    <2> HIDE DEF c
    <2>5. n \in Nodos /\ \A f : n \notin Raices(r, f)
      BY <2>2, FilasDeNodo
    <2>6. NodosBien(ns2) /\ \A f \in Companias : MismasRaices(r, ns2, f)
      BY <2>1, <2>2, <2>4, <2>5, SinTocarRaices
    <2> QED BY <1>2, <2>6 DEF Asegurada, ConSuNombre, UnaRaiz, MismasRaices
  <1> QED BY <1>1, <1>3, <1>4

(* The steps of the tree.  Either the root of a company is made sure of,   *)
(* or the roots stay as they were.                                         *)
LEMMA FilasDelArbol ==
  ASSUME InvArbol
  PROVE  /\ DOMAIN empresa = Companias /\ DOMAIN maquina = Maquinas
         /\ \A e \in Companias : Existe(empresa, e) => /\ empresa[e] \in FilaDeEmpresa
                                                       /\ empresa[e].nombre \in Nombres
         /\ \A m \in Maquinas : Existe(maquina, m) => /\ maquina[m] \in FilaDeMaquina
                                                      /\ maquina[m].empresa \in Companias
  BY DEF InvArbol, Existe, FilaDeEmpresa, FilaDeMaquina

LEMMA EmpresaEscrita ==
  ASSUME InvArbol, NEW e \in Companias, NEW nombre \in Nombres, NEW activa \in BOOLEAN,
         empresa' = [empresa EXCEPT ![e] = [nombre |-> nombre, activa |-> activa]],
         nodo' \in IF activa THEN RaizAsegurada(nodo, e, nombre) ELSE {nodo} \cup RaizAsegurada(nodo, e, nombre),
         maquina' = maquina
  PROVE  InvArbol'
  <1> DEFINE fila == [nombre |-> nombre, activa |-> activa]
  <1>1. fila \in FilaDeEmpresa /\ fila.nombre = nombre /\ fila.activa = activa /\ fila # NINGUNO
    BY FilasAparte DEF FilaDeEmpresa
  <1> HIDE DEF fila
  <1>2. /\ empresa' \in [Companias -> FilaDeEmpresa \cup {NINGUNO}] /\ empresa'[e] = fila
        /\ \A f \in Companias \ {e} : empresa'[f] = empresa[f]
    BY <1>1 DEF InvArbol, fila
  <1>3. \A m \in Maquinas : Existe(maquina', m) => Existe(empresa', maquina'[m].empresa)
    BY <1>1, <1>2, FilasDelArbol DEF InvArbol, Existe
  <1>4. ASSUME Asegurada(nodo, nodo', e, nombre) PROVE InvArbol'
    <2>1. \A f \in Companias : Existe(empresa', f) /\ empresa'[f].activa => ConSuNombre(nodo', f, empresa'[f].nombre)
      BY <1>1, <1>2, <1>4 DEF Asegurada, InvArbol, Existe, ConSuNombre, MismasRaices
    <2> QED BY <1>2, <1>3, <1>4, <2>1 DEF InvArbol, Asegurada
  <1>5. CASE nodo' = nodo /\ ~activa
    <2>1. \A f \in Companias : Existe(empresa', f) /\ empresa'[f].activa => ConSuNombre(nodo', f, empresa'[f].nombre)
      BY <1>1, <1>2, <1>5 DEF InvArbol, Existe
    <2> QED BY <1>2, <1>3, <1>5, <2>1 DEF InvArbol
  <1>6. NodosBien(nodo) /\ UnaRaiz(nodo)
    BY DEF InvArbol
  <1> QED BY <1>4, <1>5, <1>6, RaizAseguradaEs

(* A folder form: the roots stay, for one more would be two.               *)
LEMMA CarpetaEscrita ==
  ASSUME InvArbol, NEW n \in Nodos, NEW c \in Carpeta \cup {NINGUNO}, \A e \in Companias : n \notin Raices(nodo, e),
         nodo' = [nodo EXCEPT ![n] = c], RestriccionesDeArbol(nodo'), UNCHANGED <<empresa, maquina>>
  PROVE  InvArbol'
  <1>1. NodosBien(nodo') /\ \A x \in Nodos \ {n} : nodo'[x] = nodo[x]
    BY DEF InvArbol, NodosBien
  <1>2. UnaRaiz(nodo')
    BY DEF RestriccionesDeArbol, UnaRaiz, Raices
  <1>3. ASSUME NEW e \in Companias, ConSuNombre(nodo, e, empresa[e].nombre)
        PROVE  ConSuNombre(nodo', e, empresa[e].nombre)
    <2>1. PICK r : r \in Raices(nodo, e)
      BY <1>3 DEF ConSuNombre
    <2>2. r \in Nodos \ {n} /\ nodo[r].nombre = empresa[e].nombre
      BY <1>3, <2>1, FilasDeNodo DEF ConSuNombre, InvArbol
    <2>3. r \in Raices(nodo', e) /\ nodo'[r].nombre = empresa[e].nombre
      BY <1>1, <2>1, <2>2 DEF Raices, Existentes, Existe, NodosBien
    <2> QED BY <1>2, <2>3 DEF UnaRaiz, ConSuNombre
  <1> QED BY <1>1, <1>2, <1>3 DEF InvArbol

LEMMA SinProteger ==
  ASSUME InvArbol, NEW n \in Nodos, ~Existe(nodo, n) \/ ~Protegida(n)
  PROVE  \A e : n \notin Raices(nodo, e)
  BY DEF Protegida, Raices, Existentes, EsRaiz

LEMMA ArbolPasoArbol ==
  ASSUME InvArbol, NextArbol
  PROVE  InvArbol'
  <1>1. ASSUME NEW e \in Companias, NEW nombre \in Nombres, NEW activa \in BOOLEAN,
               CrearEmpresa(e, nombre, activa) \/ EditarEmpresa(e, nombre, activa)
        PROVE  InvArbol'
    <2>1. /\ empresa' = [empresa EXCEPT ![e] = [nombre |-> nombre, activa |-> activa]] /\ maquina' = maquina
          /\ nodo' \in IF activa THEN RaizAsegurada(nodo, e, nombre) ELSE {nodo} \cup RaizAsegurada(nodo, e, nombre)
      BY <1>1 DEF CrearEmpresa, EditarEmpresa, SoloArbol
    <2> QED BY <2>1, EmpresaEscrita
  <1>2. ASSUME NEW n \in Nodos, NEW c \in CarpetasPedidas, CrearCarpeta(n, c) \/ EditarCarpeta(n, c)
        PROVE  InvArbol'
    <2>1. /\ nodo' = [nodo EXCEPT ![n] = c] /\ RestriccionesDeArbol(nodo') /\ UNCHANGED <<empresa, maquina>>
          /\ n \in Siguiente(nodo) \/ ~Protegida(n)
      BY <1>2 DEF CrearCarpeta, EditarCarpeta, SoloArbol
    <2>2. n \in Siguiente(nodo) => ~Existe(nodo, n)
      BY DEF Siguiente, Existentes
    <2> QED BY <2>1, <2>2, SinProteger, CarpetaEscrita, FormasDeCarpeta
  <1>3. ASSUME NEW n \in Nodos, BorrarCarpeta(n) PROVE InvArbol'
    <2>1. nodo' = [nodo EXCEPT ![n] = NINGUNO] /\ ~Protegida(n) /\ UNCHANGED <<empresa, maquina>>
      BY <1>3 DEF BorrarCarpeta, SoloArbol
    <2>2. NodosBien(nodo') /\ \A e \in Companias : MismasRaices(nodo, nodo', e)
      BY <2>1, SinProteger, SinTocarRaices DEF InvArbol
    <2>3. UnaRaiz(nodo')
      BY <2>2 DEF InvArbol, UnaRaiz, MismasRaices
    <2>4. \A e \in Companias : ConSuNombre(nodo, e, empresa[e].nombre) => ConSuNombre(nodo', e, empresa[e].nombre)
      BY <2>2 DEF ConSuNombre, MismasRaices
    <2> QED BY <2>1, <2>2, <2>3, <2>4 DEF InvArbol
  <1>4. ASSUME NEW m \in Maquinas, NEW e \in Companias, NEW activa \in BOOLEAN, EditarMaquina(m, e, activa)
        PROVE  InvArbol'
    <2> DEFINE fila == [empresa |-> e, activa |-> activa]
    <2>1. fila \in FilaDeMaquina /\ fila.empresa = e
      BY DEF FilaDeMaquina
    <2>2. maquina' = [maquina EXCEPT ![m] = fila] /\ UNCHANGED <<empresa, nodo>> /\ Existe(empresa, e)
      BY <1>4 DEF EditarMaquina
    <2> HIDE DEF fila
    <2>3. /\ maquina' \in [Maquinas -> FilaDeMaquina \cup {NINGUNO}]
          /\ \A x \in Maquinas : Existe(maquina', x) => Existe(empresa, maquina'[x].empresa)
      BY <2>1, <2>2 DEF InvArbol, Existe
    <2> QED BY <2>2, <2>3 DEF InvArbol
  <1> QED BY <1>1, <1>2, <1>3, <1>4 DEF NextArbol

(* A machine is written, and its node made sure of. *)
LEMMA MaquinaEscrita ==
  ASSUME InvArbol, NEW m \in Maquinas, NEW e \in Companias, NEW carpeta \in Nodos \cup {NINGUNO}, Existe(empresa, e),
         NEW fila \in FilaDeMaquina, fila.empresa = e, maquina' = [maquina EXCEPT ![m] = fila],
         nodo' \in NodoAsegurado(nodo, m, e, carpeta), empresa' = empresa
  PROVE  InvArbol'
  <1>1. Asegurada(nodo, nodo', e, empresa[e].nombre)
    BY FilasDelArbol, NodoAseguradoEs DEF InvArbol
  <1>2. /\ maquina' \in [Maquinas -> FilaDeMaquina \cup {NINGUNO}]
        /\ \A x \in Maquinas : Existe(maquina', x) => Existe(empresa, maquina'[x].empresa)
    BY DEF InvArbol, Existe
  <1>3. \A f \in Companias : Existe(empresa, f) /\ empresa[f].activa => ConSuNombre(nodo', f, empresa[f].nombre)
    BY <1>1 DEF Asegurada, InvArbol, ConSuNombre, MismasRaices
  <1> QED BY <1>1, <1>2, <1>3 DEF Asegurada, InvArbol

LEMMA MaquinaConActiva ==
  ASSUME InvArbol, NEW m \in Maquinas, Existe(maquina, m), NEW b \in BOOLEAN
  PROVE  LET fila == [maquina[m] EXCEPT !.activa = b] IN fila \in FilaDeMaquina /\ fila.empresa = maquina[m].empresa
  <1>1. maquina[m] \in FilaDeMaquina
    BY FilasDelArbol
  <1> QED BY <1>1 DEF FilaDeMaquina

LEMMA ArbolPasoMaquinas ==
  ASSUME InvArbol, NextMaquinas
  PROVE  InvArbol'
  <1>1. ASSUME NEW m \in Maquinas, NEW e \in Companias, NEW c \in Nodos \cup {NINGUNO}, CrearMaquina(m, e, c)
        PROVE  InvArbol'
    <2> DEFINE fila == [empresa |-> e, activa |-> TRUE]
    <2>1. fila \in FilaDeMaquina /\ fila.empresa = e
      BY DEF FilaDeMaquina
    <2>2. maquina' = [maquina EXCEPT ![m] = fila] /\ nodo' \in NodoAsegurado(nodo, m, e, c) /\ empresa' = empresa
          /\ Existe(empresa, e)
      BY <1>1 DEF CrearMaquina
    <2> HIDE DEF fila
    <2> QED BY <2>1, <2>2, MaquinaEscrita
  <1>2. ASSUME NEW m \in Maquinas, ReactivarMaquina(m) PROVE InvArbol'
    <2> DEFINE fila == [maquina[m] EXCEPT !.activa = TRUE]
               e == maquina[m].empresa
    <2>1. /\ Existe(maquina, m) /\ maquina' = [maquina EXCEPT ![m] = fila] /\ empresa' = empresa
          /\ nodo' \in NodoAsegurado(nodo, m, e, NINGUNO)
      BY <1>2 DEF ReactivarMaquina
    <2>2. fila \in FilaDeMaquina /\ fila.empresa = e /\ e \in Companias /\ Existe(empresa, e)
      BY <2>1, MaquinaConActiva, FilasDelArbol DEF InvArbol
    <2> HIDE DEF fila, e
    <2> QED BY <2>1, <2>2, MaquinaEscrita
  <1>3. ASSUME NEW m \in Maquinas, DesactivarMaquina(m) PROVE InvArbol'
    <2> DEFINE fila == [maquina[m] EXCEPT !.activa = FALSE]
    <2>1. Existe(maquina, m) /\ maquina' = [maquina EXCEPT ![m] = fila] /\ UNCHANGED <<empresa, nodo>>
      BY <1>3 DEF DesactivarMaquina
    <2>2. fila \in FilaDeMaquina /\ fila.empresa = maquina[m].empresa
      BY <2>1, MaquinaConActiva
    <2> HIDE DEF fila
    <2>3. /\ maquina' \in [Maquinas -> FilaDeMaquina \cup {NINGUNO}]
          /\ \A x \in Maquinas : Existe(maquina', x) => Existe(empresa, maquina'[x].empresa)
      BY <2>1, <2>2 DEF InvArbol, Existe
    <2> QED BY <2>1, <2>3 DEF InvArbol
  <1> QED BY <1>1, <1>2, <1>3 DEF NextMaquinas

LEMMA ArbolPaso ==
  ASSUME InvArbol, [NextActivos]_varsActivos
  PROVE  InvArbol'
  <1>1. CASE UNCHANGED <<empresa, nodo, maquina>>
    BY <1>1 DEF InvArbol
  <1>2. ASSUME NEW s \in Muestras, NEW m \in Maquinas, NEW e \in Companias, NEW p \in Puntos \cup {NINGUNO},
               RecibirConPlaca(s, m, e, p)
        PROVE  InvArbol'
    <2> DEFINE fila == IF Existe(maquina, m) THEN maquina[m] ELSE [empresa |-> e, activa |-> TRUE]
    <2>1. /\ maquina' = [maquina EXCEPT ![m] = fila] /\ empresa' = empresa /\ Existe(empresa, e)
          /\ nodo' \in NodoAsegurado(nodo, m, e, NINGUNO)
      BY <1>2 DEF RecibirConPlaca
    <2>2. fila \in FilaDeMaquina /\ fila.empresa = e
      BY <1>2, FilasDelArbol DEF RecibirConPlaca, FilaDeMaquina
    <2> HIDE DEF fila
    <2> QED BY <2>1, <2>2, MaquinaEscrita
  <1>3. CASE Escribir \/ Leer
    BY <1>1, <1>3 DEF Escribir, Leer, Terreno
  <1>4. CASE NextPuntos
    BY <1>1, <1>2, <1>4 DEF NextPuntos, CrearPunto, EditarPunto, ReactivarPunto, RecibirConPunto, RecibirSinEquipo,
                            BorrarMuestra, Terreno
  <1>5. CASE UNCHANGED varsActivos
    BY <1>1, <1>5 DEF varsActivos
  <1> QED BY <1>3, <1>4, <1>5, ArbolPasoArbol, ArbolPasoMaquinas DEF NextActivos

LEMMA ArbolInicio ==
  ASSUME InitActivos
  PROVE  InvArbol
  <1>1. maquina = [m \in Maquinas |-> NINGUNO]
    BY DEF InitActivos
  <1>2. CASE foco = "arbol"
    <2>1. empresa = [e \in Companias |-> NINGUNO] /\ nodo = [n \in Nodos |-> NINGUNO]
      BY <1>2 DEF InitActivos
    <2> QED BY <1>1, <2>1 DEF InvArbol, Existe, NodosBien, UnaRaiz, Raices, Existentes
  <1>3. CASE foco # "arbol"
    <2> DEFINE e1 == CHOOSE e \in Companias : TRUE
               n1 == CHOOSE n \in Nodos : TRUE
               nombre1 == CHOOSE n \in Nombres : TRUE
               fila == [nombre |-> nombre1, activa |-> TRUE]
               raiz == [compania |-> e1, tipo |-> "root", padre |-> RAIZ, maquina |-> NINGUNO, nombre |-> nombre1]
    <2>1. /\ empresa = [e \in Companias |-> IF e = e1 THEN fila ELSE NINGUNO]
          /\ nodo = [n \in Nodos |-> IF n = n1 THEN raiz ELSE NINGUNO]
      BY <1>3 DEF InitActivos
    <2>2. e1 \in Companias /\ n1 \in Nodos /\ nombre1 \in Nombres
      BY HayFilas
    <2> HIDE DEF e1, n1, nombre1
    <2>3. fila \in FilaDeEmpresa /\ fila.nombre = nombre1 /\ fila # NINGUNO
      <3>1. [nombre |-> nombre1, activa |-> TRUE] \in FilaDeEmpresa
        BY <2>2 DEF FilaDeEmpresa
      <3> QED BY <3>1, FilasAparte
    <2>4. raiz \in Carpeta /\ raiz.nombre = nombre1 /\ EsRaiz(raiz, e1) /\ \A e : EsRaiz(raiz, e) => e = e1
      BY <2>2 DEF Carpeta, EsRaiz, Tipos
    <2> HIDE DEF fila, raiz
    <2>5. NodosBien(nodo) /\ empresa \in [Companias -> FilaDeEmpresa \cup {NINGUNO}]
      BY <2>1, <2>3, <2>4 DEF NodosBien
    <2>6. Raices(nodo, e1) = {n1} /\ nodo[n1] = raiz /\ \A e : \A x \in Raices(nodo, e) : x = n1
      BY <2>1, <2>2, <2>4, FilasAparte DEF Raices, Existentes, Existe
    <2>7. \A e \in Companias : Existe(empresa, e) => e = e1 /\ empresa[e] = fila
      BY <2>1 DEF Existe
    <2> QED BY <1>1, <2>3, <2>4, <2>5, <2>6, <2>7 DEF InvArbol, UnaRaiz, ConSuNombre, Existe
  <1> QED BY <1>2, <1>3

-----------------------------------------------------------------------------
(* Every active company has exactly one root with its name, whatever the   *)
(* folder forms write and whichever company a machine is given             *)
(* (ensure_company_root, ensure_machine_tree_node, FolderViewSet).         *)
THEOREM RaizSiempreFiel == SpecActivos => []RaizFiel
  <1>1. ASSUME InvArbol PROVE RaizFiel
    <2> SUFFICES ASSUME NEW e \in Companias, Existe(empresa, e), empresa[e].activa
                 PROVE  Cardinality(Raices(nodo, e)) = 1 /\ \A n \in Raices(nodo, e) : nodo[n].nombre = empresa[e].nombre
      BY <1>1, FilasDelArbol DEF RaizFiel, Existentes
    <2>1. ConSuNombre(nodo, e, empresa[e].nombre)
      BY <1>1 DEF InvArbol
    <2>2. PICK r : r \in Raices(nodo, e)
      BY <2>1 DEF ConSuNombre
    <2>3. \A n \in Raices(nodo, e) : n = r
      BY <1>1, <2>2 DEF InvArbol, UnaRaiz
    <2>4. Raices(nodo, e) = {r}
      BY <2>2, <2>3
    <2> QED BY <2>1, <2>4, FS_Singleton DEF ConSuNombre
  <1> QED BY <1>1, ArbolInicio, ArbolPaso, PTL DEF SpecActivos
-----------------------------------------------------------------------------
(* What the two invariants leave out of the types: the points that moved.  *)
TrasladosBien == trasladados \subseteq Puntos /\ foco \in Focos

LEMMA TrasladosPaso == TrasladosBien /\ [NextActivos]_varsActivos => TrasladosBien'
  <1> SUFFICES ASSUME TrasladosBien, [NextActivos]_varsActivos PROVE TrasladosBien'
    OBVIOUS
  <1> USE DEF TrasladosBien
  <1>1. CASE Escribir
    BY <1>1 DEF Escribir, Terreno
  <1>2. CASE NextMaquinas
    BY <1>2 DEF NextMaquinas, CrearMaquina, DesactivarMaquina, ReactivarMaquina, NoCambiaPlanta
  <1>3. CASE NextArbol
    BY <1>3 DEF NextArbol, CrearEmpresa, EditarEmpresa, CrearCarpeta, EditarCarpeta, BorrarCarpeta,
                EditarMaquina, SoloArbol, NoCambiaPlanta
  <1>4. CASE NextPuntos
    BY <1>4 DEF NextPuntos, CrearPunto, EditarPunto, ReactivarPunto, RecibirConPunto, RecibirConPlaca,
                RecibirSinEquipo, BorrarMuestra, Terreno
  <1>5. CASE Leer
    BY <1>5 DEF Leer, Terreno
  <1>6. CASE UNCHANGED varsActivos
    BY <1>6 DEF varsActivos
  <1> QED BY <1>1, <1>2, <1>3, <1>4, <1>5, <1>6 DEF NextActivos

(* The rows of the tree, the machines, the points and the samples keep     *)
(* their forms through every request.                                      *)
THEOREM ActivosTipados == SpecActivos => []TiposActivos
  <1>1. InitActivos => TrasladosBien
    BY DEF InitActivos, TrasladosBien
  <1>2. InvActivos /\ InvArbol /\ TrasladosBien => TiposActivos
    <2> SUFFICES ASSUME InvActivos, InvArbol, TrasladosBien
                 PROVE  TiposActivos
      OBVIOUS
    <2>1. ASSUME NEW s \in Muestras, NEW i \in DOMAIN asignaciones[s]
          PROVE  asignaciones[s][i] \in [punto : Puntos, activa : BOOLEAN]
      <3>1. asignaciones[s] \in Seq(Asignado)
        BY DEF InvActivos, Tablas
      <3> QED BY <3>1, HistoriaTipada DEF Asignado
    <2>2. /\ punto \in [Puntos -> FilaDePunto \cup {NINGUNO}]
          /\ equipo \in [Muestras -> Maquinas \cup {NINGUNO, AUSENTE}]
      BY DEF InvActivos, Tablas
    <2>3. /\ empresa \in [Companias -> FilaDeEmpresa \cup {NINGUNO}]
          /\ nodo \in [Nodos -> Carpeta \cup {NINGUNO}]
          /\ maquina \in [Maquinas -> FilaDeMaquina \cup {NINGUNO}]
      BY DEF InvArbol, NodosBien
    <2> QED BY <2>1, <2>2, <2>3 DEF TiposActivos, TrasladosBien
  <1>3. InvActivos /\ [NextActivos]_varsActivos => InvActivos'
    BY ActivosPaso
  <1>4. InvArbol /\ [NextActivos]_varsActivos => InvArbol'
    BY ArbolPaso
  <1> QED BY <1>1, <1>2, <1>3, <1>4, ActivosInicio, ArbolInicio, TrasladosPaso, PTL DEF SpecActivos

=============================================================================
