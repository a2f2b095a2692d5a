--------------------------- MODULE Limites_proofs ---------------------------
(***************************************************************************)
(* Proofs about the tables of limits and catalogues, for any tests, keys,  *)
(* codes, editions, requests and number of versions: a save repeated with  *)
(* its key is answered with one version (Limites), a leaf is judged with   *)
(* its own rule (Contrato), the current edition can be used and a scale    *)
(* keeps its order (Catalogos).                                            *)
(***************************************************************************)
EXTENDS Limites, Contrato, Catalogos, FiniteSetTheorems, WellFoundedInduction, TLAPS

-----------------------------------------------------------------------------
(* The greatest of a bounded set of numbers exists: what order_by(...).     *)
(* first() returns.                                                         *)
Menor == {p \in Nat \X Nat : p[1] < p[2]}

LEMMA MenorBienFundada == IsWellFoundedOn(Menor, Nat)
  BY NatLessThanWellFounded DEF OpToRel, Menor, IsWellFoundedOn

LEMMA HayMinimo ==
  ASSUME NEW T \in SUBSET Nat, T # {}
  PROVE  \E x \in T : \A y \in T : x <= y
  <1>1. PICK x \in T : \A y \in T : ~(<<y, x>> \in Menor)
    BY MenorBienFundada, WFMin
  <1>2. \A y \in T : x <= y
    <2> TAKE y \in T
    <2>1. x \in Nat /\ y \in Nat /\ <<y, x>> \in Nat \X Nat
      OBVIOUS
    <2>2. ~(y < x)
      BY <1>1, <2>1 DEF Menor
    <2> QED BY <2>1, <2>2
  <1> QED BY <1>2

LEMMA HayMaximo ==
  ASSUME NEW T \in SUBSET Nat, T # {}, NEW n \in Nat, \A x \in T : x <= n
  PROVE  \E x \in T : \A y \in T : y <= x
  <1> DEFINE D == {n - x : x \in T}
  <1>1. \A x \in T : x \in Nat /\ n - x \in Nat
    OBVIOUS
  <1>2. D \in SUBSET Nat /\ D # {}
    BY <1>1
  <1>3. PICK d \in D : \A e \in D : d <= e
    BY <1>2, HayMinimo
  <1>4. PICK x \in T : d = n - x
    BY <1>3
  <1>5. \A y \in T : n - y \in D
    OBVIOUS
  <1> HIDE DEF D
  <1> QED BY <1>1, <1>3, <1>4, <1>5

-----------------------------------------------------------------------------
(* The invariant: types; a version has at most the number of its row, and  *)
(* so has what a request read; a key is of one row, and whoever used it    *)
(* was answered with that row.                                             *)
Numerada ==
    /\ \A v \in Ids : fuentes[v].version <= v
    /\ \A e \in Editores : Abierta(e) => peticiones[e].ultima <= Len(fuentes)

ClaveDeUnaVersion ==
    \A v, w \in Ids : fuentes[v].clave = fuentes[w].clave /\ fuentes[v].clave # VACIO => v = w

RespondidaConLaFila == \A k \in Claves : respuestas[k] \subseteq ConClave(k)

InvLimites == TiposLimites /\ Numerada /\ ClaveDeUnaVersion /\ RespondidaConLaFila

LEMMA FilasDeVersiones ==
  ASSUME NEW s \in Seq(Fuente)
  PROVE  DOMAIN s = 1..Len(s) /\ Len(s) \in Nat /\ \A v \in DOMAIN s : s[v] \in Fuente
  OBVIOUS

LEMMA VersionesConocidas ==
  ASSUME TiposLimites
  PROVE  /\ Ids = 1..Len(fuentes) /\ Len(fuentes) \in Nat /\ Ids \subseteq Versiones
         /\ Versiones \subseteq Nat /\ VACIO \notin Versiones
         /\ \A v \in Ids : fuentes[v] \in Fuente
  BY FilasDeVersiones, VacioNoEsDato, CotaDeVersiones DEF TiposLimites, Ids, Versiones

(* At most one row has the key, so at most one answer was given with it. *)
LEMMA ClavesUnicas == InvLimites => RespuestaUnica
  <1> SUFFICES ASSUME InvLimites, NEW k \in Claves PROVE Cardinality(respuestas[k]) <= 1
    BY DEF RespuestaUnica
  <1>1. \A v, w \in respuestas[k] : v = w
    BY VacioNoEsDato DEF InvLimites, ClaveDeUnaVersion, RespondidaConLaFila, ConClave
  <1>2. CASE respuestas[k] = {}
    BY <1>2, FS_EmptySet
  <1>3. CASE respuestas[k] # {}
    <2>1. PICK v : respuestas[k] = {v}
      BY <1>1, <1>3
    <2> QED BY <2>1, FS_Singleton
  <1> QED BY <1>2, <1>3

(* The number a new version gets follows the greatest one of its test. *)
LEMMA UltimaAcotada ==
  ASSUME InvLimites, NEW p
  PROVE  Ultima(p) \in Nat /\ Ultima(p) <= Len(fuentes)
         /\ (Ultima(p) = 0 \/ Ultima(p) \in Versiones)
  <1> DEFINE T == {fuentes[v].version : v \in DePrueba(p)}
  <1>1. Ids = 1..Len(fuentes) /\ Len(fuentes) \in Nat /\ \A v \in Ids : fuentes[v] \in Fuente
    BY VersionesConocidas DEF InvLimites
  <1>2. \A v \in DePrueba(p) :
            /\ fuentes[v].version \in Versiones /\ fuentes[v].version \in Nat
            /\ fuentes[v].version <= Len(fuentes)
    BY <1>1, VersionesConocidas DEF InvLimites, Numerada, DePrueba, Fuente
  <1>3. T \in SUBSET Nat /\ \A x \in T : x <= Len(fuentes) /\ x \in Versiones
    BY <1>2
  <1>4. CASE DePrueba(p) = {}
    BY <1>1, <1>4 DEF Ultima
  <1>5. CASE DePrueba(p) # {}
    <2>1. T # {}
      BY <1>5
    <2>2. PICK n \in T : \A x \in T : x <= n
      BY <1>1, <1>3, <2>1, HayMaximo
    <2>3. \A v \in DePrueba(p) : fuentes[v].version <= n
      BY <2>2
    <2>4. Ultima(p) = CHOOSE m \in T : \A v \in DePrueba(p) : fuentes[v].version <= m
      BY <1>5 DEF Ultima
    <2> HIDE DEF T
    <2>5. Ultima(p) \in T
      BY <2>2, <2>3, <2>4
    <2> QED BY <1>3, <2>5
  <1> QED BY <1>4, <1>5

(* The current version is one of the test, active: the last of the         *)
(* greatest number.                                                        *)
LEMMA VigenteConocida ==
  ASSUME InvLimites, NEW p, Vigente(p) # VACIO
  PROVE  Vigente(p) \in Activas(p) /\ Vigente(p) \in Ids
  <1> DEFINE T == {fuentes[v].version : v \in Activas(p)}
  <1>1. Ids = 1..Len(fuentes) /\ Len(fuentes) \in Nat /\ Ids \subseteq Nat
        /\ \A v \in Ids : fuentes[v] \in Fuente
    BY VersionesConocidas DEF InvLimites
  <1>2. Activas(p) \subseteq Ids
    BY DEF Activas, DePrueba
  <1>3. \A v \in Activas(p) : fuentes[v].version \in Nat /\ fuentes[v].version <= Len(fuentes)
    BY <1>1, <1>2, VersionesConocidas DEF InvLimites, Numerada, Fuente
  <1>4. T \in SUBSET Nat /\ \A x \in T : x <= Len(fuentes)
    BY <1>3
  <1>5. Activas(p) # {}
    BY DEF Vigente
  <1>6. PICK n \in T : \A x \in T : x <= n
    <2>1. T # {}
      BY <1>5
    <2> QED BY <1>1, <1>4, <2>1, HayMaximo
  <1> DEFINE U == {v \in Activas(p) : fuentes[v].version = n}
  <1>7. U \in SUBSET Nat /\ U # {} /\ \A v \in U : v <= Len(fuentes)
    BY <1>1, <1>2, <1>6
  <1>8. PICK v \in U : \A w \in U : w <= v
    BY <1>1, <1>7, HayMaximo
  <1>9. v \in Activas(p)
        /\ \A w \in Activas(p) : \/ fuentes[w].version < fuentes[v].version
                                 \/ fuentes[w].version = fuentes[v].version /\ w <= v
    <2>1. v \in Activas(p) /\ fuentes[v].version = n
      BY <1>8
    <2> SUFFICES ASSUME NEW w \in Activas(p), fuentes[w].version # n
                 PROVE  fuentes[w].version < n
      BY <1>8, <2>1
    <2>2. fuentes[w].version \in T
      OBVIOUS
    <2>3. fuentes[w].version <= n
      BY <1>6, <2>2
    <2> QED BY <1>3, <2>1, <2>3
  <1>10. Vigente(p) \in Activas(p)
    BY <1>5, <1>9 DEF Vigente
  <1> QED BY <1>2, <1>10

-----------------------------------------------------------------------------
(* Two ways a request writes: over the rows there are, or one more. *)

(* What every write keeps of the rows, and what it may leave in progress. *)
Conserva(filas) ==
    \A v \in Ids : filas[v].clave = fuentes[v].clave /\ filas[v].version = fuentes[v].version

EnCursoBien(n) ==
    /\ peticiones' \in [Editores -> Peticion \cup {VACIO}]
    /\ \A e \in Editores : peticiones'[e] # VACIO => peticiones'[e].ultima <= n

LEMMA SobreEscrita ==
  ASSUME InvLimites, fuentes' \in Seq(Fuente), DOMAIN fuentes' = Ids, Conserva(fuentes'),
         EnCursoBien(Len(fuentes)), asignacion' \in Asignacion,
         respuestas' \in [Claves -> SUBSET Versiones],
         \A k \in Claves : respuestas'[k] \subseteq respuestas[k] \cup ConClave(k)
  PROVE  InvLimites'
  <1>1. Len(fuentes') = Len(fuentes)
    BY FilasDeVersiones, VersionesConocidas DEF InvLimites
  <1>2. TiposLimites'
    BY <1>1 DEF InvLimites, TiposLimites, EnCursoBien
  <1>3. Numerada'
    BY <1>1 DEF InvLimites, Numerada, EnCursoBien, Conserva, Ids, Abierta
  <1>4. ClaveDeUnaVersion'
    BY DEF InvLimites, ClaveDeUnaVersion, Conserva, Ids
  <1>5. RespondidaConLaFila'
    <2>1. \A k \in Claves : ConClave(k) \subseteq ConClave(k)'
      BY DEF ConClave, Conserva, Ids
    <2> QED BY <2>1 DEF InvLimites, RespondidaConLaFila
  <1> QED BY <1>2, <1>3, <1>4, <1>5 DEF InvLimites

LEMMA UnaMas ==
  ASSUME InvLimites, fuentes' \in Seq(Fuente), Len(fuentes') = Len(fuentes) + 1,
         Len(fuentes) < MaxVersiones, Conserva(fuentes'),
         fuentes'[Len(fuentes) + 1].version <= Len(fuentes) + 1,
         ConClave(fuentes'[Len(fuentes) + 1].clave) = {},
         EnCursoBien(Len(fuentes)), asignacion' = asignacion,
         respuestas' \in [Claves -> SUBSET Versiones],
         \A k \in Claves : \A v \in respuestas'[k] :
             v \in respuestas[k] \/ (v = Len(fuentes) + 1 /\ k = fuentes'[Len(fuentes) + 1].clave)
  PROVE  InvLimites'
  <1> DEFINE n == Len(fuentes) + 1
  <1>1. /\ Ids = 1..Len(fuentes) /\ Len(fuentes) \in Nat /\ DOMAIN fuentes' = 1..n
        /\ Ids' = Ids \cup {n} /\ n \notin Ids /\ n \in Nat
    BY FilasDeVersiones, VersionesConocidas DEF InvLimites, Ids
  <1>2. TiposLimites'
    BY <1>1, CotaDeVersiones DEF InvLimites, TiposLimites, EnCursoBien
  <1>3. Numerada'
    <2>1. \A v \in Ids' : fuentes'[v].version <= v
      BY <1>1 DEF InvLimites, Numerada, Conserva
    <2>2. \A e \in Editores : peticiones'[e] # VACIO =>
              peticiones'[e].ultima \in Nat /\ peticiones'[e].ultima <= Len(fuentes)
      BY CotaDeVersiones, VacioNoEsDato DEF EnCursoBien, Peticion, Versiones
    <2>3. \A e \in Editores : peticiones'[e] # VACIO => peticiones'[e].ultima <= Len(fuentes')
      BY <1>1, <2>2
    <2> QED BY <2>1, <2>3 DEF Numerada, Abierta
  <1>4. ClaveDeUnaVersion'
    <2>1. \A v \in Ids : fuentes'[v].clave = fuentes[v].clave
      BY DEF Conserva
    <2>2. \A v \in Ids : fuentes'[v].clave # VACIO => fuentes'[v].clave # fuentes'[n].clave
      BY <2>1 DEF ConClave
    <2> QED BY <1>1, <2>1, <2>2 DEF InvLimites, ClaveDeUnaVersion
  <1>5. RespondidaConLaFila'
    <2> SUFFICES ASSUME NEW k \in Claves, NEW v \in respuestas'[k] PROVE v \in ConClave(k)'
      BY DEF RespondidaConLaFila
    <2>1. k # VACIO
      BY VacioNoEsDato
    <2>2. CASE v \in respuestas[k]
      BY <1>1, <2>1, <2>2 DEF InvLimites, RespondidaConLaFila, ConClave, Conserva
    <2>3. CASE v = n /\ k = fuentes'[n].clave
      BY <1>1, <2>1, <2>3 DEF ConClave
    <2> QED BY <2>2, <2>3
  <1> QED BY <1>2, <1>3, <1>4, <1>5 DEF InvLimites

(* Deactivating the other versions touches neither keys nor numbers. *)
LEMMA UnaActivaConserva ==
  ASSUME NEW filas \in Seq(Fuente), NEW otras, NEW v
  PROVE  /\ ConUnaActiva(filas, otras, v) \in Seq(Fuente)
         /\ Len(ConUnaActiva(filas, otras, v)) = Len(filas)
         /\ \A w \in DOMAIN filas :
                /\ ConUnaActiva(filas, otras, v)[w].clave = filas[w].clave
                /\ ConUnaActiva(filas, otras, v)[w].version = filas[w].version
  <1> DEFINE g == ConUnaActiva(filas, otras, v)
  <1>1. DOMAIN filas = 1..Len(filas) /\ Len(filas) \in Nat /\ \A w \in DOMAIN filas : filas[w] \in Fuente
    BY FilasDeVersiones
  <1>2. \A w \in DOMAIN filas :
            /\ [filas[w] EXCEPT !.activo = FALSE] \in Fuente
            /\ [filas[w] EXCEPT !.activo = FALSE].clave = filas[w].clave
            /\ [filas[w] EXCEPT !.activo = FALSE].version = filas[w].version
    BY <1>1 DEF Fuente
  <1>3. g = [w \in 1..Len(filas) |-> IF w \in otras \ {v} THEN [filas[w] EXCEPT !.activo = FALSE]
                                     ELSE filas[w]]
    BY <1>1 DEF ConUnaActiva
  <1> HIDE DEF g
  <1>4. g \in Seq(Fuente) /\ Len(g) = Len(filas)
    BY <1>1, <1>2, <1>3
  <1>5. \A w \in DOMAIN filas : g[w].clave = filas[w].clave /\ g[w].version = filas[w].version
    BY <1>1, <1>2, <1>3
  <1> QED BY <1>4, <1>5 DEF g

-----------------------------------------------------------------------------
(* The requests *)

(* A row written over: of a version that does not exist, nothing is. *)
LEMMA FilaSobrescrita ==
  ASSUME InvLimites, NEW v, NEW fila,
         v \in Ids => fila \in Fuente /\ fila.clave = fuentes[v].clave /\ fila.version = fuentes[v].version
  PROVE  /\ [fuentes EXCEPT ![v] = fila] \in Seq(Fuente)
         /\ DOMAIN [fuentes EXCEPT ![v] = fila] = Ids
         /\ Conserva([fuentes EXCEPT ![v] = fila])
  <1>1. Ids = 1..Len(fuentes) /\ Len(fuentes) \in Nat /\ \A w \in Ids : fuentes[w] \in Fuente
    BY VersionesConocidas DEF InvLimites
  <1>2. DOMAIN fuentes = Ids /\ fuentes \in Seq(Fuente)
    BY DEF Ids, InvLimites, TiposLimites
  <1>3. CASE v \in Ids
    <2>1. [fuentes EXCEPT ![v] = fila] \in Seq(Fuente)
      BY <1>1, <1>2, <1>3
    <2> QED BY <1>1, <1>2, <1>3, <2>1 DEF Conserva
  <1>4. CASE v \notin Ids
    <2>1. [fuentes EXCEPT ![v] = fila] = fuentes
      BY <1>1, <1>2, <1>4
    <2> QED BY <1>1, <1>2, <2>1 DEF Conserva
  <1> QED BY <1>3, <1>4

LEMMA CambiarBien ==
  ASSUME InvLimites, NEW v, NEW fila, Cambiar(v, fila),
         v \in Ids => fila \in Fuente /\ fila.clave = fuentes[v].clave /\ fila.version = fuentes[v].version
  PROVE  InvLimites'
  <1>1. EnCursoBien(Len(fuentes))
    BY DEF InvLimites, TiposLimites, Numerada, Abierta, EnCursoBien, Cambiar
  <1> QED BY <1>1, FilaSobrescrita, SobreEscrita DEF Cambiar, InvLimites, TiposLimites

(* What a request that only reads, or only assigns, leaves. *)
LEMMA FilasIguales ==
  ASSUME InvLimites, fuentes' = fuentes, EnCursoBien(Len(fuentes)), asignacion' \in Asignacion,
         respuestas' \in [Claves -> SUBSET Versiones],
         \A k \in Claves : respuestas'[k] \subseteq respuestas[k] \cup ConClave(k)
  PROVE  InvLimites'
  BY SobreEscrita DEF Conserva, Ids, InvLimites, TiposLimites

LEMMA AbrirBien ==
  ASSUME InvLimites, NEW e \in Editores, NEW peticion \in Peticion,
         peticion.ultima <= Len(fuentes), Abrir(e, peticion)
  PROVE  EnCursoBien(Len(fuentes))
  BY DEF InvLimites, TiposLimites, Numerada, Abierta, EnCursoBien, Abrir

LEMMA CerrarBien ==
  ASSUME InvLimites, NEW e \in Editores, Cerrar(e)
  PROVE  EnCursoBien(Len(fuentes))
  BY DEF InvLimites, TiposLimites, Numerada, Abierta, EnCursoBien, Cerrar

LEMMA ResponderBien ==
  ASSUME InvLimites, NEW k \in Claves \cup {VACIO}, NEW v \in Versiones, Responder(k, v)
  PROVE  /\ respuestas' \in [Claves -> SUBSET Versiones]
         /\ \A c \in Claves : \A w \in respuestas'[c] : w \in respuestas[c] \/ (w = v /\ c = k)
  <1>1. respuestas \in [Claves -> SUBSET Versiones]
    BY DEF InvLimites, TiposLimites
  <1>2. CASE k = VACIO
    BY <1>1, <1>2 DEF Responder
  <1>3. CASE k # VACIO
    <2>1. respuestas' = [respuestas EXCEPT ![k] = respuestas[k] \cup {v}]
      BY <1>3 DEF Responder
    <2> QED BY <1>1, <1>3, <2>1
  <1> QED BY <1>2, <1>3

LEMMA Leer ==
  ASSUME InvLimites, NEW e \in Editores,
         \/ \E p \in Pruebas, k \in Claves \cup {VACIO} : LeerConfigurar(e, p, k)
         \/ \E v \in Versiones : LeerActivar(e, v)
  PROVE  InvLimites'
  <1>1. \A p : DePrueba(p) \subseteq Versiones
    BY VersionesConocidas DEF InvLimites, DePrueba
  <1>2. CASE \E p \in Pruebas, k \in Claves \cup {VACIO} : LeerConfigurar(e, p, k)
    <2>1. PICK p \in Pruebas, k \in Claves \cup {VACIO} : LeerConfigurar(e, p, k)
      BY <1>2
    <2> DEFINE r == [op |-> "configurar", prueba |-> p, clave |-> k, fila |-> VACIO,
                     ultima |-> Ultima(p), vistas |-> DePrueba(p)]
    <2>2. r \in Peticion /\ r.ultima <= Len(fuentes)
      BY <1>1, UltimaAcotada DEF Peticion
    <2>3. Abrir(e, r) /\ UNCHANGED <<fuentes, respuestas, asignacion>>
      BY <2>1 DEF LeerConfigurar
    <2> HIDE DEF r
    <2> QED BY <2>2, <2>3, AbrirBien, FilasIguales DEF InvLimites, TiposLimites
  <1>3. CASE \E v \in Versiones : LeerActivar(e, v)
    <2>1. PICK v \in Versiones : LeerActivar(e, v)
      BY <1>3
    <2> DEFINE r == [op |-> "activar", prueba |-> fuentes[v].prueba, clave |-> VACIO, fila |-> v,
                     ultima |-> 0, vistas |-> DePrueba(fuentes[v].prueba)]
    <2>2. v \in Ids /\ fuentes[v].prueba \in Pruebas /\ Len(fuentes) \in Nat
      BY <2>1, VersionesConocidas DEF LeerActivar, InvLimites, Fuente
    <2>3. r \in Peticion /\ r.ultima <= Len(fuentes)
      BY <1>1, <2>2 DEF Peticion
    <2>4. Abrir(e, r) /\ UNCHANGED <<fuentes, respuestas, asignacion>>
      BY <2>1 DEF LeerActivar
    <2> HIDE DEF r
    <2> QED BY <2>3, <2>4, AbrirBien, FilasIguales DEF InvLimites, TiposLimites
  <1> QED BY <1>2, <1>3

LEMMA EscribirActivarBien ==
  ASSUME InvLimites, NEW e \in Editores, EscribirActivar(e)
  PROVE  InvLimites'
  <1> DEFINE v == peticiones[e].fila
             fila == [fuentes[v] EXCEPT !.activo = TRUE, !.publicada = TRUE, !.borrada = FALSE]
             filas == [fuentes EXCEPT ![v] = fila]
  <1>1. filas \in Seq(Fuente) /\ DOMAIN filas = Ids /\ Conserva(filas)
    <2>1. \A w \in Ids : fuentes[w] \in Fuente
      BY VersionesConocidas DEF InvLimites
    <2>2. v \in Ids => fila \in Fuente /\ fila.clave = fuentes[v].clave /\ fila.version = fuentes[v].version
      BY <2>1 DEF Fuente
    <2> HIDE DEF fila
    <2> QED BY <2>2, FilaSobrescrita
  <1>2. PICK otras : fuentes' = ConUnaActiva(filas, otras, v)
    BY DEF EscribirActivar, Publicar
  <1> HIDE DEF filas, fila
  <1>3. fuentes' \in Seq(Fuente) /\ DOMAIN fuentes' = Ids /\ Conserva(fuentes')
    <2>1. fuentes' \in Seq(Fuente) /\ Len(fuentes') = Len(filas)
          /\ \A w \in DOMAIN filas : fuentes'[w].clave = filas[w].clave /\ fuentes'[w].version = filas[w].version
      BY <1>1, <1>2, UnaActivaConserva
    <2> QED BY <1>1, <2>1, FilasDeVersiones DEF Conserva
  <1>4. EnCursoBien(Len(fuentes)) /\ UNCHANGED <<respuestas, asignacion>>
    BY CerrarBien DEF EscribirActivar
  <1> QED BY <1>3, <1>4, SobreEscrita DEF InvLimites, TiposLimites

LEMMA EscribirConfigurarBien ==
  ASSUME InvLimites, NEW e \in Editores, NEW tipo \in {"catalogo", "global"}, NEW publicar \in BOOLEAN,
         EscribirConfigurar(e, tipo, publicar)
  PROVE  InvLimites'
  <1> DEFINE r == peticiones[e]
             n == Len(fuentes) + 1
  <1>1. r \in Peticion /\ r.clave \in Claves \cup {VACIO} /\ r.prueba \in Pruebas
        /\ r.ultima \in Nat /\ r.ultima <= Len(fuentes)
    <2>1. r \in Peticion /\ r.ultima <= Len(fuentes)
      BY DEF EscribirConfigurar, Abierta, InvLimites, TiposLimites, Numerada
    <2>2. Versiones \subseteq Nat
      BY VersionesConocidas DEF InvLimites
    <2>3. r.clave \in Claves \cup {VACIO} /\ r.prueba \in Pruebas /\ r.ultima \in Versiones \cup {0}
      BY <2>1 DEF Peticion
    <2>4. \A x \in Versiones \cup {0} : x \in Nat
      BY <2>2
    <2> QED BY <2>1, <2>3, <2>4
  <1>2. EnCursoBien(Len(fuentes)) /\ asignacion' = asignacion
    BY CerrarBien DEF EscribirConfigurar
  <1>3. CASE ClaveTomada(r.clave)
    <2>1. fuentes' = fuentes /\ \E v \in ConClave(r.clave) : Responder(r.clave, v)
      BY <1>3 DEF EscribirConfigurar
    <2>2. PICK v \in ConClave(r.clave) : Responder(r.clave, v)
      BY <2>1
    <2>3. v \in Versiones
      BY VersionesConocidas DEF ConClave, InvLimites
    <2>4. /\ respuestas' \in [Claves -> SUBSET Versiones]
          /\ \A k \in Claves : respuestas'[k] \subseteq respuestas[k] \cup ConClave(k)
      BY <1>1, <2>2, <2>3, ResponderBien
    <2> QED BY <1>2, <2>1, <2>4, FilasIguales DEF InvLimites, TiposLimites
  <1>4. CASE ~ClaveTomada(r.clave)
    <2> DEFINE fila == [prueba |-> r.prueba, version |-> r.ultima + 1, clave |-> r.clave, tipo |-> tipo,
                        activo |-> TRUE, publicada |-> publicar, borrada |-> FALSE]
               filas == Append(fuentes, fila)
    <2>1. /\ Len(fuentes) < MaxVersiones /\ Responder(r.clave, n)
          /\ Publicar(e, filas, n)
      BY <1>4 DEF EscribirConfigurar
    <2>2. Ids = 1..Len(fuentes) /\ Len(fuentes) \in Nat /\ fuentes \in Seq(Fuente) /\ Ids = DOMAIN fuentes
      BY VersionesConocidas DEF InvLimites, TiposLimites, Ids
    <2>3. fila \in Fuente /\ n \in Versiones
      BY <1>1, <2>1, <2>2, CotaDeVersiones DEF Fuente, Versiones
    <2>4. fila.clave = r.clave /\ fila.version <= n
      BY <1>1, <2>2
    <2> HIDE DEF fila
    <2>5. filas \in Seq(Fuente) /\ Len(filas) = n /\ filas[n] = fila /\ DOMAIN filas = 1..n
          /\ \A w \in Ids : w \in DOMAIN filas /\ filas[w] = fuentes[w]
      BY <2>2, <2>3
    <2>6. PICK otras : fuentes' = ConUnaActiva(filas, otras, n)
      BY <2>1 DEF Publicar
    <2> HIDE DEF filas
    <2>7. fuentes' \in Seq(Fuente) /\ Len(fuentes') = n
          /\ \A w \in DOMAIN filas : fuentes'[w].clave = filas[w].clave /\ fuentes'[w].version = filas[w].version
      BY <2>5, <2>6, UnaActivaConserva
    <2>8. Conserva(fuentes') /\ fuentes'[n].clave = r.clave /\ fuentes'[n].version <= n
      BY <2>2, <2>4, <2>5, <2>7 DEF Conserva
    <2>9. /\ respuestas' \in [Claves -> SUBSET Versiones]
          /\ \A k \in Claves : \A v \in respuestas'[k] : v \in respuestas[k] \/ (v = n /\ k = r.clave)
      BY <1>1, <2>1, <2>3, ResponderBien
    <2>10. ConClave(r.clave) = {}
      BY <1>4 DEF ClaveTomada
    <2> QED BY <1>2, <2>1, <2>7, <2>8, <2>9, <2>10, UnaMas
  <1> QED BY <1>3, <1>4

LEMMA CrearBien ==
  ASSUME InvLimites, NEW p \in Pruebas, NEW tipo \in {"catalogo", "global"}, Crear(p, tipo)
  PROVE  InvLimites'
  <1> DEFINE iguales == {v \in DePrueba(p) : fuentes[v].tipo = tipo}
             n == Len(fuentes) + 1
  <1>1. EnCursoBien(Len(fuentes)) /\ UNCHANGED <<peticiones, respuestas, asignacion>>
    BY DEF InvLimites, TiposLimites, Numerada, Abierta, EnCursoBien, Crear
  <1>2. /\ Ids = 1..Len(fuentes) /\ Len(fuentes) \in Nat /\ fuentes \in Seq(Fuente)
        /\ Ids = DOMAIN fuentes /\ \A w \in Ids : fuentes[w] \in Fuente
    BY VersionesConocidas DEF InvLimites, TiposLimites, Ids
  <1>3. CASE iguales # {}
    <2> DEFINE v == CHOOSE w \in iguales : \A o \in iguales : w <= o
               fila == [fuentes[v] EXCEPT !.activo = TRUE, !.borrada = FALSE]
    <2>1. fuentes' = [fuentes EXCEPT ![v] = fila]
      BY <1>3 DEF Crear
    <2> HIDE DEF v
    <2>2. v \in Ids => fila \in Fuente /\ fila.clave = fuentes[v].clave /\ fila.version = fuentes[v].version
      BY <1>2 DEF Fuente
    <2> HIDE DEF fila
    <2> QED BY <1>1, <2>1, <2>2, FilaSobrescrita, SobreEscrita DEF InvLimites, TiposLimites
  <1>4. CASE iguales = {}
    <2> DEFINE fila == [prueba |-> p, version |-> 1, clave |-> VACIO, tipo |-> tipo, activo |-> TRUE,
                        publicada |-> FALSE, borrada |-> FALSE]
    <2>1. Len(fuentes) < MaxVersiones /\ fuentes' = Append(fuentes, fila)
      BY <1>4 DEF Crear
    <2>2. fila \in Fuente /\ fila.clave = VACIO /\ fila.version = 1
      BY <1>2, <2>1, CotaDeVersiones DEF Fuente, Versiones
    <2> HIDE DEF fila
    <2>3. fuentes' \in Seq(Fuente) /\ Len(fuentes') = n /\ fuentes'[n] = fila
          /\ \A w \in Ids : fuentes'[w] = fuentes[w]
      BY <1>2, <2>1, <2>2
    <2>4. Conserva(fuentes') /\ fuentes'[n].version <= n /\ fuentes'[n].clave = VACIO
      BY <1>2, <2>2, <2>3 DEF Conserva
    <2>5. ConClave(VACIO) = {}
      BY DEF ConClave
    <2> QED BY <1>1, <2>1, <2>3, <2>4, <2>5, UnaMas DEF InvLimites, TiposLimites
  <1> QED BY <1>3, <1>4

(* DELETE, restore, deactivate, PATCH and the reconciliation. *)
LEMMA EditarBien ==
  ASSUME InvLimites, NEW v, NEW tipo \in {"catalogo", "global"}, NEW activo \in BOOLEAN, NEW publicada \in BOOLEAN,
         Editar(v, tipo, activo, publicada)
  PROVE  InvLimites'
  <1> DEFINE fila == [fuentes[v] EXCEPT !.tipo = tipo, !.activo = activo, !.publicada = publicada]
  <1>1. Cambiar(v, fila) /\ fuentes[v] \in Fuente
    BY VersionesConocidas DEF Editar, InvLimites
  <1>2. fila \in Fuente /\ fila.clave = fuentes[v].clave /\ fila.version = fuentes[v].version
    BY <1>1 DEF Fuente
  <1> HIDE DEF fila
  <1> QED BY <1>1, <1>2, CambiarBien

LEMMA MarcarBien ==
  ASSUME InvLimites, NEW v, Desactivar(v) \/ Destruir(v) \/ Restaurar(v)
  PROVE  InvLimites'
  <1>1. fuentes[v] \in Fuente
    BY VersionesConocidas DEF Desactivar, Destruir, Restaurar, InvLimites
  <1>2. /\ \A b \in BOOLEAN : LET f == [fuentes[v] EXCEPT !.publicada = b]
                              IN f \in Fuente /\ f.clave = fuentes[v].clave /\ f.version = fuentes[v].version
        /\ \A b, c \in BOOLEAN : LET f == [fuentes[v] EXCEPT !.activo = b, !.borrada = c]
                                 IN f \in Fuente /\ f.clave = fuentes[v].clave /\ f.version = fuentes[v].version
    BY <1>1 DEF Fuente
  <1>3. CASE Desactivar(v)
    BY <1>2, <1>3, CambiarBien DEF Desactivar
  <1>4. CASE Destruir(v)
    BY <1>2, <1>4, CambiarBien DEF Destruir
  <1>5. CASE Restaurar(v)
    BY <1>2, <1>5, CambiarBien DEF Restaurar
  <1> QED BY <1>3, <1>4, <1>5

LEMMA ReconciliarBien ==
  ASSUME InvLimites, NEW p, Reconciliar(p)
  PROVE  InvLimites'
  <1> DEFINE fila == [fuentes[Vigente(p)] EXCEPT !.publicada = TRUE]
  <1>1. Cambiar(Vigente(p), fila) /\ fuentes[Vigente(p)] \in Fuente
    BY VersionesConocidas, VigenteConocida DEF Reconciliar, InvLimites
  <1>2. fila \in Fuente /\ fila.clave = fuentes[Vigente(p)].clave /\ fila.version = fuentes[Vigente(p)].version
    BY <1>1 DEF Fuente
  <1> HIDE DEF fila
  <1> QED BY <1>1, <1>2, CambiarBien

LEMMA RepetirBien ==
  ASSUME InvLimites, NEW p, NEW k \in Claves, Repetir(p, k)
  PROVE  InvLimites'
  <1>1. PICK v \in ConClave(k) : Responder(k, v)
    BY DEF Repetir
  <1>2. v \in Versiones
    BY VersionesConocidas DEF ConClave, InvLimites
  <1>3. /\ respuestas' \in [Claves -> SUBSET Versiones]
        /\ \A c \in Claves : respuestas'[c] \subseteq respuestas[c] \cup ConClave(c)
    BY <1>1, <1>2, ResponderBien
  <1>4. EnCursoBien(Len(fuentes)) /\ UNCHANGED <<fuentes, asignacion>>
    BY DEF InvLimites, TiposLimites, Numerada, Abierta, EnCursoBien, Repetir
  <1> QED BY <1>3, <1>4, FilasIguales DEF InvLimites, TiposLimites

(* The assignment is pinned to a version there is. *)
LEMMA AsignarBien ==
  ASSUME InvLimites, NEW a \in Asignacion, Asignar(a)
  PROVE  InvLimites'
  <1>1. EnCursoBien(Len(fuentes)) /\ UNCHANGED <<fuentes, respuestas>>
    BY DEF InvLimites, TiposLimites, Numerada, Abierta, EnCursoBien, Asignar
  <1> QED BY <1>1, FilasIguales DEF Asignar, InvLimites, TiposLimites

LEMMA AsignacionBien ==
  ASSUME InvLimites,
         \/ \E v, c \in Ids \cup {VACIO} : AsignarPorLote(v, c)
         \/ \E v, c \in Ids \cup {VACIO}, nula, automatico \in BOOLEAN : EditarAsignacion(v, nula, c, automatico)
         \/ QuitarLimites
         \/ ReconciliarAsignacion
  PROVE  InvLimites'
  <1> DEFINE VersionesOVacio == Versiones \cup {VACIO}
  <1>1. /\ asignacion \in Asignacion
        /\ Ids \subseteq Versiones /\ Vigente(asignacion.prueba) \in VersionesOVacio
    BY VersionesConocidas, VigenteConocida DEF InvLimites, TiposLimites
  <1>2. /\ asignacion.fuente \in VersionesOVacio /\ asignacion.criterio \in VersionesOVacio
        /\ VACIO \in VersionesOVacio
        /\ \A b \in BOOLEAN, f, c \in VersionesOVacio :
               [asignacion EXCEPT !.aplica = b, !.fuente = f, !.criterio = c] \in Asignacion
        /\ \A c \in VersionesOVacio : [asignacion EXCEPT !.criterio = c] \in Asignacion
    BY <1>1 DEF Asignacion
  <1> HIDE DEF VersionesOVacio
  <1>3. ASSUME NEW v \in Ids \cup {VACIO}, NEW c \in Ids \cup {VACIO}, AsignarPorLote(v, c)
        PROVE  InvLimites'
    <2>1. v \in VersionesOVacio /\ c \in VersionesOVacio
      BY <1>1 DEF VersionesOVacio
    <2>2. \E f, d \in VersionesOVacio : Asignar([asignacion EXCEPT !.aplica = TRUE, !.fuente = f, !.criterio = d])
      BY <1>1, <1>2, <1>3, <2>1 DEF AsignarPorLote
    <2> QED BY <1>2, <2>2, AsignarBien
  <1>4. ASSUME NEW v \in Ids \cup {VACIO}, NEW c \in Ids \cup {VACIO}, NEW nula \in BOOLEAN,
               NEW automatico \in BOOLEAN, EditarAsignacion(v, nula, c, automatico)
        PROVE  InvLimites'
    <2>1. v \in VersionesOVacio /\ c \in VersionesOVacio
      BY <1>1 DEF VersionesOVacio
    <2>2. \E f, d \in VersionesOVacio : Asignar([asignacion EXCEPT !.aplica = TRUE, !.fuente = f, !.criterio = d])
      BY <1>1, <1>2, <1>4, <2>1 DEF EditarAsignacion
    <2> QED BY <1>2, <2>2, AsignarBien
  <1>5. CASE QuitarLimites
    BY <1>2, <1>5, AsignarBien DEF QuitarLimites, SinCriterio
  <1>6. CASE ReconciliarAsignacion
    BY <1>2, <1>6, AsignarBien DEF ReconciliarAsignacion
  <1> QED BY <1>3, <1>4, <1>5, <1>6

LEMMA LimitesPaso == InvLimites /\ [NextVersiones \/ NextAsignacion]_varsLimites => InvLimites'
  <1> SUFFICES ASSUME InvLimites, [NextVersiones \/ NextAsignacion]_varsLimites PROVE InvLimites'
    OBVIOUS
  <1>1. \A v \in Ids : v \in Versiones /\ fuentes[v] \in Fuente /\ fuentes[v].tipo \in {"catalogo", "global"}
        /\ fuentes[v].activo \in BOOLEAN /\ fuentes[v].publicada \in BOOLEAN
    BY VersionesConocidas DEF InvLimites, Fuente
  <1>2. ASSUME NEW e \in Editores, NEW tipo \in {"catalogo", "global"}, NEW publicar \in BOOLEAN,
               EscribirConfigurar(e, tipo, publicar)
        PROVE  InvLimites'
    BY <1>2, EscribirConfigurarBien
  <1>3. CASE NextVersiones
    <2>1. ASSUME NEW e \in Editores, NEW p \in Pruebas, NEW k \in Claves \cup {VACIO}, LeerConfigurar(e, p, k)
          PROVE  InvLimites'
      BY <2>1, Leer
    <2>2. ASSUME NEW p \in Pruebas, NEW k \in Claves, Repetir(p, k) PROVE InvLimites'
      BY <2>2, RepetirBien
    <2>3. ASSUME NEW e \in Editores, NEW v \in Versiones, LeerActivar(e, v) PROVE InvLimites'
      BY <2>3, Leer
    <2>4. ASSUME NEW e \in Editores, EscribirActivar(e) PROVE InvLimites'
      BY <2>4, EscribirActivarBien
    <2>5. ASSUME NEW v \in Versiones, Desactivar(v) \/ Destruir(v) \/ Restaurar(v) PROVE InvLimites'
      BY <2>5, MarcarBien
    <2>6. ASSUME NEW v \in Versiones, NEW activo \in BOOLEAN, v \in Ids,
                 Editar(v, fuentes[v].tipo, activo, fuentes[v].publicada)
          PROVE  InvLimites'
      BY <1>1, <2>6, EditarBien
    <2>7. ASSUME NEW p \in Pruebas, NEW tipo \in {"catalogo", "global"}, Crear(p, tipo) PROVE InvLimites'
      BY <2>7, CrearBien
    <2>8. ASSUME NEW p \in Pruebas, Reconciliar(p) PROVE InvLimites'
      BY <2>8, ReconciliarBien
    <2> QED BY <1>2, <1>3, <2>1, <2>2, <2>3, <2>4, <2>5, <2>6, <2>7, <2>8 DEF NextVersiones, NextConfigurar
  <1>4. CASE NextAsignacion
    <2>1. ASSUME NEW p \in Pruebas, NEW e \in Editores, LeerConfigurar(e, p, VACIO) PROVE InvLimites'
      BY <2>1, Leer
    <2>2. ASSUME NEW v \in DePrueba(asignacion.prueba),
                 \/ Destruir(v) \/ Restaurar(v)
                 \/ Editar(v, "global", fuentes[v].activo, fuentes[v].publicada)
          PROVE  InvLimites'
      <3>1. v \in Ids
        BY DEF DePrueba
      <3> QED BY <1>1, <2>2, <3>1, MarcarBien, EditarBien
    <2> QED BY <1>2, <1>4, <2>1, <2>2, AsignacionBien DEF NextAsignacion
  <1>5. CASE UNCHANGED varsLimites
    <2>1. EnCursoBien(Len(fuentes)) /\ UNCHANGED <<fuentes, respuestas, asignacion>>
      BY <1>5 DEF varsLimites, InvLimites, TiposLimites, Numerada, Abierta, EnCursoBien
    <2> QED BY <2>1, FilasIguales DEF InvLimites, TiposLimites
  <1> QED BY <1>3, <1>4, <1>5

LEMMA LimitesInicio == InitLimites => InvLimites
  <1> SUFFICES ASSUME InitLimites PROVE InvLimites
    OBVIOUS
  <1>1. fuentes = <<>> /\ Len(fuentes) = 0 /\ fuentes \in Seq(Fuente) /\ Ids = {}
    BY DEF InitLimites, Ids
  <1>2. asignacion \in Asignacion
    BY DEF InitLimites, Asignacion
  <1> QED BY <1>1, <1>2, CotaDeVersiones
          DEF InitLimites, InvLimites, TiposLimites, Numerada, Abierta, ClaveDeUnaVersion, RespondidaConLaFila

-----------------------------------------------------------------------------
(* The tables of the versions and of the assignment keep their types: a    *)
(* version never gets a number past the rows there are, and an assignment  *)
(* is pinned to a version that exists (index.py:942-1018).                 *)
THEOREM LimitesTipados == SpecLimites => []TiposLimites
  <1>1. InvLimites => TiposLimites
    BY DEF InvLimites
  <1> QED BY <1>1, LimitesInicio, LimitesPaso, PTL DEF SpecLimites

(* However often a save is repeated with its key, whatever overlaps it and *)
(* whatever happens to the row meanwhile (deleted, restored, edited), all  *)
(* the answers name one version (index.py:942-957 and :1005-1018).         *)
THEOREM RespuestaSiempreUnica == SpecLimites => []RespuestaUnica
  BY ClavesUnicas, LimitesInicio, LimitesPaso, PTL DEF SpecLimites

-----------------------------------------------------------------------------
(* The fields of the limits and the structure of their test.  While the    *)
(* link is faithful, a field in force is of a leaf the test has, and of    *)
(* the node of that leaf.                                                  *)
CampoVivo(v, c, f) == campos[v][c][f].estado = "vivo"
EnSuHoja(v, c, f) == c \in Hojas /\ campos[v][c][f].nodo = NodoDe(c)

Ligados ==
    enlace = "fiel" =>
        \A v \in creadas, c \in CodigosDeCampo, f \in Formas : CampoVivo(v, c, f) => EnSuHoja(v, c, f)

InvContrato == TiposContrato /\ Ligados

TablaDeCampos == [CodigosDeCampo -> [Formas -> CampoDeLimite]]

LEMMA HojasSon ==
  ASSUME TiposContrato
  PROVE  /\ Hojas \subseteq CodigosDeCampo
         /\ \A c \in CodigosDeCampo : NodoDe(c) \in 0..MaxEdiciones /\ Enlazado(c) \in CampoDeLimite
  <1>1. \A c \in CodigosDeCampo : NodoDe(c) \in 0..MaxEdiciones
    BY EdicionesAcotadas DEF TiposContrato, NodoDe, CodigosDeCampo
  <1> QED BY <1>1 DEF Hojas, CodigosDeCampo, Enlazado, CampoDeLimite, Inactivo

LEMMA InactivoNoVive ==
  ASSUME NEW x \in CampoDeLimite
  PROVE  Inactivo(x) \in CampoDeLimite /\ Inactivo(x).estado # "vivo"
  BY DEF Inactivo, CampoDeLimite

(* A version whose fields are written anew. *)
LEMMA VersionEscrita ==
  ASSUME InvContrato, NEW v \in Matrices, NEW tabla \in TablaDeCampos,
         campos' = [campos EXCEPT ![v] = tabla],
         creadas' \in {creadas, creadas \cup {v}}, informa' \in [Matrices -> SUBSET CodigosDeCampo],
         UNCHANGED <<nodos, enlace, hechas>>,
         \A c \in CodigosDeCampo, f \in Formas :
             tabla[c][f].estado = "vivo" => c \in Hojas /\ tabla[c][f].nodo = NodoDe(c)
  PROVE  InvContrato'
  <1>1. TiposContrato'
    BY DEF InvContrato, TiposContrato, TablaDeCampos
  <1>2. Hojas' = Hojas /\ \A c : NodoDe(c)' = NodoDe(c)
    BY DEF Hojas, NodoDe
  <1>3. campos'[v] = tabla /\ \A w \in Matrices : w # v => campos'[w] = campos[w]
    BY DEF InvContrato, TiposContrato
  <1>4. creadas \subseteq Matrices /\ \A w \in creadas' : w = v \/ w \in creadas
    BY DEF InvContrato, TiposContrato
  <1>5. Ligados'
    BY <1>2, <1>3, <1>4 DEF InvContrato, Ligados, CampoVivo, EnSuHoja
  <1> QED BY <1>1, <1>5 DEF InvContrato

(* One field whose state changes. *)
ConEstado(v, c, f, e) == [campos EXCEPT ![v][c][f].estado = e]

LEMMA CampoCambiado ==
  ASSUME TiposContrato, NEW v \in Matrices, NEW c \in CodigosDeCampo, NEW f \in Formas,
         NEW e \in {"inactivo", "vivo"}, campos' = ConEstado(v, c, f, e)
  PROVE  /\ campos' \in [Matrices -> TablaDeCampos]
         /\ campos'[v][c][f].estado = e /\ campos'[v][c][f].nodo = campos[v][c][f].nodo
         /\ \A w \in Matrices, d \in CodigosDeCampo, g \in Formas :
                (w # v \/ d # c \/ g # f) => campos'[w][d][g] = campos[w][d][g]
  <1> DEFINE x == [campos[v][c][f] EXCEPT !.estado = e]
             filaDe == [campos[v][c] EXCEPT ![f] = x]
             tabla == [campos[v] EXCEPT ![c] = filaDe]
  <1>1. campos \in [Matrices -> TablaDeCampos] /\ campos[v] \in TablaDeCampos
        /\ campos[v][c] \in [Formas -> CampoDeLimite] /\ campos[v][c][f] \in CampoDeLimite
    BY DEF TiposContrato, TablaDeCampos
  <1>2. x \in CampoDeLimite /\ x.estado = e /\ x.nodo = campos[v][c][f].nodo
    BY <1>1 DEF CampoDeLimite
  <1>3. campos' = [campos EXCEPT ![v] = tabla]
    BY <1>1 DEF ConEstado
  <1> HIDE DEF x
  <1>4. filaDe \in [Formas -> CampoDeLimite] /\ filaDe[f] = x /\ \A g \in Formas : g # f => filaDe[g] = campos[v][c][g]
    BY <1>1, <1>2
  <1> HIDE DEF filaDe
  <1>5. tabla \in TablaDeCampos /\ tabla[c] = filaDe /\ \A d \in CodigosDeCampo : d # c => tabla[d] = campos[v][d]
    BY <1>1, <1>4 DEF TablaDeCampos
  <1> HIDE DEF tabla
  <1>6. campos' \in [Matrices -> TablaDeCampos] /\ campos'[v] = tabla /\ \A w \in Matrices : w # v => campos'[w] = campos[w]
    BY <1>1, <1>3, <1>5
  <1> QED BY <1>2, <1>4, <1>5, <1>6

LEMMA ContratoPaso == InvContrato /\ [NextContrato]_varsContrato => InvContrato'
  <1> SUFFICES ASSUME InvContrato, [NextContrato]_varsContrato PROVE InvContrato'
    OBVIOUS
  <1>1. /\ TiposContrato /\ campos \in [Matrices -> TablaDeCampos]
        /\ Hojas \subseteq CodigosDeCampo
        /\ \A c \in CodigosDeCampo : Enlazado(c) \in CampoDeLimite
        /\ SinCampo \in CampoDeLimite /\ SinCampo.estado # "vivo"
        /\ \A c : Enlazado(c).nodo = NodoDe(c)
        /\ \A x \in CampoDeLimite : Inactivo(x) \in CampoDeLimite /\ Inactivo(x).estado # "vivo"
    BY HojasSon, InactivoNoVive, EdicionesAcotadas
       DEF InvContrato, TiposContrato, TablaDeCampos, SinCampo, CampoDeLimite, Enlazado
  <1>2. ASSUME NEW v \in Matrices, NEW informativos \in SUBSET Codigos, Configurar(v, informativos)
        PROVE  InvContrato'
    <2> DEFINE tabla == [c \in CodigosDeCampo |->
                           [f \in Formas |-> IF f = "unico" /\ c \in Hojas \ informativos
                                             THEN Enlazado(c) ELSE SinCampo]]
    <2>1. tabla \in TablaDeCampos
      BY <1>1 DEF TablaDeCampos
    <2>2. \A c \in CodigosDeCampo, f \in Formas :
              tabla[c][f].estado = "vivo" => c \in Hojas /\ tabla[c][f].nodo = NodoDe(c)
      BY <1>1
    <2>3. campos' = [campos EXCEPT ![v] = tabla] /\ creadas' = creadas \cup {v}
          /\ UNCHANGED <<nodos, enlace, hechas>>
      BY <1>2 DEF Configurar
    <2>4. informa' \in [Matrices -> SUBSET CodigosDeCampo]
      BY <1>1, <1>2 DEF Configurar, TiposContrato
    <2> HIDE DEF tabla
    <2> QED BY <2>1, <2>2, <2>3, <2>4, VersionEscrita
  <1>3. ASSUME NEW v \in Matrices, NEW forma \in Formas, Generar(v, forma) PROVE InvContrato'
    <2> DEFINE tabla == [c \in CodigosDeCampo |->
                           [f \in Formas |-> IF f = forma /\ c \in Hojas THEN Enlazado(c)
                                             ELSE Inactivo(campos[v][c][f])]]
    <2>1. \A c \in CodigosDeCampo, f \in Formas : campos[v][c][f] \in CampoDeLimite
      BY <1>1 DEF TablaDeCampos
    <2>2. tabla \in TablaDeCampos
      BY <1>1, <2>1 DEF TablaDeCampos
    <2>3. \A c \in CodigosDeCampo, f \in Formas :
              tabla[c][f].estado = "vivo" => c \in Hojas /\ tabla[c][f].nodo = NodoDe(c)
      BY <1>1, <2>1
    <2>4. campos' = [campos EXCEPT ![v] = tabla] /\ UNCHANGED <<nodos, enlace, hechas, creadas, informa>>
      BY <1>3 DEF Generar
    <2>5. informa' \in [Matrices -> SUBSET CodigosDeCampo]
      BY <1>1, <2>4 DEF TiposContrato
    <2> HIDE DEF tabla
    <2> QED BY <2>2, <2>3, <2>4, <2>5, VersionEscrita
  <1>4. ASSUME NEW v \in Matrices, NEW c \in CodigosDeCampo, NEW f \in Formas,
               BorrarCampo(v, c, f) \/ RestaurarCampo(v, c, f)
        PROVE  InvContrato'
    <2>1. PICK e \in {"inactivo", "vivo"} :
             /\ campos' = ConEstado(v, c, f, e)
             /\ enlace' \in {enlace, "roto"} /\ UNCHANGED <<nodos, hechas, creadas, informa>>
             /\ e = "vivo" /\ enlace' = "fiel" => c \in Hojas /\ campos[v][c][f].nodo = NodoDe(c)
      BY <1>4 DEF BorrarCampo, RestaurarCampo, ConEstado
    <2>2. Hojas' = Hojas /\ \A d : NodoDe(d)' = NodoDe(d)
      BY <2>1 DEF Hojas, NodoDe
    <2>3. /\ campos' \in [Matrices -> TablaDeCampos]
          /\ campos'[v][c][f].estado = e /\ campos'[v][c][f].nodo = campos[v][c][f].nodo
          /\ \A w \in Matrices, d \in CodigosDeCampo, g \in Formas :
                 (w # v \/ d # c \/ g # f) => campos'[w][d][g] = campos[w][d][g]
      BY <1>1, <2>1, CampoCambiado
    <2>4. TiposContrato'
      BY <1>1, <2>1, <2>3 DEF TiposContrato, TablaDeCampos
    <2>5. ASSUME enlace' = "fiel", NEW w \in creadas', NEW d \in CodigosDeCampo, NEW g \in Formas, CampoVivo(w, d, g)'
          PROVE  EnSuHoja(w, d, g)'
      <3>1. enlace = "fiel" /\ w \in creadas /\ w \in Matrices
        BY <1>1, <2>1, <2>5 DEF TiposContrato
      <3>2. CASE w = v /\ d = c /\ g = f
        BY <2>1, <2>2, <2>3, <2>5, <3>2 DEF CampoVivo, EnSuHoja
      <3>3. CASE w # v \/ d # c \/ g # f
        BY <2>2, <2>3, <2>5, <3>1, <3>3 DEF InvContrato, Ligados, CampoVivo, EnSuHoja
      <3> QED BY <3>2, <3>3
    <2>6. Ligados'
      BY <2>5 DEF Ligados
    <2> QED BY <2>4, <2>6 DEF InvContrato
  <1>5. ASSUME NEW hojas \in SUBSET Codigos, Recrear(hojas) PROVE InvContrato'
    <2>1. hechas + 1 \in 0..MaxEdiciones /\ 0 \in 0..MaxEdiciones
      BY <1>1, <1>5, EdicionesAcotadas DEF Recrear, TiposContrato
    <2>2. \A v \in Matrices, c \in CodigosDeCampo, f \in Formas :
              campos[v][c][f] \in CampoDeLimite /\ [campos[v][c][f] EXCEPT !.nodo = 0] \in CampoDeLimite
      BY <1>1, <2>1 DEF TablaDeCampos, CampoDeLimite
    <2>3. SinNodo \in [Matrices -> [CodigosDeCampo -> [Formas -> CampoDeLimite]]]
      BY <2>2 DEF SinNodo
    <2>4. TiposContrato'
      BY <1>1, <1>5, <2>1, <2>3 DEF Recrear, TiposContrato
    <2> QED BY <1>5, <2>4 DEF Recrear, InvContrato, Ligados
  <1>6. CASE Fallar
    BY <1>1, <1>6 DEF Fallar, InvContrato, TiposContrato, Ligados
  <1>7. CASE Reenlazar
    <2>1. \A v \in Matrices, c \in CodigosDeCampo, f \in Formas : campos[v][c][f] \in CampoDeLimite
      BY <1>1 DEF TablaDeCampos
    <2>2. \A v \in Matrices : Reconciliado(v) \in TablaDeCampos
      BY <1>1, <2>1 DEF Reconciliado, TablaDeCampos
    <2>3. \A v \in Matrices, c \in CodigosDeCampo, f \in Formas :
              Reconciliado(v)[c][f].estado = "vivo" => c \in Hojas /\ Reconciliado(v)[c][f].nodo = NodoDe(c)
      BY <1>1, <2>1 DEF Reconciliado
    <2>4. campos' \in [Matrices -> TablaDeCampos] /\ \A v \in creadas : campos'[v] = Reconciliado(v)
      BY <1>1, <1>7, <2>2 DEF Reenlazar, TiposContrato
    <2>5. informa' \in [Matrices -> SUBSET CodigosDeCampo]
      BY <1>1, <1>7 DEF Reenlazar, TiposContrato
    <2>6. Hojas' = Hojas /\ (\A c : NodoDe(c)' = NodoDe(c)) /\ creadas' = creadas /\ creadas \subseteq Matrices
      BY <1>1, <1>7 DEF Reenlazar, Hojas, NodoDe, TiposContrato
    <2>7. TiposContrato'
      BY <1>1, <1>7, <2>4, <2>5 DEF Reenlazar, TiposContrato, TablaDeCampos
    <2>8. Ligados'
      BY <2>3, <2>4, <2>6 DEF Ligados, CampoVivo, EnSuHoja
    <2> QED BY <2>7, <2>8 DEF InvContrato
  <1>8. CASE UNCHANGED varsContrato
    BY <1>8 DEF varsContrato, InvContrato, TiposContrato, Ligados, CampoVivo, EnSuHoja, Hojas, NodoDe
  <1> QED BY <1>2, <1>3, <1>4, <1>5, <1>6, <1>7, <1>8 DEF NextContrato

LEMMA ContratoInicio == InitContrato => InvContrato
  <1> SUFFICES ASSUME InitContrato PROVE InvContrato
    OBVIOUS
  <1>1. 0 \in 0..MaxEdiciones /\ SinCampo \in CampoDeLimite
    BY EdicionesAcotadas DEF SinCampo, CampoDeLimite
  <1> QED BY <1>1 DEF InitContrato, InvContrato, TiposContrato, Ligados

LEMMA LigadosDanSuRegla ==
  ASSUME InvContrato
  PROVE  ReglaDeSuHoja
  <1> SUFFICES ASSUME enlace = "fiel", NEW v \in creadas, NEW c \in Hojas, NEW e \in Elegibles(v, c)
               PROVE  e[1] = c
    BY DEF ReglaDeSuHoja
  <1>1. CASE e \in DelNodo(v, c)
    BY <1>1 DEF DelNodo
  <1>2. CASE e \in SinDueno(v)
    <2>1. PICK d \in CodigosDeCampo, f \in Formas :
             e = <<d, f>> /\ campos[v][d][f] = [estado |-> "vivo", nodo |-> 0]
      BY <1>2 DEF SinDueno
    <2>2. d \in Hojas /\ NodoDe(d) = 0
      BY <2>1 DEF InvContrato, Ligados, CampoVivo, EnSuHoja
    <2>3. d = TODA /\ Hojas = {TODA}
      BY <2>2, TodaAparte DEF Hojas, NodoDe
    <2> QED BY <2>1, <2>3
  <1> QED BY <1>1, <1>2 DEF Elegibles

(* For any codes, versions and number of edits of a test: once an edit is  *)
(* through, no leaf is judged with the rule of another one (limit_engine   *)
(* .py:240-266, limit_contract.py:57-63).                                  *)
THEOREM SiempreReglaDeSuHoja == SpecContrato => []ReglaDeSuHoja
  <1>1. InvContrato => ReglaDeSuHoja
    BY LigadosDanSuRegla
  <1> QED BY <1>1, ContratoInicio, ContratoPaso, PTL DEF SpecContrato

(* The nodes, versions and fields of a test keep their types through every *)
(* edit, failed ones included.                                             *)
THEOREM ContratoTipado == SpecContrato => []TiposContrato
  <1>1. InvContrato => TiposContrato
    BY DEF InvContrato
  <1> QED BY <1>1, ContratoInicio, ContratoPaso, PTL DEF SpecContrato

-----------------------------------------------------------------------------
(* A catalogue and its editions.  While nothing overlaps and no generic    *)
(* form writes, what the only request under way has checked still holds    *)
(* when it writes.                                                         *)
EdicionActual == actual \in DOMAIN ediciones \cup {NINGUNA}
EdicionesPedidas == \A p \in pendientes : p.edicion \in DOMAIN ediciones

Comprobada(p) ==
    IF p.op = "elegir" THEN Usable(p.edicion) ELSE actual # p.edicion

SinSolapes ==
    limpio => /\ actual \in DOMAIN ediciones /\ Usable(actual)
              /\ \A p, q \in pendientes : p = q
              /\ \A p \in pendientes : Comprobada(p)

(* The catalogue and the scales share nothing. *)
InvEdiciones ==
    /\ abierto \in BOOLEAN /\ limpio \in BOOLEAN /\ pendientes \subseteq Pendiente
    /\ ediciones \in Seq(Edicion) /\ Len(ediciones) <= MaxEdicionesC
    /\ \A v, w \in DOMAIN ediciones : v # w => ediciones[v].numero # ediciones[w].numero
    /\ EdicionActual /\ EdicionesPedidas /\ SinSolapes

(* The rows of the scales, and what is still so of what a request read     *)
(* while no other writes to its scale.                                     *)
Dados(e, R) == {i \in DOMAIN R : R[i].vivo /\ R[i].escala = e /\ R[i].dado}

PlazasDistintas(R) ==
    \A e \in EscalasC : \A i, j \in Dados(e, R) : i # j => R[i].orden # R[j].orden

Vale(q, R) ==
    /\ q.op = "crear" => \A j \in Dados(q.escala, R) : R[j].orden < q.orden
    /\ q.op = "editar" => \A j \in Dados(q.escala, R) : j # q.fila => R[j].orden # q.orden
    /\ q.op = "ordenar" =>
          /\ Dados(q.escala, R) \subseteq DOMAIN q.lugares
          /\ \A i \in DOMAIN q.lugares : /\ R[i].escala = q.escala
                                         /\ i \notin q.cambia => R[i].orden = q.lugares[i]
          /\ \A i, j \in DOMAIN q.lugares : i # j => q.lugares[i] # q.lugares[j]

DeFilas(q, R) ==
    /\ q.op = "editar" => q.fila \in DOMAIN R
    /\ q.op = "ordenar" => DOMAIN q.lugares \subseteq DOMAIN R

UnaPorPalabra(R) ==
    \A i, j \in DOMAIN R : i # j => R[i].escala # R[j].escala \/ R[i].palabra # R[j].palabra

Tramite == AltaDeItem \cup CambioDeItem \cup OrdenDeItems

RenglonesBien(R) ==
    /\ R \in Seq(Renglon) /\ Len(R) <= MaxRenglones
    /\ UnaPorPalabra(R) /\ PlazasDistintas(R)

TramitesBien(T, R) ==
    /\ T \subseteq Tramite
    /\ \A q \in T : DeFilas(q, R) /\ (q.dado => Vale(q, R))

(* A row is written, in its place or after the last one.                   *)
SeEscribe(R, k, r, Q) ==
    \/ k \in DOMAIN R /\ Q = [R EXCEPT ![k] = r]
    \/ k = Len(R) + 1 /\ Q = Append(R, r)

Cabe(R, k, r) ==
    /\ \A i \in DOMAIN R : i # k => R[i].escala # r.escala \/ R[i].palabra # r.palabra
    /\ r.dado /\ r.vivo => \A j \in Dados(r.escala, R) : j # k => R[j].orden # r.orden

SoloEn(S, R, Q) ==
    /\ DOMAIN R \subseteq DOMAIN Q
    /\ \A i \in DOMAIN Q : \/ i \in DOMAIN R /\ Q[i] = R[i]
                           \/ Q[i].escala \in S /\ (i \in DOMAIN R => R[i].escala \in S)

Quedan(T, q, S) == {IF EscalasDe(p) \cap S = {} THEN p ELSE [p EXCEPT !.dado = FALSE] : p \in T \ {q}}

InvEscala == RenglonesBien(renglones) /\ TramitesBien(tramites, renglones)

LEMMA MayorEs ==
  ASSUME NEW T \in SUBSET Nat, T # {}, NEW n \in Nat, \A x \in T : x <= n
  PROVE  Mayor(T) \in T /\ \A y \in T : y <= Mayor(T)
  <1>1. \E x \in T : \A y \in T : y <= x
    BY HayMaximo
  <1> QED BY <1>1 DEF Mayor

LEMMA FilasDeEdiciones ==
  ASSUME NEW s \in Seq(Edicion), Len(s) <= MaxEdicionesC
  PROVE  /\ DOMAIN s = 1..Len(s) /\ Len(s) \in Nat /\ DOMAIN s \subseteq Filas /\ DOMAIN s \subseteq Nat
         /\ \A v \in DOMAIN s : s[v] \in Edicion /\ s[v].numero \in 1..MaxEdicionesC
  <1>1. DOMAIN s = 1..Len(s) /\ Len(s) \in Nat /\ \A v \in DOMAIN s : s[v] \in Edicion
    OBVIOUS
  <1>2. DOMAIN s \subseteq Filas /\ DOMAIN s \subseteq Nat
    BY <1>1, CotasDeCatalogo DEF Filas
  <1> QED BY <1>1, <1>2 DEF Edicion

(* Among editions there is one with the greatest number. *)
LEMMA DeNumeroEs ==
  ASSUME InvEdiciones, NEW S \in SUBSET (DOMAIN ediciones), S # {}
  PROVE  DeNumero(S) \in S
  <1> DEFINE T == {ediciones[v].numero : v \in S}
  <1>1. T \in SUBSET Nat /\ T # {} /\ \A x \in T : x <= MaxEdicionesC
    BY FilasDeEdiciones, CotasDeCatalogo DEF InvEdiciones
  <1>2. PICK x \in T : \A y \in T : y <= x
    BY <1>1, HayMaximo, CotasDeCatalogo
  <1>3. \E v \in S : \A w \in S : ediciones[w].numero <= ediciones[v].numero
    BY <1>2
  <1> QED BY <1>3 DEF DeNumero

LEMMA CopiaTipada ==
  ASSUME InvEdiciones
  PROVE  Copia(Origen) \in [Items -> EstadosDeItem] /\ Copia(NINGUNA) \in [Items -> EstadosDeItem]
  <1>1. \A v \in DOMAIN ediciones : ediciones[v].items \in [Items -> EstadosDeItem]
    BY FilasDeEdiciones DEF InvEdiciones, Edicion
  <1>2. Origen \in DOMAIN ediciones \cup {NINGUNA}
    <2> DEFINE conItems == {v \in DOMAIN ediciones : ConItems(v)}
    <2>1. conItems # {} => DeNumero(conItems) \in conItems
      BY DeNumeroEs
    <2> QED BY <2>1 DEF Origen, InvEdiciones, EdicionActual
  <1>3. [c \in Items |-> "no"] \in [Items -> EstadosDeItem]
    BY DEF EstadosDeItem
  <1> QED BY <1>1, <1>2, <1>3 DEF Copia

(* A new edition at the end leaves the others where they were. *)
LEMMA EdicionNueva ==
  ASSUME InvEdiciones, NEW e \in Edicion, Len(ediciones) < MaxEdicionesC,
         \A v \in DOMAIN ediciones : ediciones[v].numero # e.numero,
         ediciones' = Append(ediciones, e)
  PROVE  /\ ediciones' \in Seq(Edicion) /\ Len(ediciones') = Len(ediciones) + 1 /\ Len(ediciones') <= MaxEdicionesC
         /\ DOMAIN ediciones' = DOMAIN ediciones \cup {Len(ediciones) + 1}
         /\ \A v \in DOMAIN ediciones : ediciones'[v] = ediciones[v]
         /\ ediciones'[Len(ediciones) + 1] = e
         /\ \A v, w \in DOMAIN ediciones' : v # w => ediciones'[v].numero # ediciones'[w].numero
  <1>1. ediciones \in Seq(Edicion) /\ Len(ediciones) \in Nat /\ DOMAIN ediciones = 1..Len(ediciones)
    BY DEF InvEdiciones
  <1>2. /\ ediciones' \in Seq(Edicion) /\ Len(ediciones') = Len(ediciones) + 1
        /\ \A v \in DOMAIN ediciones : ediciones'[v] = ediciones[v]
        /\ ediciones'[Len(ediciones) + 1] = e
    BY <1>1
  <1>3. DOMAIN ediciones' = DOMAIN ediciones \cup {Len(ediciones) + 1}
    BY <1>1, <1>2
  <1>4. \A v, w \in DOMAIN ediciones' : v # w => ediciones'[v].numero # ediciones'[w].numero
    BY <1>2, <1>3 DEF InvEdiciones
  <1> QED BY <1>1, <1>2, <1>3, <1>4, CotasDeCatalogo

(* Editions that keep their numbers. *)
LEMMA EdicionesCambiadas ==
  ASSUME InvEdiciones, DOMAIN ediciones' = DOMAIN ediciones,
         ediciones' = [v \in DOMAIN ediciones |-> ediciones'[v]],
         \A v \in DOMAIN ediciones : ediciones'[v] \in Edicion /\ ediciones'[v].numero = ediciones[v].numero
  PROVE  /\ ediciones' \in Seq(Edicion) /\ Len(ediciones') <= MaxEdicionesC
         /\ \A v, w \in DOMAIN ediciones' : v # w => ediciones'[v].numero # ediciones'[w].numero
  <1>1. DOMAIN ediciones = 1..Len(ediciones) /\ Len(ediciones) \in Nat
    BY DEF InvEdiciones
  <1>2. ediciones' \in [1..Len(ediciones) -> Edicion]
    BY <1>1
  <1>3. ediciones' \in Seq(Edicion) /\ Len(ediciones') = Len(ediciones)
    BY <1>1, <1>2
  <1> QED BY <1>3 DEF InvEdiciones

(* Editions change but none stops being usable, and nothing else changes   *)
(* but for what the clean history loses.                                   *)
LEMMA SiguenUsables ==
  ASSUME InvEdiciones, DOMAIN ediciones' = DOMAIN ediciones,
         ediciones' = [v \in DOMAIN ediciones |-> ediciones'[v]],
         \A v \in DOMAIN ediciones :
             /\ ediciones'[v] \in Edicion /\ ediciones'[v].numero = ediciones[v].numero
             /\ ediciones[v].activa /\ ~ediciones[v].borrada => ediciones'[v].activa /\ ~ediciones'[v].borrada,
         actual' = actual, pendientes' = pendientes, limpio' \in {limpio, FALSE}, abierto' \in BOOLEAN
  PROVE  InvEdiciones'
  <1>1. /\ ediciones' \in Seq(Edicion) /\ Len(ediciones') <= MaxEdicionesC
        /\ \A v, w \in DOMAIN ediciones' : v # w => ediciones'[v].numero # ediciones'[w].numero
    BY EdicionesCambiadas
  <1>2. EdicionActual' /\ EdicionesPedidas'
    BY DEF InvEdiciones, EdicionActual, EdicionesPedidas
  <1>3. \A v \in DOMAIN ediciones : Usable(v) => Usable(v)'
    BY DEF Usable
  <1>4. SinSolapes'
    BY <1>3 DEF InvEdiciones, EdicionesPedidas, SinSolapes, Comprobada
  <1> QED BY <1>1, <1>2, <1>4 DEF InvEdiciones

(* Whatever a generic form writes, it is no longer clean. *)
LEMMA PorFormulario ==
  ASSUME InvEdiciones, DOMAIN ediciones' = DOMAIN ediciones,
         ediciones' = [v \in DOMAIN ediciones |-> ediciones'[v]],
         \A v \in DOMAIN ediciones : ediciones'[v] \in Edicion /\ ediciones'[v].numero = ediciones[v].numero,
         actual' \in DOMAIN ediciones \cup {NINGUNA}, pendientes' = pendientes, limpio' = FALSE, abierto' \in BOOLEAN
  PROVE  InvEdiciones'
  BY EdicionesCambiadas DEF InvEdiciones, EdicionActual, EdicionesPedidas, SinSolapes

(* One edition becomes another row with its number. *)
LEMMA UnaEdicion ==
  ASSUME InvEdiciones, NEW v \in DOMAIN ediciones, NEW e \in Edicion, e.numero = ediciones[v].numero,
         ediciones' = [ediciones EXCEPT ![v] = e]
  PROVE  /\ DOMAIN ediciones' = DOMAIN ediciones
         /\ ediciones' = [w \in DOMAIN ediciones |-> ediciones'[w]]
         /\ ediciones'[v] = e /\ \A w \in DOMAIN ediciones : w # v => ediciones'[w] = ediciones[w]
         /\ \A w \in DOMAIN ediciones : ediciones'[w] \in Edicion /\ ediciones'[w].numero = ediciones[w].numero
  <1>1. \A w \in DOMAIN ediciones : ediciones[w] \in Edicion
    BY FilasDeEdiciones DEF InvEdiciones
  <1>2. DOMAIN ediciones' = DOMAIN ediciones /\ ediciones' = [w \in DOMAIN ediciones |-> IF w = v THEN e ELSE ediciones[w]]
    OBVIOUS
  <1> QED BY <1>1, <1>2

LEMMA CrearEdicionPaso ==
  ASSUME InvEdiciones, NEW n \in 1..MaxEdicionesC, CrearEdicion(n)
  PROVE  InvEdiciones'
  <1> DEFINE e == [numero |-> n, activa |-> TRUE, borrada |-> FALSE, items |-> Copia(Origen)]
  <1>1. e \in Edicion /\ e.numero = n
    BY CopiaTipada DEF Edicion
  <1>2. \A v \in DOMAIN ediciones : ediciones[v].numero # n
    BY DEF CrearEdicion, NumerosUsados
  <1>3. ediciones' = Append(ediciones, e) /\ Len(ediciones) < MaxEdicionesC
        /\ UNCHANGED <<abierto, actual, pendientes, limpio>>
    BY DEF CrearEdicion
  <1> HIDE DEF e
  <1>4. /\ ediciones' \in Seq(Edicion) /\ Len(ediciones') <= MaxEdicionesC
        /\ DOMAIN ediciones' = DOMAIN ediciones \cup {Len(ediciones) + 1}
        /\ \A v \in DOMAIN ediciones : ediciones'[v] = ediciones[v]
        /\ \A v, w \in DOMAIN ediciones' : v # w => ediciones'[v].numero # ediciones'[w].numero
    BY <1>1, <1>2, <1>3, EdicionNueva
  <1>5. EdicionActual' /\ EdicionesPedidas'
    BY <1>3, <1>4 DEF InvEdiciones, EdicionActual, EdicionesPedidas
  <1>6. \A v \in DOMAIN ediciones : Usable(v)' = Usable(v)
    BY <1>4 DEF Usable
  <1>7. SinSolapes'
    BY <1>3, <1>4, <1>6 DEF InvEdiciones, EdicionesPedidas, SinSolapes, Comprobada
  <1> QED BY <1>3, <1>4, <1>5, <1>7 DEF InvEdiciones

LEMMA ComprobarPaso ==
  ASSUME InvEdiciones, NEW op \in {"elegir", "desactivar", "eliminar"}, NEW v \in Filas, Comprobar(op, v)
  PROVE  InvEdiciones'
  <1> DEFINE nuevo == [op |-> op, edicion |-> v]
  <1>1. nuevo \in Pendiente /\ nuevo.op = op /\ nuevo.edicion = v
    BY DEF Pendiente
  <1>2. pendientes' = pendientes \cup {nuevo} /\ limpio' = (limpio /\ pendientes = {})
        /\ UNCHANGED <<abierto, actual, ediciones>> /\ v \in DOMAIN ediciones /\ Permitido(op, v)
    BY DEF Comprobar
  <1> HIDE DEF nuevo
  <1>3. Comprobada(nuevo)
    BY <1>1, <1>2 DEF Comprobada, Permitido
  <1>4. Comprobada(nuevo)' /\ \A w : Usable(w)' = Usable(w)
    BY <1>2, <1>3 DEF Comprobada, Usable
  <1>5. SinSolapes'
    BY <1>2, <1>4 DEF InvEdiciones, SinSolapes
  <1> QED BY <1>1, <1>2, <1>5 DEF InvEdiciones, EdicionActual, EdicionesPedidas

LEMMA EscribirPaso ==
  ASSUME InvEdiciones, NEW p \in pendientes, Escribir(p)
  PROVE  InvEdiciones'
  <1>1. /\ p.edicion \in DOMAIN ediciones /\ p \in Pendiente
        /\ pendientes' = pendientes \ {p} /\ UNCHANGED <<abierto, limpio>>
        /\ \A q \in pendientes : q.edicion \in DOMAIN ediciones
    BY DEF InvEdiciones, EdicionesPedidas, Escribir
  <1>2. CASE p.op = "elegir"
    <2>1. actual' = p.edicion /\ ediciones' = ediciones
      BY <1>2 DEF Escribir
    <2>2. SinSolapes'
      BY <1>1, <1>2, <2>1 DEF InvEdiciones, SinSolapes, Comprobada, Usable
    <2> QED BY <1>1, <2>1, <2>2 DEF InvEdiciones, EdicionActual, EdicionesPedidas
  <1>3. CASE p.op # "elegir"
    <2> DEFINE e == Retirada(ediciones[p.edicion], p.op)
    <2>1. actual' = actual /\ ediciones' = [ediciones EXCEPT ![p.edicion] = e]
      BY <1>3 DEF Escribir
    <2>2. ediciones[p.edicion] \in Edicion
      BY <1>1, FilasDeEdiciones DEF InvEdiciones
    <2>3. e \in Edicion /\ e.numero = ediciones[p.edicion].numero
      BY <2>2 DEF Retirada, Edicion
    <2> HIDE DEF e
    <2>4. /\ DOMAIN ediciones' = DOMAIN ediciones
          /\ ediciones' = [w \in DOMAIN ediciones |-> ediciones'[w]]
          /\ \A w \in DOMAIN ediciones : w # p.edicion => ediciones'[w] = ediciones[w]
          /\ \A w \in DOMAIN ediciones : ediciones'[w] \in Edicion /\ ediciones'[w].numero = ediciones[w].numero
      BY <1>1, <2>1, <2>3, UnaEdicion
    <2>5. /\ ediciones' \in Seq(Edicion) /\ Len(ediciones') <= MaxEdicionesC
          /\ \A v, w \in DOMAIN ediciones' : v # w => ediciones'[v].numero # ediciones'[w].numero
      BY <2>4, EdicionesCambiadas
    <2>6. EdicionActual' /\ EdicionesPedidas'
      BY <1>1, <2>1, <2>4 DEF InvEdiciones, EdicionActual, EdicionesPedidas
    <2>7. ASSUME limpio PROVE actual # p.edicion /\ pendientes' = {}
      BY <1>1, <1>3, <2>7 DEF InvEdiciones, SinSolapes, Comprobada
    <2>8. SinSolapes'
      BY <1>1, <2>1, <2>4, <2>7 DEF InvEdiciones, SinSolapes, Usable
    <2> QED BY <1>1, <2>5, <2>6, <2>8 DEF InvEdiciones
  <1> QED BY <1>2, <1>3

LEMMA RepararPaso ==
  ASSUME InvEdiciones, Reparar
  PROVE  InvEdiciones'
  <1> DEFINE usables == {v \in DOMAIN ediciones : Usable(v)}
  <1>1. (actual = NINGUNA \/ actual \notin usables) /\ UNCHANGED <<abierto, pendientes, limpio>>
    BY DEF Reparar
  <1>2. ~limpio
    BY <1>1, FilasDeEdiciones, NingunaAparte DEF InvEdiciones, SinSolapes
  <1>3. CASE usables # {}
    <2>1. actual' = DeNumero(usables) /\ ediciones' = ediciones
      BY <1>3 DEF Reparar
    <2>2. DeNumero(usables) \in DOMAIN ediciones
      BY <1>3, DeNumeroEs
    <2> QED BY <1>1, <1>2, <2>1, <2>2 DEF InvEdiciones, EdicionActual, EdicionesPedidas, SinSolapes
  <1>4. CASE usables = {}
    <2> DEFINE e == [numero |-> Mayor(NumerosUsados) + 1, activa |-> TRUE, borrada |-> FALSE, items |-> Copia(NINGUNA)]
    <2>1. /\ ediciones' = Append(ediciones, e) /\ actual' = Len(ediciones) + 1
          /\ Len(ediciones) < MaxEdicionesC /\ Mayor(NumerosUsados) < MaxEdicionesC
      BY <1>4 DEF Reparar
    <2>2. NumerosUsados \in SUBSET Nat /\ NumerosUsados # {} /\ \A x \in NumerosUsados : x <= MaxEdicionesC
      BY FilasDeEdiciones, CotasDeCatalogo DEF InvEdiciones, NumerosUsados
    <2>3. Mayor(NumerosUsados) \in Nat /\ \A y \in NumerosUsados : y <= Mayor(NumerosUsados)
      BY <2>2, MayorEs, CotasDeCatalogo
    <2>4. e \in Edicion
      <3>1. Mayor(NumerosUsados) + 1 \in 1..MaxEdicionesC
        BY <2>1, <2>3, CotasDeCatalogo
      <3> QED BY <3>1, CopiaTipada DEF Edicion
    <2>5. \A v \in DOMAIN ediciones : ediciones[v].numero # e.numero
      <3> SUFFICES ASSUME NEW v \in DOMAIN ediciones PROVE ediciones[v].numero # Mayor(NumerosUsados) + 1
        OBVIOUS
      <3>1. ediciones[v].numero \in NumerosUsados
        BY DEF NumerosUsados
      <3>2. ediciones[v].numero \in Nat /\ ediciones[v].numero <= Mayor(NumerosUsados)
        BY <2>2, <2>3, <3>1
      <3> QED BY <2>3, <3>2
    <2> HIDE DEF e
    <2>6. /\ ediciones' \in Seq(Edicion) /\ Len(ediciones') <= MaxEdicionesC
          /\ DOMAIN ediciones' = DOMAIN ediciones \cup {Len(ediciones) + 1}
          /\ \A v, w \in DOMAIN ediciones' : v # w => ediciones'[v].numero # ediciones'[w].numero
      BY <2>1, <2>4, <2>5, EdicionNueva
    <2> QED BY <1>1, <1>2, <2>1, <2>6 DEF InvEdiciones, EdicionActual, EdicionesPedidas, SinSolapes
  <1> QED BY <1>3, <1>4

(* One edition gets other items, active as before. *)
LEMMA ItemsDeUna ==
  ASSUME InvEdiciones, NEW v \in DOMAIN ediciones, NEW e \in Edicion,
         e.numero = ediciones[v].numero, e.activa = ediciones[v].activa, e.borrada = ediciones[v].borrada,
         ediciones' = [ediciones EXCEPT ![v] = e], UNCHANGED <<abierto, actual, pendientes, limpio>>
  PROVE  InvEdiciones'
  <1>1. /\ DOMAIN ediciones' = DOMAIN ediciones
        /\ ediciones' = [w \in DOMAIN ediciones |-> ediciones'[w]]
        /\ ediciones'[v] = e /\ \A w \in DOMAIN ediciones : w # v => ediciones'[w] = ediciones[w]
        /\ \A w \in DOMAIN ediciones : ediciones'[w] \in Edicion /\ ediciones'[w].numero = ediciones[w].numero
    BY UnaEdicion
  <1>2. \A w \in DOMAIN ediciones :
            ediciones[w].activa /\ ~ediciones[w].borrada => ediciones'[w].activa /\ ~ediciones'[w].borrada
    BY <1>1
  <1>3. abierto' \in BOOLEAN
    BY DEF InvEdiciones
  <1> QED BY <1>1, <1>2, <1>3, SiguenUsables

LEMMA ItemPaso ==
  ASSUME InvEdiciones, NEW v \in DOMAIN ediciones, NEW c \in Items, NEW x \in EstadosDeItem, ConItem(v, c, x)
  PROVE  InvEdiciones'
  <1> DEFINE e == [ediciones[v] EXCEPT !.items[c] = x]
  <1>1. ediciones[v] \in Edicion
    BY FilasDeEdiciones DEF InvEdiciones
  <1>2. /\ e \in Edicion /\ e.numero = ediciones[v].numero
        /\ e.activa = ediciones[v].activa /\ e.borrada = ediciones[v].borrada
    BY <1>1 DEF Edicion
  <1>3. ediciones' = [ediciones EXCEPT ![v] = e] /\ UNCHANGED <<abierto, actual, pendientes, limpio>>
    BY DEF ConItem
  <1> HIDE DEF e
  <1> QED BY <1>2, <1>3, ItemsDeUna

LEMMA MoverItemPaso ==
  ASSUME InvEdiciones, NEW v \in Filas, NEW w \in Filas, NEW c \in Items, MoverItem(v, w, c)
  PROVE  InvEdiciones'
  <1> DEFINE e == [ediciones[v] EXCEPT !.items[c] = "no"]
             f == [ediciones[w] EXCEPT !.items[c] = "vivo"]
  <1>1. /\ v \in DOMAIN ediciones /\ w \in DOMAIN ediciones /\ v # w
        /\ UNCHANGED <<abierto, actual, pendientes, limpio>> /\ abierto' \in BOOLEAN
    BY DEF MoverItem, InvEdiciones
  <1>2. \A x \in DOMAIN ediciones : ediciones[x] \in Edicion
    BY FilasDeEdiciones DEF InvEdiciones
  <1>3. /\ e \in Edicion /\ e.numero = ediciones[v].numero
        /\ e.activa = ediciones[v].activa /\ e.borrada = ediciones[v].borrada
    BY <1>1, <1>2 DEF Edicion, EstadosDeItem
  <1>4. /\ f \in Edicion /\ f.numero = ediciones[w].numero
        /\ f.activa = ediciones[w].activa /\ f.borrada = ediciones[w].borrada
    BY <1>1, <1>2 DEF Edicion, EstadosDeItem
  <1>5. ediciones' = [[ediciones EXCEPT ![v] = e] EXCEPT ![w] = f]
    BY <1>1 DEF MoverItem
  <1> HIDE DEF e, f
  <1>6. ediciones' = [x \in DOMAIN ediciones |-> IF x = w THEN f ELSE IF x = v THEN e ELSE ediciones[x]]
    BY <1>1, <1>5
  <1>7. /\ DOMAIN ediciones' = DOMAIN ediciones
        /\ \A x \in DOMAIN ediciones :
               /\ ediciones'[x] \in Edicion /\ ediciones'[x].numero = ediciones[x].numero
               /\ ediciones'[x].activa = ediciones[x].activa /\ ediciones'[x].borrada = ediciones[x].borrada
    BY <1>1, <1>2, <1>3, <1>4, <1>6
  <1>8. ediciones' = [x \in DOMAIN ediciones |-> ediciones'[x]]
    BY <1>6
  <1> QED BY <1>1, <1>7, <1>8, SiguenUsables

LEMMA ImportarPaso ==
  ASSUME InvEdiciones, NEW v \in Filas, NEW filas \in SUBSET Items, Importar(v, filas)
  PROVE  InvEdiciones'
  <1> DEFINE nuevos == [c \in Items |-> IF c \in filas THEN "vivo" ELSE ediciones[v].items[c]]
             e == [ediciones[v] EXCEPT !.items = nuevos]
  <1>1. v \in DOMAIN ediciones /\ UNCHANGED <<abierto, actual, pendientes, limpio>>
    BY DEF Importar
  <1>2. ediciones[v] \in Edicion
    BY <1>1, FilasDeEdiciones DEF InvEdiciones
  <1>3. nuevos \in [Items -> EstadosDeItem]
    BY <1>2 DEF Edicion, EstadosDeItem
  <1>4. ediciones' = [ediciones EXCEPT ![v] = e]
    BY DEF Importar
  <1> HIDE DEF nuevos
  <1>5. /\ e \in Edicion /\ e.numero = ediciones[v].numero
        /\ e.activa = ediciones[v].activa /\ e.borrada = ediciones[v].borrada
    BY <1>2, <1>3 DEF Edicion
  <1> HIDE DEF e
  <1> QED BY <1>1, <1>4, <1>5, ItemsDeUna

LEMMA EditarEdicionPaso ==
  ASSUME InvEdiciones, NEW v \in Filas, NEW b \in BOOLEAN, EditarEdicion(v, b)
  PROVE  InvEdiciones'
  <1> DEFINE e == [ediciones[v] EXCEPT !.activa = b]
  <1>1. v \in DOMAIN ediciones /\ limpio' = FALSE /\ UNCHANGED <<abierto, actual, pendientes>>
    BY DEF EditarEdicion
  <1>2. ediciones[v] \in Edicion
    BY <1>1, FilasDeEdiciones DEF InvEdiciones
  <1>3. e \in Edicion /\ e.numero = ediciones[v].numero
    BY <1>2 DEF Edicion
  <1>4. ediciones' = [ediciones EXCEPT ![v] = e]
    BY DEF EditarEdicion
  <1> HIDE DEF e
  <1>5. /\ DOMAIN ediciones' = DOMAIN ediciones
        /\ ediciones' = [w \in DOMAIN ediciones |-> ediciones'[w]]
        /\ \A w \in DOMAIN ediciones : ediciones'[w] \in Edicion /\ ediciones'[w].numero = ediciones[w].numero
    BY <1>1, <1>3, <1>4, UnaEdicion
  <1>6. actual' \in DOMAIN ediciones \cup {NINGUNA} /\ abierto' \in BOOLEAN
    BY <1>1 DEF InvEdiciones, EdicionActual
  <1> QED BY <1>1, <1>5, <1>6, PorFormulario

LEMMA RestaurarEdicionPaso ==
  ASSUME InvEdiciones, NEW v \in Filas, RestaurarEdicion(v)
  PROVE  InvEdiciones'
  <1> DEFINE e == [ediciones[v] EXCEPT !.activa = TRUE, !.borrada = FALSE]
  <1>1. v \in DOMAIN ediciones /\ UNCHANGED <<abierto, actual, pendientes, limpio>>
    BY DEF RestaurarEdicion
  <1>2. ediciones[v] \in Edicion
    BY <1>1, FilasDeEdiciones DEF InvEdiciones
  <1>3. e \in Edicion /\ e.numero = ediciones[v].numero /\ e.activa /\ ~e.borrada
    BY <1>2 DEF Edicion
  <1>4. ediciones' = [ediciones EXCEPT ![v] = e]
    BY DEF RestaurarEdicion
  <1> HIDE DEF e
  <1>5. /\ DOMAIN ediciones' = DOMAIN ediciones
        /\ ediciones' = [w \in DOMAIN ediciones |-> ediciones'[w]]
        /\ ediciones'[v] = e /\ \A w \in DOMAIN ediciones : w # v => ediciones'[w] = ediciones[w]
        /\ \A w \in DOMAIN ediciones : ediciones'[w] \in Edicion /\ ediciones'[w].numero = ediciones[w].numero
    BY <1>1, <1>3, <1>4, UnaEdicion
  <1>6. \A w \in DOMAIN ediciones :
            ediciones[w].activa /\ ~ediciones[w].borrada => ediciones'[w].activa /\ ~ediciones'[w].borrada
    BY <1>3, <1>5
  <1>7. abierto' \in BOOLEAN
    BY <1>1 DEF InvEdiciones
  <1> QED BY <1>1, <1>5, <1>6, <1>7, SiguenUsables

LEMMA CatalogoPaso ==
  ASSUME InvEdiciones,
         \/ \E v \in Filas \cup {NINGUNA}, b \in BOOLEAN : EditarCatalogo(b, v)
         \/ BorrarCatalogo
         \/ RestaurarCatalogo
  PROVE  InvEdiciones'
  <1>1. CASE \E v \in Filas \cup {NINGUNA}, b \in BOOLEAN : EditarCatalogo(b, v)
    BY <1>1 DEF EditarCatalogo, InvEdiciones, EdicionActual, EdicionesPedidas, SinSolapes
  <1>2. CASE BorrarCatalogo \/ RestaurarCatalogo
    <2>1. UNCHANGED <<actual, ediciones, pendientes, limpio>> /\ abierto' \in BOOLEAN
      BY <1>2 DEF BorrarCatalogo, RestaurarCatalogo
    <2> QED BY <2>1 DEF InvEdiciones, EdicionActual, EdicionesPedidas, SinSolapes, Comprobada, Usable
  <1> QED BY <1>1, <1>2

LEMMA EdicionesPaso ==
  ASSUME InvEdiciones, NextEdiciones \/ NextItems
  PROVE  InvEdiciones'
  <1>1. CASE NextEdiciones
    BY <1>1, CrearEdicionPaso, ComprobarPaso, EscribirPaso, EditarEdicionPaso, RestaurarEdicionPaso, CatalogoPaso,
       RepararPaso DEF NextEdiciones
  <1>2. CASE NextItems
    <2>1. CASE \E v \in Filas, c \in Items : CrearItem(v, c) \/ BorrarItem(v, c) \/ RestaurarItem(v, c)
      <3>1. \E v \in DOMAIN ediciones, c \in Items, x \in EstadosDeItem : ConItem(v, c, x)
        BY <2>1 DEF CrearItem, BorrarItem, RestaurarItem, EstadosDeItem
      <3> QED BY <3>1, ItemPaso
    <2> QED BY <1>2, <2>1, MoverItemPaso, ImportarPaso DEF NextItems
  <1> QED BY <1>1, <1>2

-----------------------------------------------------------------------------
(* The scales.                                                             *)
LEMMA FilasDeEscala ==
  ASSUME NEW R, RenglonesBien(R)
  PROVE  /\ Len(R) \in Nat /\ DOMAIN R = 1..Len(R) /\ DOMAIN R \subseteq 1..MaxRenglones
         /\ \A i \in DOMAIN R : /\ R[i] \in Renglon /\ R[i].escala \in EscalasC /\ R[i].palabra \in Etiquetas
                                /\ R[i].orden \in Lugares /\ R[i].orden \in Nat /\ R[i].dado \in BOOLEAN
  <1>1. Len(R) \in Nat /\ DOMAIN R = 1..Len(R) /\ \A i \in DOMAIN R : R[i] \in Renglon
    BY DEF RenglonesBien
  <1>2. DOMAIN R \subseteq 1..MaxRenglones
    BY <1>1, CotasDeCatalogo DEF RenglonesBien
  <1>3. \A r \in Renglon : /\ r.escala \in EscalasC /\ r.palabra \in Etiquetas
                           /\ r.orden \in Lugares /\ r.orden \in Nat /\ r.dado \in BOOLEAN
    BY CotasDeCatalogo DEF Renglon, Lugares
  <1> QED BY <1>1, <1>2, <1>3

LEMMA FormaDeTramite ==
  ASSUME NEW q \in Tramite
  PROVE  /\ q.op \in {"crear", "editar", "ordenar"} /\ q.escala \in EscalasC /\ q.dado \in BOOLEAN
         /\ q.op = "crear" => q \in AltaDeItem
         /\ q.op = "editar" => q \in CambioDeItem
         /\ q.op = "ordenar" => q \in OrdenDeItems
  BY DEF Tramite, AltaDeItem, CambioDeItem, OrdenDeItems

LEMMA SinMarca ==
  ASSUME NEW q \in Tramite
  PROVE  LET p == [q EXCEPT !.dado = FALSE]
         IN /\ p \in Tramite /\ ~p.dado /\ p.op = q.op
            /\ q.op = "editar" => p.fila = q.fila
            /\ q.op = "ordenar" => p.lugares = q.lugares
  <1> DEFINE p == [q EXCEPT !.dado = FALSE]
  <1>1. CASE q \in AltaDeItem
    <2>1. p \in AltaDeItem /\ ~p.dado /\ p.op = q.op /\ q.op = "crear"
      BY <1>1 DEF AltaDeItem
    <2> QED BY <2>1 DEF Tramite
  <1>2. CASE q \in CambioDeItem
    <2>1. p \in CambioDeItem /\ ~p.dado /\ p.op = q.op /\ q.op = "editar" /\ p.fila = q.fila
      BY <1>2 DEF CambioDeItem
    <2> QED BY <2>1 DEF Tramite
  <1>3. CASE q \in OrdenDeItems
    <2>1. PICK filas \in SUBSET (1..MaxRenglones) :
              q \in [op : {"ordenar"}, escala : EscalasC, lugares : [filas -> Lugares],
                     cambia : SUBSET filas, dado : BOOLEAN]
      BY <1>3 DEF OrdenDeItems
    <2>2. /\ p \in [op : {"ordenar"}, escala : EscalasC, lugares : [filas -> Lugares],
                    cambia : SUBSET filas, dado : BOOLEAN]
          /\ ~p.dado /\ p.op = q.op /\ q.op = "ordenar" /\ p.lugares = q.lugares
      BY <2>1
    <2>3. p \in OrdenDeItems
      BY <2>2 DEF OrdenDeItems
    <2> QED BY <2>2, <2>3 DEF Tramite
  <1> QED BY <1>1, <1>2, <1>3 DEF Tramite

(* A request that writes to some scales leaves what the others read of     *)
(* other scales as it was.                                                 *)
LEMMA OtrosValen ==
  ASSUME NEW R, NEW T, RenglonesBien(R), TramitesBien(T, R), NEW q \in T, NEW S,
         NEW Q, SoloEn(S, R, Q)
  PROVE  TramitesBien(Quedan(T, q, S), Q)
  <1> DEFINE tras(p) == IF EscalasDe(p) \cap S = {} THEN p ELSE [p EXCEPT !.dado = FALSE]
  <1> SUFFICES ASSUME NEW p \in T
               PROVE  tras(p) \in Tramite /\ DeFilas(tras(p), Q) /\ (tras(p).dado => Vale(tras(p), Q))
    BY DEF TramitesBien, Quedan
  <1>1. p \in Tramite /\ DeFilas(p, R) /\ (p.dado => Vale(p, R))
    BY DEF TramitesBien
  <1>a. /\ DOMAIN R \subseteq DOMAIN Q
        /\ \A i \in DOMAIN Q : \/ i \in DOMAIN R /\ Q[i] = R[i]
                               \/ Q[i].escala \in S /\ (i \in DOMAIN R => R[i].escala \in S)
    BY DEF SoloEn
  <1>2. CASE EscalasDe(p) \cap S # {}
    <2> DEFINE w == [p EXCEPT !.dado = FALSE]
    <2>1. /\ w \in Tramite /\ ~w.dado /\ w.op = p.op
          /\ p.op = "editar" => w.fila = p.fila
          /\ p.op = "ordenar" => w.lugares = p.lugares
      BY <1>1, SinMarca
    <2>2. tras(p) = w
      BY <1>2
    <2> HIDE DEF w
    <2>3. DeFilas(w, Q)
      BY <1>1, <1>a, <2>1 DEF DeFilas
    <2> HIDE DEF tras
    <2> QED BY <2>1, <2>2, <2>3
  <1>3. CASE EscalasDe(p) \cap S = {}
    <2>1. tras(p) = p /\ p.escala \notin S
      BY <1>3 DEF EscalasDe
    <2>2. DeFilas(p, Q)
      BY <1>1, <1>a DEF DeFilas
    <2>3. Dados(p.escala, Q) = Dados(p.escala, R) /\ \A i \in Dados(p.escala, Q) : Q[i] = R[i]
      BY <1>a, <2>1 DEF Dados
    <2>4. ASSUME p.dado, p.op = "ordenar", NEW i \in DOMAIN p.lugares PROVE Q[i] = R[i]
      <3>1. R[i].escala = p.escala /\ i \in DOMAIN R
        BY <1>1, <2>4 DEF Vale, DeFilas
      <3> QED BY <1>a, <2>1, <3>1
    <2>5. p.dado => Vale(p, Q)
      BY <1>1, <2>3, <2>4 DEF Vale
    <2> QED BY <1>1, <2>1, <2>2, <2>5
  <1> QED BY <1>2, <1>3

(* A row is written: the scales it was and is in, and the others. *)
LEMMA RenglonEscrito ==
  ASSUME NEW R, RenglonesBien(R), NEW k \in 1..MaxRenglones, NEW r \in Renglon, NEW Q,
         SeEscribe(R, k, r, Q), Cabe(R, k, r)
  PROVE  /\ RenglonesBien(Q) /\ DOMAIN Q = DOMAIN R \cup {k} /\ Q[k] = r
         /\ \A i \in DOMAIN R : i # k => Q[i] = R[i]
  <1>1. Len(R) \in Nat /\ DOMAIN R = 1..Len(R) /\ R \in Seq(Renglon) /\ Len(R) <= MaxRenglones
    BY FilasDeEscala DEF RenglonesBien
  <1>2. /\ Q \in Seq(Renglon) /\ DOMAIN Q = DOMAIN R \cup {k} /\ Q[k] = r
        /\ Len(Q) <= MaxRenglones
        /\ \A i \in DOMAIN R : i # k => Q[i] = R[i]
    <2>1. CASE k \in DOMAIN R /\ Q = [R EXCEPT ![k] = r]
      <3>1. Q = [i \in 1..Len(R) |-> IF i = k THEN r ELSE R[i]]
        BY <1>1, <2>1
      <3>2. \A i \in 1..Len(R) : (IF i = k THEN r ELSE R[i]) \in Renglon
        BY <1>1
      <3>3. Q \in Seq(Renglon) /\ Len(Q) = Len(R) /\ DOMAIN Q = DOMAIN R
        BY <1>1, <3>1, <3>2
      <3> QED BY <1>1, <2>1, <3>1, <3>3
    <2>2. CASE k = Len(R) + 1 /\ Q = Append(R, r)
      <3>1. Q \in Seq(Renglon) /\ Len(Q) = Len(R) + 1 /\ DOMAIN Q = 1..(Len(R) + 1)
        BY <1>1, <2>2
      <3> QED BY <1>1, <2>2, <3>1, CotasDeCatalogo
    <2> QED BY <2>1, <2>2 DEF SeEscribe
  <1>3. UnaPorPalabra(Q)
    BY <1>2 DEF UnaPorPalabra, RenglonesBien, Cabe
  <1>4. PlazasDistintas(Q)
    <2> SUFFICES ASSUME NEW e \in EscalasC, NEW i \in Dados(e, Q), NEW j \in Dados(e, Q), i # j
                 PROVE  Q[i].orden # Q[j].orden
      BY DEF PlazasDistintas
    <2>1. \A n \in Dados(e, Q) : n = k \/ (n \in Dados(e, R) /\ Q[n] = R[n])
      BY <1>2 DEF Dados
    <2>2. CASE i # k /\ j # k
      BY <2>1, <2>2 DEF RenglonesBien, PlazasDistintas
    <2>3. ASSUME k \in Dados(e, Q) PROVE r.dado /\ r.vivo /\ r.escala = e
      BY <1>2, <2>3 DEF Dados
    <2>4. CASE i = k
      BY <1>2, <2>1, <2>3, <2>4 DEF Cabe
    <2>5. CASE j = k
      BY <1>2, <2>1, <2>3, <2>5 DEF Cabe
    <2> QED BY <2>2, <2>4, <2>5
  <1> QED BY <1>2, <1>3, <1>4 DEF RenglonesBien

LEMMA TramitarPaso ==
  ASSUME InvEscala, NEW q \in Tramite, DeFilas(q, renglones), q.dado => Vale(q, renglones), Tramitar(q)
  PROVE  InvEscala'
  BY DEF InvEscala, TramitesBien, Tramitar

LEMMA PedirItemPaso ==
  ASSUME InvEscala, NEW e \in EscalasC, NEW t \in Etiquetas, NEW n \in 0..MaxOrden, PedirItemDeEscala(e, t, n)
  PROVE  InvEscala'
  <1> DEFINE R == renglones
             lugar == IF n = 0 THEN SiguienteOrden(e) ELSE n
             q == [op |-> "crear", escala |-> e, palabra |-> t, orden |-> lugar, dado |-> n = 0]
  <1>1. \A i \in DOMAIN R : R[i].orden \in Nat /\ R[i].orden <= MaxOrden
    BY FilasDeEscala, CotasDeCatalogo DEF InvEscala, Lugares
  <1>2. SiguienteOrden(e) \in Nat \ {0} /\ \A i \in Vivos(e) : R[i].orden < SiguienteOrden(e)
    <2> DEFINE M == {R[i].orden : i \in Vivos(e)}
    <2>1. CASE Vivos(e) = {}
      BY <2>1 DEF SiguienteOrden
    <2>2. CASE Vivos(e) # {}
      <3>1. M \in SUBSET Nat /\ M # {} /\ (\A x \in M : x <= MaxOrden) /\ \A i \in Vivos(e) : R[i].orden \in M
        BY <1>1, <2>2 DEF Vivos
      <3> HIDE DEF M
      <3>2. Mayor(M) \in Nat /\ \A x \in M : x \in Nat /\ x <= Mayor(M)
        BY <3>1, MayorEs, CotasDeCatalogo
      <3>3. SiguienteOrden(e) = Mayor(M) + 1
        BY <2>2 DEF SiguienteOrden, M
      <3>4. \A i \in Vivos(e) : R[i].orden \in Nat /\ R[i].orden <= Mayor(M)
        BY <3>1, <3>2
      <3> HIDE DEF R
      <3>5. \A i \in Vivos(e) : R[i].orden < Mayor(M) + 1
        BY <3>2, <3>4
      <3> QED BY <3>2, <3>3, <3>5
    <2> QED BY <2>1, <2>2
  <1>3. lugar \in Lugares
    BY <1>2, CotasDeCatalogo DEF PedirItemDeEscala, Lugares
  <1>4. q.dado => Vale(q, R)
    <2>1. \A j \in Dados(e, R) : j \in Vivos(e)
      BY DEF Dados, Vivos
    <2> QED BY <1>2, <2>1 DEF Vale
  <1> HIDE DEF lugar
  <1>5. q \in Tramite /\ DeFilas(q, R)
    BY <1>3 DEF Tramite, AltaDeItem, DeFilas
  <1>6. Tramitar(q)
    BY DEF PedirItemDeEscala, lugar
  <1> HIDE DEF q
  <1> QED BY <1>4, <1>5, <1>6, TramitarPaso

LEMMA LeerItemPaso ==
  ASSUME InvEscala, NEW i \in 1..MaxRenglones, NEW e \in EscalasC, NEW t \in Etiquetas, NEW n \in 0..MaxOrden,
         LeerItemDeEscala(i, e, t, n)
  PROVE  InvEscala'
  <1> DEFINE r == renglones[i]
             lugar == IF n = 0 THEN r.orden ELSE n
             dado == n = 0 /\ e = r.escala /\ r.vivo /\ r.dado
             q == [op |-> "editar", fila |-> i, de |-> r.escala, escala |-> e, palabra |-> t,
                   orden |-> lugar, dado |-> dado]
  <1>1. i \in DOMAIN renglones /\ Tramitar(q)
    BY DEF LeerItemDeEscala
  <1>2. r.escala \in EscalasC /\ r.orden \in Lugares
    BY <1>1, FilasDeEscala DEF InvEscala
  <1>3. lugar \in Lugares /\ dado \in BOOLEAN
    BY <1>2, CotasDeCatalogo DEF Lugares
  <1>4. dado => \A j \in Dados(e, renglones) : j # i => renglones[j].orden # lugar
    <2>1. dado => i \in Dados(e, renglones) /\ lugar = r.orden
      BY <1>1 DEF Dados
    <2> HIDE DEF lugar, dado
    <2> QED BY <2>1 DEF InvEscala, RenglonesBien, PlazasDistintas
  <1> HIDE DEF lugar, dado
  <1>5. q \in Tramite
    BY <1>2, <1>3 DEF Tramite, CambioDeItem
  <1>6. DeFilas(q, renglones) /\ (q.dado => Vale(q, renglones))
    BY <1>1, <1>4 DEF DeFilas, Vale
  <1> HIDE DEF q
  <1> QED BY <1>1, <1>5, <1>6, TramitarPaso

LEMMA LeerEscalaPaso ==
  ASSUME InvEscala, NEW e \in EscalasC, NEW m \in 1..MaxOrden, NEW lista \in [1..m -> Vivos(e)],
         LeerEscala(e, lista)
  PROVE  InvEscala'
  <1> DEFINE en(i) == {n \in DOMAIN lista : lista[n] = i}
             lugares == [i \in Vivos(e) |-> Mayor(en(i))]
             cambia == {i \in Vivos(e) : en(i) # {renglones[i].orden}}
             q == [op |-> "ordenar", escala |-> e, lugares |-> lugares, cambia |-> cambia, dado |-> TRUE]
  <1>1. Tramitar(q) /\ {lista[n] : n \in DOMAIN lista} = Vivos(e)
    BY DEF LeerEscala
  <1>2. DOMAIN lista = 1..m /\ DOMAIN lista \subseteq Lugares /\ DOMAIN lista \subseteq Nat
        /\ \A n \in DOMAIN lista : n <= MaxOrden
    BY CotasDeCatalogo DEF Lugares
  <1>3. ASSUME NEW i \in Vivos(e) PROVE Mayor(en(i)) \in en(i) /\ \A x \in en(i) : x <= Mayor(en(i))
    <2>1. en(i) \in SUBSET Nat /\ en(i) # {} /\ \A x \in en(i) : x <= MaxOrden
      BY <1>1, <1>2
    <2> HIDE DEF en
    <2> QED BY <2>1, MayorEs, CotasDeCatalogo
  <1>4. \A i \in Vivos(e) : Mayor(en(i)) \in Lugares /\ lista[Mayor(en(i))] = i
    BY <1>2, <1>3
  <1>5. Vivos(e) \subseteq DOMAIN renglones /\ Vivos(e) \in SUBSET (1..MaxRenglones)
    BY FilasDeEscala DEF Vivos, InvEscala
  <1>6. ASSUME NEW i \in Vivos(e), i \notin cambia PROVE renglones[i].orden = Mayor(en(i))
    BY <1>3, <1>6
  <1> HIDE DEF en
  <1>7. /\ lugares \in [Vivos(e) -> Lugares] /\ DOMAIN lugares = Vivos(e)
        /\ \A i \in Vivos(e) : lugares[i] = Mayor(en(i))
    BY <1>4
  <1>8. cambia \subseteq Vivos(e)
    OBVIOUS
  <1>9. Vale(q, renglones)
    <2>1. Dados(e, renglones) \subseteq Vivos(e)
      BY DEF Dados, Vivos
    <2>2. \A i \in Vivos(e) : renglones[i].escala = e
      BY DEF Vivos
    <2> HIDE DEF lugares, cambia
    <2>3. \A i, j \in Vivos(e) : i # j => lugares[i] # lugares[j]
      BY <1>4, <1>7
    <2> QED BY <1>6, <1>7, <2>1, <2>2, <2>3 DEF Vale
  <1> HIDE DEF lugares, cambia
  <1>10. q \in Tramite
    BY <1>5, <1>7, <1>8 DEF Tramite, OrdenDeItems
  <1>11. DeFilas(q, renglones)
    BY <1>5, <1>7 DEF DeFilas
  <1> HIDE DEF q
  <1> QED BY <1>1, <1>9, <1>10, <1>11, TramitarPaso

(* A request writes its row: the others of those scales know of it.        *)
LEMMA ItemEscrito ==
  ASSUME InvEscala, NEW q \in tramites, NEW S, tramites' = TrasEscribir(q, S),
         NEW k \in 1..MaxRenglones, NEW r \in Renglon,
         SeEscribe(renglones, k, r, renglones'), Cabe(renglones, k, r),
         r.escala \in S, k \in DOMAIN renglones => renglones[k].escala \in S
  PROVE  InvEscala'
  <1>1. RenglonesBien(renglones) /\ TramitesBien(tramites, renglones)
    BY DEF InvEscala
  <1>2. /\ RenglonesBien(renglones') /\ DOMAIN renglones' = DOMAIN renglones \cup {k} /\ renglones'[k] = r
        /\ \A i \in DOMAIN renglones : i # k => renglones'[i] = renglones[i]
    BY <1>1, RenglonEscrito
  <1>3. SoloEn(S, renglones, renglones')
    BY <1>2 DEF SoloEn
  <1>4. TramitesBien(Quedan(tramites, q, S), renglones')
    BY <1>1, <1>3, OtrosValen
  <1> QED BY <1>2, <1>4 DEF InvEscala, TrasEscribir, Quedan

LEMMA CrearItemDeEscalaPaso ==
  ASSUME InvEscala, NEW q \in tramites, CrearItemDeEscala(q)
  PROVE  InvEscala'
  <1> DEFINE R == renglones
             r == [escala |-> q.escala, palabra |-> q.palabra, vivo |-> TRUE, orden |-> q.orden, dado |-> q.dado]
  <1>1. RenglonesBien(R) /\ TramitesBien(tramites, R)
    BY DEF InvEscala
  <1>2. q \in AltaDeItem /\ q.op = "crear" /\ (q.dado => Vale(q, R))
    BY <1>1, FormaDeTramite DEF TramitesBien, CrearItemDeEscala
  <1>3. r \in Renglon /\ r.escala = q.escala /\ r.palabra = q.palabra /\ r.orden = q.orden /\ r.dado = q.dado
    BY <1>2 DEF AltaDeItem, Renglon
  <1>4. r.dado => \A j \in Dados(r.escala, R) : R[j].orden # r.orden
    <2>1. \A j \in Dados(r.escala, R) : R[j].orden \in Nat
      BY <1>1, FilasDeEscala DEF Dados
    <2>2. q.orden \in Nat
      BY <1>2, CotasDeCatalogo DEF AltaDeItem, Lugares
    <2> HIDE DEF r
    <2> QED BY <1>2, <1>3, <2>1, <2>2 DEF Vale
  <1>5. /\ Len(R) \in Nat /\ DOMAIN R = 1..Len(R) /\ DOMAIN R \subseteq 1..MaxRenglones
    BY <1>1, FilasDeEscala
  <1> HIDE DEF r
  <1>6. \E k \in 1..MaxRenglones : /\ SeEscribe(R, k, r, renglones') /\ Cabe(R, k, r)
                                   /\ k \in DOMAIN R => R[k].escala = q.escala
    <2>1. CASE ConPalabra(q.escala, q.palabra) = {} /\ Len(R) < MaxRenglones /\ renglones' = Append(R, r)
      <3>1. Len(R) + 1 \in 1..MaxRenglones /\ Len(R) + 1 \notin DOMAIN R
        BY <1>5, <2>1, CotasDeCatalogo
      <3>2. \A i \in DOMAIN R : R[i].escala # r.escala \/ R[i].palabra # r.palabra
        BY <1>3, <2>1 DEF ConPalabra
      <3>3. SeEscribe(R, Len(R) + 1, r, renglones') /\ Cabe(R, Len(R) + 1, r)
        BY <1>4, <2>1, <3>2 DEF SeEscribe, Cabe
      <3> QED BY <3>1, <3>3
    <2>2. ASSUME NEW k \in ConPalabra(q.escala, q.palabra), renglones' = [R EXCEPT ![k] = r]
          PROVE  /\ k \in 1..MaxRenglones /\ SeEscribe(R, k, r, renglones') /\ Cabe(R, k, r)
                 /\ R[k].escala = q.escala
      <3>1. k \in DOMAIN R /\ R[k].escala = q.escala /\ R[k].palabra = q.palabra
        BY <2>2 DEF ConPalabra
      <3>2. \A i \in DOMAIN R : i # k => R[i].escala # r.escala \/ R[i].palabra # r.palabra
        BY <1>1, <1>3, <3>1 DEF RenglonesBien, UnaPorPalabra
      <3> QED BY <1>4, <1>5, <2>2, <3>1, <3>2 DEF SeEscribe, Cabe
    <2>3. \/ ConPalabra(q.escala, q.palabra) = {} /\ Len(R) < MaxRenglones /\ renglones' = Append(R, r)
          \/ \E k \in ConPalabra(q.escala, q.palabra) : renglones' = [R EXCEPT ![k] = r]
      BY DEF CrearItemDeEscala, r
    <2> QED BY <2>1, <2>2, <2>3
  <1>7. tramites' = TrasEscribir(q, {q.escala})
    BY DEF CrearItemDeEscala
  <1>8. ASSUME NEW k \in 1..MaxRenglones, SeEscribe(R, k, r, renglones'), Cabe(R, k, r),
               k \in DOMAIN R => R[k].escala = q.escala
        PROVE  InvEscala'
    <2> DEFINE S == {q.escala}
    <2>1. tramites' = TrasEscribir(q, S) /\ r.escala \in S /\ (k \in DOMAIN R => R[k].escala \in S)
      BY <1>3, <1>7, <1>8
    <2> HIDE DEF S
    <2> QED BY <1>3, <1>8, <2>1, ItemEscrito
  <1>9. PICK k \in 1..MaxRenglones : /\ SeEscribe(R, k, r, renglones') /\ Cabe(R, k, r)
                                     /\ k \in DOMAIN R => R[k].escala = q.escala
    BY <1>6
  <1> HIDE DEF R
  <1> QED BY <1>8, <1>9

LEMMA EditarItemDeEscalaPaso ==
  ASSUME InvEscala, NEW q \in tramites, EditarItemDeEscala(q)
  PROVE  InvEscala'
  <1> DEFINE R == renglones
             r == [escala |-> q.escala, palabra |-> q.palabra, vivo |-> TRUE, orden |-> q.orden, dado |-> q.dado]
             S == {q.de, q.escala, R[q.fila].escala}
  <1>1. RenglonesBien(R) /\ TramitesBien(tramites, R)
    BY DEF InvEscala
  <1>2. q \in CambioDeItem /\ q.op = "editar" /\ q.fila \in DOMAIN R /\ (q.dado => Vale(q, R))
    BY <1>1, FormaDeTramite DEF TramitesBien, EditarItemDeEscala, DeFilas
  <1>3. r \in Renglon /\ r.escala = q.escala /\ r.palabra = q.palabra /\ r.orden = q.orden /\ r.dado = q.dado
    BY <1>2 DEF CambioDeItem, Renglon
  <1>4. /\ renglones' = [R EXCEPT ![q.fila] = r] /\ tramites' = TrasEscribir(q, S)
        /\ ConPalabra(q.escala, q.palabra) \subseteq {q.fila}
    BY DEF EditarItemDeEscala
  <1> HIDE DEF r, S
  <1>5. q.fila \in 1..MaxRenglones
    BY <1>1, <1>2, FilasDeEscala
  <1>6. \A i \in DOMAIN R : i # q.fila => R[i].escala # r.escala \/ R[i].palabra # r.palabra
    BY <1>3, <1>4 DEF ConPalabra
  <1>7. SeEscribe(R, q.fila, r, renglones') /\ Cabe(R, q.fila, r)
    BY <1>2, <1>3, <1>4, <1>6 DEF Vale, SeEscribe, Cabe
  <1>8. r.escala \in S /\ R[q.fila].escala \in S
    BY <1>3 DEF S
  <1> QED BY <1>3, <1>4, <1>5, <1>7, <1>8, ItemEscrito

(* One request answered and nothing written. *)
LEMMA RechazarItemPaso ==
  ASSUME InvEscala, NEW q \in tramites, RechazarItemDeEscala(q)
  PROVE  InvEscala'
  BY DEF InvEscala, TramitesBien, RechazarItemDeEscala

(* A deleted item has no place, one that is restored none the code gave. *)
LEMMA BorrarRestaurarDeEscalaPaso ==
  ASSUME InvEscala, NEW k \in 1..MaxRenglones, BorrarItemDeEscala(k) \/ RestaurarItemDeEscala(k)
  PROVE  InvEscala'
  <1> DEFINE R == renglones
  <1>1. RenglonesBien(R) /\ TramitesBien(tramites, R)
    BY DEF InvEscala
  <1>2. \E r \in Renglon :
            /\ renglones' = [R EXCEPT ![k] = r] /\ k \in DOMAIN R /\ tramites' = tramites
            /\ r.escala = R[k].escala /\ r.palabra = R[k].palabra /\ r.orden = R[k].orden
            /\ ~(r.vivo /\ r.dado)
    <2>1. CASE BorrarItemDeEscala(k)
      <3> DEFINE r == [R[k] EXCEPT !.vivo = FALSE]
      <3>1. k \in DOMAIN R /\ R[k] \in Renglon /\ tramites' = tramites
        BY <1>1, <2>1, FilasDeEscala DEF BorrarItemDeEscala
      <3>2. renglones' = [R EXCEPT ![k] = r]
        BY <2>1 DEF BorrarItemDeEscala
      <3>3. r \in Renglon /\ ~r.vivo /\ r.escala = R[k].escala /\ r.palabra = R[k].palabra /\ r.orden = R[k].orden
        BY <3>1 DEF Renglon
      <3> HIDE DEF r
      <3> QED BY <3>1, <3>2, <3>3
    <2>2. CASE RestaurarItemDeEscala(k)
      <3> DEFINE r == [R[k] EXCEPT !.vivo = TRUE, !.dado = FALSE]
      <3>1. k \in DOMAIN R /\ R[k] \in Renglon /\ tramites' = tramites
        BY <1>1, <2>2, FilasDeEscala DEF RestaurarItemDeEscala
      <3>2. renglones' = [R EXCEPT ![k] = r]
        BY <2>2, <3>1 DEF RestaurarItemDeEscala, Renglon
      <3>3. r \in Renglon /\ ~r.dado /\ r.escala = R[k].escala /\ r.palabra = R[k].palabra /\ r.orden = R[k].orden
        BY <3>1 DEF Renglon
      <3> HIDE DEF r
      <3> QED BY <3>1, <3>2, <3>3
    <2> QED BY <2>1, <2>2
  <1>3. PICK r \in Renglon :
            /\ renglones' = [R EXCEPT ![k] = r] /\ k \in DOMAIN R /\ tramites' = tramites
            /\ r.escala = R[k].escala /\ r.palabra = R[k].palabra /\ r.orden = R[k].orden
            /\ ~(r.vivo /\ r.dado)
    BY <1>2
  <1>4. \A i \in DOMAIN R : i # k => R[i].escala # r.escala \/ R[i].palabra # r.palabra
    BY <1>1, <1>3 DEF RenglonesBien, UnaPorPalabra
  <1>b. k \in 1..MaxRenglones /\ SeEscribe(R, k, r, renglones') /\ Cabe(R, k, r)
    BY <1>3, <1>4 DEF SeEscribe, Cabe
  <1>5. /\ RenglonesBien(renglones') /\ DOMAIN renglones' = DOMAIN R \cup {k} /\ renglones'[k] = r
        /\ \A i \in DOMAIN R : i # k => renglones'[i] = R[i]
    BY <1>1, <1>b, RenglonEscrito
  <1>6. ASSUME NEW q \in tramites PROVE DeFilas(q, renglones') /\ (q.dado => Vale(q, renglones'))
    <2>1. DeFilas(q, R) /\ (q.dado => Vale(q, R))
      BY <1>1 DEF TramitesBien
    <2>2. DeFilas(q, renglones')
      BY <1>3, <1>5, <2>1 DEF DeFilas
    <2>3. \A i \in Dados(q.escala, renglones') : i \in Dados(q.escala, R) /\ renglones'[i] = R[i]
      BY <1>3, <1>5 DEF Dados
    <2>4. \A i \in DOMAIN R : renglones'[i].escala = R[i].escala /\ renglones'[i].orden = R[i].orden
      BY <1>3, <1>5
    <2>5. q.op = "ordenar" => DOMAIN q.lugares \subseteq DOMAIN R
      BY <2>1 DEF DeFilas
    <2>6. q.dado => Vale(q, renglones')
      BY <2>1, <2>3, <2>4, <2>5 DEF Vale
    <2> QED BY <2>2, <2>6
  <1>7. TramitesBien(tramites', renglones')
    BY <1>1, <1>3, <1>6 DEF TramitesBien
  <1> QED BY <1>5, <1>7 DEF InvEscala

(* What reorder writes: when nothing was written to the scale since it     *)
(* read, every live item of it has its place in the list.                  *)
LEMMA ReordenarPaso ==
  ASSUME InvEscala, NEW q \in tramites, Reordenar(q)
  PROVE  InvEscala'
  <1> DEFINE R == renglones
             nuevo(i) == [R[i] EXCEPT !.orden = IF i \in q.cambia THEN q.lugares[i] ELSE @,
                                      !.dado = IF q.dado /\ i \in DOMAIN q.lugares THEN TRUE
                                               ELSE @ /\ i \notin q.cambia]
             N == renglones'
             S == {q.escala} \cup {R[i].escala : i \in q.cambia}
  <1>1. RenglonesBien(R) /\ TramitesBien(tramites, R)
    BY DEF InvEscala
  <1>2. q \in OrdenDeItems /\ q.op = "ordenar" /\ DOMAIN q.lugares \subseteq DOMAIN R /\ (q.dado => Vale(q, R))
    BY <1>1, FormaDeTramite DEF TramitesBien, Reordenar, DeFilas
  <1>3. q.cambia \subseteq DOMAIN q.lugares /\ \A i \in DOMAIN q.lugares : q.lugares[i] \in Lugares
    <2>1. PICK filas \in SUBSET (1..MaxRenglones) :
              q \in [op : {"ordenar"}, escala : EscalasC, lugares : [filas -> Lugares],
                     cambia : SUBSET filas, dado : BOOLEAN]
      BY <1>2 DEF OrdenDeItems
    <2> QED BY <2>1
  <1>4. q.dado \in BOOLEAN
    BY <1>1, FormaDeTramite DEF TramitesBien
  <1>5. renglones' = [i \in DOMAIN R |-> nuevo(i)] /\ tramites' = TrasEscribir(q, S)
    BY DEF Reordenar
  <1>6. Len(R) \in Nat /\ DOMAIN R = 1..Len(R) /\ Len(R) <= MaxRenglones
    BY <1>1, FilasDeEscala DEF RenglonesBien
  <1>7. DOMAIN N = DOMAIN R /\ N = [i \in 1..Len(R) |-> N[i]]
    BY <1>5, <1>6
  <1>8. ASSUME NEW i \in DOMAIN R
        PROVE  /\ N[i] \in Renglon /\ N[i].escala = R[i].escala /\ N[i].palabra = R[i].palabra /\ N[i].vivo = R[i].vivo
               /\ N[i].orden = IF i \in q.cambia THEN q.lugares[i] ELSE R[i].orden
               /\ N[i].dado = IF q.dado /\ i \in DOMAIN q.lugares THEN TRUE ELSE R[i].dado /\ i \notin q.cambia
               /\ N[i] = R[i] \/ i \in q.cambia \/ (q.dado /\ i \in DOMAIN q.lugares)
    <2>1. R[i] \in Renglon
      BY <1>1, FilasDeEscala
    <2> DEFINE lugar == IF i \in q.cambia THEN q.lugares[i] ELSE R[i].orden
               dado == IF q.dado /\ i \in DOMAIN q.lugares THEN TRUE ELSE R[i].dado /\ i \notin q.cambia
    <2>2. lugar \in Lugares /\ dado \in BOOLEAN
      BY <1>3, <2>1 DEF Renglon
    <2>3. N[i] = nuevo(i)
      BY <1>5
    <2>a. nuevo(i) = [R[i] EXCEPT !.orden = lugar, !.dado = dado]
      BY <2>1 DEF Renglon
    <2>4. i \notin q.cambia /\ ~(q.dado /\ i \in DOMAIN q.lugares) => lugar = R[i].orden /\ dado = R[i].dado
      BY <2>1 DEF Renglon
    <2> HIDE DEF lugar, dado, nuevo
    <2>b. N[i] = [R[i] EXCEPT !.orden = lugar, !.dado = dado]
      BY <2>3, <2>a
    <2> HIDE DEF N
    <2>5. /\ N[i] \in Renglon /\ N[i].escala = R[i].escala /\ N[i].palabra = R[i].palabra /\ N[i].vivo = R[i].vivo
          /\ N[i].orden = lugar /\ N[i].dado = dado
      BY <2>1, <2>2, <2>b DEF Renglon
    <2>6. lugar = R[i].orden /\ dado = R[i].dado => N[i] = R[i]
      BY <2>1, <2>b DEF Renglon
    <2> QED BY <2>4, <2>5, <2>6 DEF lugar, dado
  <1> HIDE DEF N, nuevo
  <1>a. N \in Seq(Renglon) /\ Len(N) = Len(R)
    <2>1. \A i \in 1..Len(R) : N[i] \in Renglon
      BY <1>6, <1>8
    <2>2. N \in [1..Len(R) -> Renglon]
      BY <1>7, <2>1
    <2> QED BY <1>6, <2>2
  <1>9. UnaPorPalabra(N)
    <2> SUFFICES ASSUME NEW i \in DOMAIN R, NEW j \in DOMAIN R, i # j
                 PROVE  N[i].escala # N[j].escala \/ N[i].palabra # N[j].palabra
      BY <1>7 DEF UnaPorPalabra
    <2>1. R[i].escala # R[j].escala \/ R[i].palabra # R[j].palabra
      BY <1>1 DEF RenglonesBien, UnaPorPalabra
    <2> QED BY <1>8, <2>1
  <1>10. PlazasDistintas(N)
    <2> SUFFICES ASSUME NEW e \in EscalasC, NEW i \in Dados(e, N), NEW j \in Dados(e, N), i # j
                 PROVE  N[i].orden # N[j].orden
      BY DEF PlazasDistintas
    <2>1. /\ i \in DOMAIN R /\ j \in DOMAIN R /\ N[i].dado /\ N[j].dado
          /\ R[i].vivo /\ R[j].vivo /\ R[i].escala = e /\ R[j].escala = e
      BY <1>7, <1>8 DEF Dados
    <2>2. CASE i \notin q.cambia /\ j \notin q.cambia /\ ~(q.dado /\ i \in DOMAIN q.lugares)
                /\ ~(q.dado /\ j \in DOMAIN q.lugares)
      <3>1. i \in Dados(e, R) /\ j \in Dados(e, R)
        BY <1>8, <2>1, <2>2 DEF Dados
      <3>2. R[i].orden # R[j].orden
        BY <1>1, <3>1 DEF RenglonesBien, PlazasDistintas
      <3> QED BY <1>8, <2>1, <2>2, <3>2
    <2>3. CASE ~q.dado
      BY <1>8, <2>1, <2>2, <2>3
    <2>4. ASSUME q.dado, NEW n \in DOMAIN R, N[n].dado, R[n].vivo, R[n].escala = q.escala
          PROVE  n \in DOMAIN q.lugares /\ N[n].orden = q.lugares[n]
      <3>1. n \in DOMAIN q.lugares
        <4>1. n \notin DOMAIN q.lugares => n \in Dados(q.escala, R)
          BY <1>8, <2>4 DEF Dados
        <4> QED BY <1>2, <2>4, <4>1 DEF Vale
      <3>2. n \notin q.cambia => R[n].orden = q.lugares[n]
        BY <1>2, <2>4, <3>1 DEF Vale
      <3> QED BY <1>8, <3>1, <3>2
    <2>5. CASE q.dado /\ e = q.escala
      <3>1. /\ i \in DOMAIN q.lugares /\ N[i].orden = q.lugares[i]
            /\ j \in DOMAIN q.lugares /\ N[j].orden = q.lugares[j]
        BY <2>1, <2>4, <2>5
      <3> QED BY <1>2, <1>8, <2>1, <2>5, <3>1 DEF Vale
    <2>6. CASE q.dado /\ e # q.escala
      <3>1. i \notin DOMAIN q.lugares /\ j \notin DOMAIN q.lugares
        BY <1>2, <2>1, <2>6 DEF Vale
      <3> QED BY <1>3, <2>2, <3>1
    <2> QED BY <1>4, <2>3, <2>5, <2>6
  <1>11. RenglonesBien(N)
    BY <1>6, <1>a, <1>9, <1>10 DEF RenglonesBien
  <1>12. SoloEn(S, R, N)
    <2> SUFFICES ASSUME NEW i \in DOMAIN R, N[i] # R[i]
                 PROVE  N[i].escala \in S /\ R[i].escala \in S
      BY <1>7 DEF SoloEn
    <2>1. i \in q.cambia \/ (q.dado /\ i \in DOMAIN q.lugares)
      BY <1>8
    <2>2. R[i].escala \in S
      BY <1>2, <2>1 DEF Vale
    <2> QED BY <1>8, <2>2
  <1> HIDE DEF S
  <1>13. TramitesBien(Quedan(tramites, q, S), N)
    BY <1>1, <1>12, OtrosValen
  <1> QED BY <1>5, <1>11, <1>13 DEF InvEscala, TrasEscribir, Quedan, N

LEMMA EscalaPaso ==
  ASSUME InvEscala, NextEscala
  PROVE  InvEscala'
  BY PedirItemPaso, LeerItemPaso, LeerEscalaPaso, CrearItemDeEscalaPaso, EditarItemDeEscalaPaso, RechazarItemPaso,
     BorrarRestaurarDeEscalaPaso, ReordenarPaso DEF NextEscala

-----------------------------------------------------------------------------
LEMMA CatalogosInicio ==
  ASSUME InitCatalogos
  PROVE  InvEdiciones /\ InvEscala
  <1> DEFINE e == [numero |-> 1, activa |-> TRUE, borrada |-> FALSE, items |-> [c \in Items |-> "no"]]
  <1>1. e \in Edicion /\ e.activa /\ ~e.borrada
    BY CotasDeCatalogo DEF Edicion, EstadosDeItem
  <1>2. ediciones = <<e>> /\ actual = 1 /\ pendientes = {} /\ abierto = TRUE /\ limpio = TRUE
    BY DEF InitCatalogos
  <1> HIDE DEF e
  <1>3. ediciones \in Seq(Edicion) /\ Len(ediciones) = 1 /\ DOMAIN ediciones = {1} /\ ediciones[1] = e
    BY <1>1, <1>2
  <1>4. InvEdiciones
    BY <1>1, <1>2, <1>3, CotasDeCatalogo DEF InvEdiciones, EdicionActual, EdicionesPedidas, SinSolapes, Usable
  <1>5. InvEscala
    BY CotasDeCatalogo DEF InitCatalogos, InvEscala, RenglonesBien, TramitesBien, UnaPorPalabra, PlazasDistintas, Dados
  <1> QED BY <1>4, <1>5

LEMMA CatalogosInv == SpecCatalogos => [](InvEdiciones /\ InvEscala)
  <1>1. ASSUME InvEdiciones, InvEscala, [NextEdiciones \/ NextItems \/ NextEscala]_varsCatalogos
        PROVE  (InvEdiciones /\ InvEscala)'
    <2>2. CASE NextEdiciones \/ NextItems
      <3>1. UNCHANGED <<renglones, tramites>>
        BY <2>2 DEF NextEdiciones, NextItems, CrearEdicion, Comprobar, Escribir, EditarEdicion, RestaurarEdicion,
                    EditarCatalogo, BorrarCatalogo, RestaurarCatalogo, Reparar, CrearItem, BorrarItem, RestaurarItem,
                    ConItem, MoverItem, Importar, EscalaIgual
      <3>2. InvEscala'
        BY <1>1, <3>1 DEF InvEscala
      <3> QED BY <1>1, <2>2, <3>2, EdicionesPaso
    <2>3. ASSUME CatalogoIgual PROVE InvEdiciones'
      BY <1>1, <2>3 DEF CatalogoIgual, InvEdiciones, EdicionActual, EdicionesPedidas, SinSolapes, Comprobada, Usable
    <2>4. CASE NextEscala
      <3>1. CatalogoIgual
        BY <2>4 DEF NextEscala, PedirItemDeEscala, LeerItemDeEscala, LeerEscala, Tramitar, CrearItemDeEscala,
                    EditarItemDeEscala, RechazarItemDeEscala, BorrarItemDeEscala, RestaurarItemDeEscala, Reordenar
      <3> QED BY <1>1, <2>3, <2>4, <3>1, EscalaPaso
    <2>5. CASE UNCHANGED varsCatalogos
      BY <1>1, <2>3, <2>5 DEF varsCatalogos, CatalogoIgual, InvEscala
    <2> QED BY <1>1, <2>2, <2>4, <2>5
  <1> QED BY <1>1, CatalogosInicio, PTL DEF SpecCatalogos

(* The rows of a catalogue and of a scale keep their form, and no two      *)
(* editions of a catalogue have the same number.                           *)
THEOREM CatalogosTipados == SpecCatalogos => []TiposCatalogos
  <1>1. InvEdiciones /\ InvEscala => TiposCatalogos
    BY FilasDeEdiciones DEF InvEdiciones, EdicionActual, InvEscala, RenglonesBien, TramitesBien, UnaPorPalabra,
                            Tramite, TiposCatalogos
  <1> QED BY <1>1, CatalogosInv, PTL

(* While no two requests overlap and no generic form writes, the current   *)
(* edition of a catalogue can be used, however many editions and items are *)
(* created, retired, restored, moved or imported                           *)
(* (dynamicTechnicalConfig/index.py:296-370).                              *)
THEOREM VigenteSiempreUsable == SpecCatalogos => []VigenteUsable
  <1>1. InvEdiciones => VigenteUsable
    BY FilasDeEdiciones, NingunaAparte DEF InvEdiciones, SinSolapes, VigenteUsable
  <1> QED BY <1>1, CatalogosInv, PTL

(* For any scales, items and requests on them, the live items of a scale   *)
(* whose place the code gave, or reorder wrote, in a request no other      *)
(* wrote to the scale during, have different places, whatever overlapped   *)
(* beside them (serializers/dynamicTechnicalConfig/index.py:202-253,       *)
(* views/dynamicTechnicalConfig/index.py:603-640).                         *)
THEOREM OrdenSiempreUnico == SpecCatalogos => []OrdenUnico
  <1>1. InvEscala => OrdenUnico
    BY DEF InvEscala, RenglonesBien, PlazasDistintas, Dados, OrdenUnico, Vivos
  <1> QED BY <1>1, CatalogosInv, PTL

=============================================================================
