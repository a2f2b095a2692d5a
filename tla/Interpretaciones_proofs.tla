----------------------- MODULE Interpretaciones_proofs -----------------------
(***************************************************************************)
(* Proofs about Interpretaciones, for any samples, requests and bounds:    *)
(* the row lock of the sample keeps the version numbers apart; the batch   *)
(* generation never leaves a report in force over an invalidated result,   *)
(* issues what its samples hold, and is the only one ever in an embrace.   *)
(***************************************************************************)
EXTENDS Interpretaciones, TLAPS

(* The shape of the requests: what a step writes stays where it is read. *)
EsPeticion(r) ==
    /\ r = [paso |-> r.paso, tipo |-> r.tipo, m |-> r.m, leida |-> r.leida,
            foto |-> r.foto, version |-> r.version]
    /\ r.paso \in Pasos
    /\ r.foto = [m \in Muestras |-> r.foto[m]]
    /\ r.tipo # "generarLote" => r.m \in Muestras

Estructura ==
    /\ ultima = [m \in Muestras |-> ultima[m]]
    /\ candado = [m \in Muestras |-> candado[m]]
    /\ peticion = [p \in Peticiones |-> peticion[p]]
    /\ \A p \in Peticiones : peticion[p] = Libre \/ EsPeticion(peticion[p])

(* Whoever is about to commit on a sample holds its row. *)
CandadoTomado ==
    \A p \in Peticiones :
        EnCurso(p, "guardar", "confirmar") => candado[peticion[p].m] = p

(* An invalidation takes the review of its sample back. *)
RevisadaSinRechazo == revisadas \cap rechazadas = {}

EsInforme(i) ==
    i = [x \in DOMAIN i |-> i[x]]
    /\ {"muestra", "vigente", "delLote"} \subseteq DOMAIN i
SonInformes == \A i \in informes : EsInforme(i)

Numeracion == Estructura /\ CandadoTomado /\ ConsecutivoLibre
Vigencia   == SonInformes /\ RevisadaSinRechazo /\ InformeDeLoteVigente

-----------------------------------------------------------------------------
(* A request keeps its shape when some of its fields change. *)
LEMMA CambiaPaso ==
  ASSUME NEW r, EsPeticion(r), NEW paso \in Pasos
  PROVE  LET s == [r EXCEPT !.paso = paso] IN
         EsPeticion(s) /\ s.paso = paso /\ s.tipo = r.tipo /\ s.m = r.m /\ s.foto = r.foto
  BY DEF EsPeticion

LEMMA CambiaLeida ==
  ASSUME NEW r, EsPeticion(r), NEW leida
  PROVE  LET s == [r EXCEPT !.leida = leida] IN
         EsPeticion(s) /\ s.leida = leida /\ s.paso = r.paso /\ s.tipo = r.tipo
         /\ s.m = r.m /\ s.foto = r.foto
  BY DEF EsPeticion

LEMMA CambiaVersion ==
  ASSUME NEW r, EsPeticion(r), NEW version
  PROVE  LET s == [r EXCEPT !.version = version] IN
         EsPeticion(s) /\ s.paso = r.paso /\ s.tipo = r.tipo /\ s.foto = r.foto
  BY DEF EsPeticion

LEMMA CambiaFoto ==
  ASSUME NEW r, EsPeticion(r), NEW m, NEW dato
  PROVE  LET s == [r EXCEPT !.foto[m] = dato] IN
         /\ EsPeticion(s) /\ s.paso = r.paso /\ s.tipo = r.tipo
         /\ \A n \in Muestras : s.foto[n] = IF n = m THEN dato ELSE r.foto[n]
  BY DEF EsPeticion

(* A request that starts waits for a lock or reads on; it commits nothing. *)
LEMMA NumeracionEmpezar ==
  ASSUME Numeracion, NEW p \in Peticiones, NEW tipo, NEW paso, NEW m, NEW foto,
         Empezar(p, tipo, paso, m, foto),
         paso \in Pasos \ {"confirmar"}, tipo # "generarLote" => m \in Muestras,
         foto = [n \in Muestras |-> foto[n]]
  PROVE  Numeracion'
<1>1. \A q \in Peticiones : q # p => peticion'[q] = peticion[q]
  BY DEF Numeracion, Estructura, Empezar
<1>2. peticion'[p] = [paso |-> paso, tipo |-> tipo, m |-> m, leida |-> 0,
                      foto |-> foto, version |-> 0]
  BY DEF Numeracion, Estructura, Empezar
<1>3. ultima' = ultima /\ candado' = candado
  BY DEF Empezar, varsFilas, candados
<1>4. Estructura'
  BY <1>1, <1>2, <1>3 DEF Numeracion, Estructura, Empezar, EsPeticion
<1>5. \A q \in Peticiones : EnCurso(q, "guardar", "confirmar")'
         => q # p /\ EnCurso(q, "guardar", "confirmar")
  BY <1>1, <1>2 DEF EnCurso
<1>6. CandadoTomado' /\ ConsecutivoLibre'
  BY <1>1, <1>3, <1>5 DEF Numeracion, CandadoTomado, ConsecutivoLibre
<1> QED  BY <1>4, <1>6 DEF Numeracion

(* A request that ends frees its own locks only. *)
LEMMA NumeracionTerminar ==
  ASSUME Numeracion, NEW p \in Peticiones, Terminar(p),
         ultima' = [m \in Muestras |-> ultima'[m]],
         \A m \in Muestras : ultima'[m] = ultima[m] \/ candado[m] = p
  PROVE  Numeracion'
<1>1. \A q \in Peticiones : q # p => peticion'[q] = peticion[q]
  BY DEF Numeracion, Estructura, Terminar
<1>2. peticion'[p] = Libre
  BY DEF Numeracion, Estructura, Terminar
<1>3. Estructura'
  BY <1>1, <1>2 DEF Numeracion, Estructura, Terminar, EsPeticion
<1>4. \A q \in Peticiones : EnCurso(q, "guardar", "confirmar")'
         => /\ q # p /\ EnCurso(q, "guardar", "confirmar")
            /\ peticion[q].m \in Muestras
  BY <1>1, <1>2 DEF EnCurso, Numeracion, Estructura, EsPeticion
<1>5. \A q \in Peticiones : EnCurso(q, "guardar", "confirmar")'
         => /\ candado[peticion[q].m] = q /\ candado'[peticion[q].m] = q
            /\ ultima'[peticion[q].m] = ultima[peticion[q].m]
  BY <1>4 DEF Numeracion, CandadoTomado, Terminar
<1>6. CandadoTomado' /\ ConsecutivoLibre'
  BY <1>1, <1>4, <1>5 DEF Numeracion, CandadoTomado, ConsecutivoLibre
<1> QED  BY <1>3, <1>6 DEF Numeracion

(* A request that goes on takes free rows and leaves the others'. *)
LEMMA NumeracionAvanzar ==
  ASSUME Numeracion, NEW p \in Peticiones, NEW r,
         peticion[p] # Libre, peticion' = [peticion EXCEPT ![p] = r], EsPeticion(r),
         ultima' = ultima, candado' = [m \in Muestras |-> candado'[m]],
         \A m \in Muestras : candado[m] \in {candado'[m], NADIE},
         r.tipo = "guardar" /\ r.paso = "confirmar"
           => candado'[r.m] = p /\ r.leida = ultima[r.m]
  PROVE  Numeracion'
<1>1. \A q \in Peticiones : q # p => peticion'[q] = peticion[q]
  BY DEF Numeracion, Estructura
<1>2. peticion'[p] = r
  BY DEF Numeracion, Estructura
<1>3. Estructura'
  BY <1>1, <1>2 DEF Numeracion, Estructura, EsPeticion
<1>4. \A q \in Peticiones : q # p /\ EnCurso(q, "guardar", "confirmar")'
         => /\ EnCurso(q, "guardar", "confirmar") /\ peticion[q].m \in Muestras
  BY <1>1 DEF EnCurso, Numeracion, Estructura, EsPeticion
<1>5. \A q \in Peticiones : q # p /\ EnCurso(q, "guardar", "confirmar")'
         => candado'[peticion[q].m] = q
  BY <1>4, InterpretacionesAssumption DEF Numeracion, CandadoTomado
<1>6. CandadoTomado' /\ ConsecutivoLibre'
  BY <1>1, <1>2, <1>4, <1>5 DEF Numeracion, CandadoTomado, ConsecutivoLibre, EnCurso
<1> QED  BY <1>3, <1>6 DEF Numeracion

-----------------------------------------------------------------------------
(* Every step keeps the numbers of the saves in progress free. *)
LEMMA NumeracionDelPaso == Numeracion /\ [Next]_varsTodas => Numeracion'
<1> SUFFICES ASSUME Numeracion, [Next]_varsTodas PROVE Numeracion'
  OBVIOUS
<1> USE DEF Pasos
<1>1. ASSUME NEW p \in Peticiones, Empieza(p) PROVE Numeracion'
  BY <1>1, NumeracionEmpezar
  DEF Empieza, GuardarComprobar, GenerarLeer, InvalidarLeer, GenerarLoteEmpezar, Copia
<1>2. ASSUME NEW p \in Peticiones, GuardarBloquear(p) PROVE Numeracion'
  <2> DEFINE r == [peticion[p] EXCEPT !.paso = "confirmar", !.leida = ultima[peticion[p].m]]
  <2>1. EsPeticion(r) /\ peticion[p] # Libre /\ peticion[p].m \in Muestras
        /\ r.m = peticion[p].m /\ r.leida = ultima[r.m]
    <3>1. EsPeticion(peticion[p]) /\ peticion[p].tipo = "guardar" /\ peticion[p] # Libre
          /\ peticion[p].m \in Muestras
      BY <1>2 DEF GuardarBloquear, EnCurso, Numeracion, Estructura, EsPeticion
    <3> DEFINE s == [peticion[p] EXCEPT !.paso = "confirmar"]
    <3>2. EsPeticion(s) /\ s.m = peticion[p].m
      BY <3>1, CambiaPaso
    <3>3. r = [s EXCEPT !.leida = ultima[peticion[p].m]]
      OBVIOUS
    <3> HIDE DEF r, s
    <3> QED  BY <3>1, <3>2, <3>3, CambiaLeida
  <2>2. peticion' = [peticion EXCEPT ![p] = r]
    BY <1>2 DEF GuardarBloquear
  <2>3. /\ candado' = [m \in Muestras |-> candado'[m]] /\ candado'[r.m] = p
        /\ \A m \in Muestras : candado[m] \in {candado'[m], NADIE}
    BY <1>2, <2>1 DEF GuardarBloquear, Numeracion, Estructura
  <2> QED  BY <1>2, <2>1, <2>2, <2>3, NumeracionAvanzar DEF GuardarBloquear, varsFilas
<1>3. ASSUME NEW p \in Peticiones, InvalidarBloquear(p) PROVE Numeracion'
  <2> DEFINE r == [peticion[p] EXCEPT !.paso = "confirmar"]
  <2>1. EsPeticion(r) /\ peticion[p] # Libre /\ r.tipo = "invalidar"
    BY <1>3 DEF InvalidarBloquear, EnCurso, Numeracion, Estructura, EsPeticion
  <2>2. /\ peticion' = [peticion EXCEPT ![p] = r]
        /\ candado' = [m \in Muestras |-> candado'[m]]
        /\ \A m \in Muestras : candado[m] \in {candado'[m], NADIE}
    BY <1>3 DEF InvalidarBloquear, Numeracion, Estructura
  <2> QED  BY <1>3, <2>1, <2>2, NumeracionAvanzar DEF InvalidarBloquear, varsFilas
<1>4. ASSUME NEW p \in Peticiones, GenerarLoteBloquearLote(p) PROVE Numeracion'
  <2> DEFINE r == [peticion[p] EXCEPT !.paso = "bloquear"]
  <2>1. EsPeticion(r) /\ peticion[p] # Libre /\ r.paso = "bloquear"
    BY <1>4 DEF GenerarLoteBloquearLote, EnCurso, Numeracion, Estructura, EsPeticion
  <2>2. peticion' = [peticion EXCEPT ![p] = r] /\ candado' = candado
    BY <1>4 DEF GenerarLoteBloquearLote
  <2> QED  BY <1>4, <2>1, <2>2, NumeracionAvanzar
           DEF GenerarLoteBloquearLote, varsFilas, Numeracion, Estructura
<1>5. ASSUME NEW p \in Peticiones, GenerarLoteBloquear(p) PROVE Numeracion'
  <2> DEFINE m == Min(PorBloquear(p))
             r == [peticion[p] EXCEPT
                     !.foto[m] = guardada[m],
                     !.paso = IF PorBloquear(p) = {m} THEN "confirmar" ELSE "bloquear"]
  <2>1. EsPeticion(r) /\ peticion[p] # Libre /\ r.tipo = "generarLote"
    <3>1. EsPeticion(peticion[p]) /\ peticion[p].tipo = "generarLote" /\ peticion[p] # Libre
      BY <1>5 DEF GenerarLoteBloquear, EnCurso, Numeracion, Estructura
    <3> DEFINE s == [peticion[p] EXCEPT !.foto[m] = guardada[m]]
               paso == IF PorBloquear(p) = {m} THEN "confirmar" ELSE "bloquear"
    <3>2. EsPeticion(s) /\ s.tipo = "generarLote"
      BY <3>1, CambiaFoto
    <3>3. r = [s EXCEPT !.paso = paso] /\ paso \in Pasos
      OBVIOUS
    <3> HIDE DEF r, s, paso
    <3> QED  BY <3>1, <3>2, <3>3, CambiaPaso
  <2>2. /\ peticion' = [peticion EXCEPT ![p] = r]
        /\ candado' = [n \in Muestras |-> candado'[n]]
        /\ \A n \in Muestras : candado[n] \in {candado'[n], NADIE}
    BY <1>5 DEF GenerarLoteBloquear, Numeracion, Estructura
  <2> QED  BY <1>5, <2>1, <2>2, NumeracionAvanzar DEF GenerarLoteBloquear, varsFilas
<1>6. ASSUME NEW p \in Peticiones, GenerarEnlazar(p) PROVE Numeracion'
  <2> DEFINE r == [peticion[p] EXCEPT !.paso = "insertar",
                                      !.version = Siguiente(peticion[p].m),
                                      !.leida = ultima[peticion[p].m]]
  <2>1. EsPeticion(r) /\ peticion[p] # Libre /\ r.paso = "insertar"
    <3>1. EsPeticion(peticion[p]) /\ peticion[p] # Libre
      BY <1>6 DEF GenerarEnlazar, EnCurso, Numeracion, Estructura
    <3> DEFINE s == [peticion[p] EXCEPT !.paso = "insertar"]
               t == [s EXCEPT !.version = Siguiente(peticion[p].m)]
    <3>2. EsPeticion(s) /\ s.paso = "insertar"
      BY <3>1, CambiaPaso
    <3>3. EsPeticion(t) /\ t.paso = "insertar"
      <4> HIDE DEF s
      <4> QED  BY <3>2, CambiaVersion
    <3>4. r = [t EXCEPT !.leida = ultima[peticion[p].m]]
      OBVIOUS
    <3> HIDE DEF r, s, t
    <3> QED  BY <3>1, <3>3, <3>4, CambiaLeida
  <2>2. peticion' = [peticion EXCEPT ![p] = r] /\ candado' = candado /\ ultima' = ultima
    BY <1>6 DEF GenerarEnlazar, candados, varsFilas
  <2> QED  BY <2>1, <2>2, NumeracionAvanzar DEF Numeracion, Estructura
<1>7. ASSUME NEW p \in Peticiones, GuardarConfirmar(p) PROVE Numeracion'
  <2>1. candado[peticion[p].m] = p
    BY <1>7 DEF GuardarConfirmar, Numeracion, CandadoTomado
  <2>2. /\ ultima' = [m \in Muestras |-> ultima'[m]]
        /\ \A m \in Muestras : ultima'[m] = ultima[m] \/ m = peticion[p].m
    BY <1>7 DEF GuardarConfirmar, Numeracion, Estructura
  <2> QED  BY <1>7, <2>1, <2>2, NumeracionTerminar DEF GuardarConfirmar
<1>8. ASSUME NEW p \in Peticiones,
             GenerarLoteConfirmar(p) \/ InvalidarConfirmar(p) \/ GenerarInsertar(p)
               \/ Abortar(p)
      PROVE  Numeracion'
  BY <1>8, NumeracionTerminar
  DEF GenerarLoteConfirmar, InvalidarConfirmar, GenerarInsertar, Abortar, varsFilas,
      Numeracion, Estructura
<1>9. ASSUME NEW m \in Muestras, Corregir(m) PROVE Numeracion'
  BY <1>9 DEF Corregir, candados, Numeracion, Estructura, CandadoTomado,
              ConsecutivoLibre, EnCurso
<1>10. CASE UNCHANGED varsTodas
  BY <1>10 DEF varsTodas, varsFilas, candados, Numeracion, Estructura, CandadoTomado,
               ConsecutivoLibre, EnCurso
<1> QED
  BY <1>1, <1>2, <1>3, <1>4, <1>5, <1>6, <1>7, <1>8, <1>9, <1>10
  DEF Next, Sigue, Bloquea, Confirma

(* Only an invalidation rejects a result, and it annuls the reports with it;
   only a batch generation issues such a report, of reviewed samples. *)
LEMMA VigenciaDelPaso == Vigencia /\ [Next]_varsTodas => Vigencia'
<1> SUFFICES ASSUME Vigencia, [Next]_varsTodas PROVE Vigencia'
  OBVIOUS
<1> USE DEF Vigencia, SonInformes, RevisadaSinRechazo, InformeDeLoteVigente
<1>1. ASSUME NEW p \in Peticiones, GenerarLoteConfirmar(p) PROVE Vigencia'
  <2>1. \A i \in informes' : i \in informes \/ (EsInforme(i) /\ i.muestra \in revisadas)
    BY <1>1 DEF GenerarLoteConfirmar, InformeDe, EsInforme
  <2>2. rechazadas' = rechazadas /\ revisadas' = revisadas
    BY <1>1 DEF GenerarLoteConfirmar
  <2> QED  BY <2>1, <2>2
<1>2. ASSUME NEW p \in Peticiones, GenerarInsertar(p) PROVE Vigencia'
  <2>1. rechazadas' = rechazadas /\ revisadas' = revisadas
    BY <1>2 DEF GenerarInsertar
  <2>2. \A i \in informes' : i \in informes \/ (EsInforme(i) /\ ~i.delLote)
    <3> DEFINE nuevo == InformeDe(peticion[p].m, peticion[p].version,
                                  peticion[p].foto[peticion[p].m],
                                  peticion[p].leida, FALSE)
    <3>1. EsInforme(nuevo) /\ ~nuevo.delLote
      BY DEF InformeDe, EsInforme
    <3>2. informes' = informes \/ informes' = informes \cup {nuevo}
      BY <1>2 DEF GenerarInsertar
    <3> HIDE DEF nuevo
    <3> QED  BY <3>1, <3>2
  <2>3. \A i \in informes : i.delLote /\ i.muestra \in rechazadas => ~i.vigente
    OBVIOUS
  <2> QED  BY <2>1, <2>2, <2>3
<1>3. ASSUME NEW p \in Peticiones, InvalidarConfirmar(p) PROVE Vigencia'
  <2> DEFINE m == peticion[p].m
             anulado(i) == [i EXCEPT !.vigente = FALSE]
  <2>1. /\ rechazadas' = rechazadas \cup {m} /\ revisadas' = revisadas \ {m}
        /\ informes' = {IF i.muestra = m THEN anulado(i) ELSE i : i \in informes}
    BY <1>3 DEF InvalidarConfirmar
  <2>2. \A i \in informes : EsInforme(anulado(i)) /\ ~anulado(i).vigente
    BY DEF EsInforme
  <2> HIDE DEF m, anulado
  <2>3. \A i \in informes' : EsInforme(i) /\ (~i.vigente \/ (i \in informes /\ i.muestra # m))
    BY <2>1, <2>2
  <2> QED  BY <2>1, <2>3
<1>4. ASSUME NEW m \in Muestras, Corregir(m) PROVE Vigencia'
  BY <1>4 DEF Corregir
<1>5. CASE UNCHANGED <<revisadas, rechazadas, informes>>
  BY <1>5
<1>6. ASSUME NEW p \in Peticiones,
             Empieza(p) \/ Bloquea(p) \/ GenerarEnlazar(p) \/ GuardarConfirmar(p)
               \/ Abortar(p)
      PROVE  UNCHANGED <<revisadas, rechazadas, informes>>
  BY <1>6 DEF Empieza, Bloquea, GuardarComprobar, GenerarLeer, InvalidarLeer,
     GenerarLoteEmpezar, Empezar, GuardarBloquear, InvalidarBloquear,
     GenerarLoteBloquearLote, GenerarLoteBloquear, GenerarEnlazar, GuardarConfirmar,
     Abortar, varsFilas
<1> QED
  BY <1>1, <1>2, <1>3, <1>4, <1>5, <1>6
  DEF Next, Sigue, Confirma, varsTodas, varsFilas

(* What a request holds: a save and an invalidation the row of their sample,
   once they only have to commit; a batch generation the batch and the rows
   it has read, all of them in the end. *)
Sostiene(p, r, lote, filas, textos) ==
    /\ lote = p => r.tipo = "generarLote"
    /\ \A m \in Muestras : filas[m] = p =>
          \/ r.tipo = "generarLote" /\ r.foto[m] = textos[m]
          \/ r.tipo # "generarLote" /\ r.paso = "confirmar" /\ r.m = m
    /\ r.tipo = "generarLote" /\ r.paso = "confirmar" =>
          \A m \in Muestras : filas[m] = p
    /\ r.tipo \in {"guardar", "invalidar"} /\ r.paso = "confirmar" => filas[r.m] = p
NadaSostiene(p) == candadoLote # p /\ \A m \in Muestras : candado[m] # p
SostieneLoSuyo(p) ==
    IF peticion[p] = Libre THEN NadaSostiene(p)
    ELSE Sostiene(p, peticion[p], candadoLote, candado, guardada)

Tenencia ==
    /\ guardada = [m \in Muestras |-> guardada[m]]
    /\ \A p \in Peticiones : SostieneLoSuyo(p)

(* Another request goes on holding what it holds. *)
LEMMA SostieneElOtro ==
  ASSUME Tenencia, NEW p \in Peticiones, NEW q \in Peticiones, q # p,
         peticion'[q] = peticion[q],
         peticion[q] = Libre \/ EsPeticion(peticion[q]),
         candadoLote' = q <=> candadoLote = q,
         \A m \in Muestras : candado'[m] = q <=> candado[m] = q,
         \A m \in Muestras : guardada'[m] = guardada[m] \/ candado[m] = p
  PROVE  SostieneLoSuyo(q)'
<1>1. CASE peticion[q] = Libre
  BY <1>1 DEF Tenencia, SostieneLoSuyo, NadaSostiene
<1>2. CASE peticion[q] # Libre
  <2>1. Sostiene(q, peticion[q], candadoLote, candado, guardada) /\ EsPeticion(peticion[q])
    BY <1>2 DEF Tenencia, SostieneLoSuyo
  <2>2. \A m \in Muestras : candado[m] = q => guardada'[m] = guardada[m]
    OBVIOUS
  <2> QED  BY <1>2, <2>1, <2>2 DEF SostieneLoSuyo, Sostiene, EsPeticion
<1> QED  BY <1>1, <1>2

LEMMA TenenciaTerminar ==
  ASSUME Tenencia, Estructura, NEW p \in Peticiones, Terminar(p),
         \A m \in Muestras : guardada'[m] = guardada[m] \/ candado[m] = p,
         guardada' = [m \in Muestras |-> guardada'[m]]
  PROVE  Tenencia'
<1>1. \A q \in Peticiones : q # p => peticion'[q] = peticion[q]
  BY DEF Estructura, Terminar
<1>2. peticion'[p] = Libre /\ NadaSostiene(p)'
  BY InterpretacionesAssumption DEF Estructura, Terminar, NadaSostiene
<1>3. \A q \in Peticiones : q # p =>
         /\ candadoLote' = q <=> candadoLote = q
         /\ \A m \in Muestras : candado'[m] = q <=> candado[m] = q
  BY InterpretacionesAssumption DEF Terminar
<1> QED  BY <1>1, <1>2, <1>3, SostieneElOtro DEF Tenencia, SostieneLoSuyo, Estructura

LEMMA TenenciaAvanzar ==
  ASSUME Tenencia, Estructura, NEW p \in Peticiones, NEW r, r # Libre,
         peticion' = [peticion EXCEPT ![p] = r],
         candadoLote' = candadoLote \/ (candadoLote = NADIE /\ candadoLote' = p),
         \A m \in Muestras :
            candado'[m] = candado[m] \/ (candado[m] = NADIE /\ candado'[m] = p),
         guardada' = guardada, Sostiene(p, r, candadoLote', candado', guardada')
  PROVE  Tenencia'
<1>1. \A q \in Peticiones : q # p => peticion'[q] = peticion[q]
  BY DEF Estructura
<1>2. peticion'[p] = r
  BY DEF Estructura
<1>3. \A q \in Peticiones : q # p =>
         /\ candadoLote' = q <=> candadoLote = q
         /\ \A m \in Muestras : candado'[m] = q <=> candado[m] = q
  BY InterpretacionesAssumption
<1>4. \A q \in Peticiones : q # p =>
         SostieneLoSuyo(q)'
  BY <1>1, <1>3, SostieneElOtro DEF Estructura
<1> QED  BY <1>1, <1>2, <1>4 DEF Tenencia, SostieneLoSuyo, Sostiene, NadaSostiene

(* Every step keeps them. *)
LEMMA TenenciaDelPaso == Tenencia /\ Estructura /\ [Next]_varsTodas => Tenencia'
<1> SUFFICES ASSUME Tenencia, Estructura, [Next]_varsTodas PROVE Tenencia'
  OBVIOUS
<1> USE InterpretacionesAssumption DEF Pasos
<1>0. \A p \in Peticiones : peticion[p] # Libre =>
         EsPeticion(peticion[p]) /\ Sostiene(p, peticion[p], candadoLote, candado, guardada)
  BY DEF Estructura, Tenencia, SostieneLoSuyo
<1>1. ASSUME NEW p \in Peticiones, NEW tipo, NEW paso \in Pasos \ {"confirmar"},
             NEW m, NEW foto, Empezar(p, tipo, paso, m, foto)
      PROVE  Tenencia'
  <2> DEFINE r == [paso |-> paso, tipo |-> tipo, m |-> m, leida |-> 0, foto |-> foto,
                   version |-> 0]
  <2>1. r # Libre /\ r.paso # "confirmar"
    BY DEF Libre
  <2>2. NadaSostiene(p)
    BY <1>1 DEF Empezar, Tenencia, SostieneLoSuyo
  <2>3. peticion' = [peticion EXCEPT ![p] = r]
        /\ candadoLote' = candadoLote /\ candado' = candado /\ guardada' = guardada
    BY <1>1 DEF Empezar, varsFilas, candados
  <2> HIDE DEF r
  <2>4. Sostiene(p, r, candadoLote', candado', guardada')
    BY <2>1, <2>2, <2>3 DEF Sostiene, NadaSostiene
  <2> QED  BY <2>1, <2>3, <2>4, TenenciaAvanzar
<1>2. ASSUME NEW p \in Peticiones, Empieza(p) PROVE Tenencia'
  BY <1>1, <1>2 DEF Empieza, GuardarComprobar, GenerarLeer, InvalidarLeer, GenerarLoteEmpezar
<1>3. ASSUME NEW p \in Peticiones, GuardarBloquear(p) \/ InvalidarBloquear(p) PROVE Tenencia'
  <2>1. PICK r : /\ EsPeticion(r) /\ r.paso = "confirmar" /\ r.m = peticion[p].m
                 /\ r.tipo = peticion[p].tipo /\ r.tipo \in {"guardar", "invalidar"}
                 /\ peticion' = [peticion EXCEPT ![p] = r]
    <3> DEFINE s == [peticion[p] EXCEPT !.paso = "confirmar"]
               t == [s EXCEPT !.leida = ultima[peticion[p].m]]
    <3>1. EsPeticion(peticion[p]) /\ peticion[p].tipo \in {"guardar", "invalidar"}
      BY <1>0, <1>3 DEF GuardarBloquear, InvalidarBloquear, EnCurso
    <3>2. peticion' = [peticion EXCEPT ![p] = t] \/ peticion' = [peticion EXCEPT ![p] = s]
      BY <1>3 DEF GuardarBloquear, InvalidarBloquear
    <3>3. /\ EsPeticion(s) /\ s.paso = "confirmar" /\ s.m = peticion[p].m
          /\ s.tipo = peticion[p].tipo
      BY <3>1, CambiaPaso
    <3> HIDE DEF s
    <3>4. /\ EsPeticion(t) /\ t.paso = "confirmar" /\ t.m = peticion[p].m
          /\ t.tipo = peticion[p].tipo
      BY <3>3, CambiaLeida
    <3> QED  BY <3>1, <3>2, <3>3, <3>4
  <2>2. /\ r.m \in Muestras /\ r # Libre
        /\ candadoLote' = candadoLote /\ guardada' = guardada
        /\ \A m \in Muestras : candado'[m] = IF m = r.m THEN p ELSE candado[m]
        /\ candado[r.m] = NADIE
    BY <1>3, <2>1 DEF GuardarBloquear, InvalidarBloquear, varsFilas, EsPeticion, Estructura,
                      Libre
  <2>3. /\ Sostiene(p, peticion[p], candadoLote, candado, guardada) /\ peticion[p].paso = "bloquear"
    BY <1>0, <1>3 DEF GuardarBloquear, InvalidarBloquear, EnCurso
  <2>4. Sostiene(p, r, candadoLote', candado', guardada')
    BY <2>1, <2>2, <2>3 DEF Sostiene
  <2> QED  BY <2>1, <2>2, <2>4, TenenciaAvanzar
<1>4. ASSUME NEW p \in Peticiones, GenerarLoteBloquearLote(p) PROVE Tenencia'
  <2> DEFINE r == [peticion[p] EXCEPT !.paso = "bloquear"]
  <2>1. /\ EsPeticion(peticion[p]) /\ Sostiene(p, peticion[p], candadoLote, candado, guardada)
        /\ peticion[p].tipo = "generarLote"
    BY <1>0, <1>4 DEF GenerarLoteBloquearLote, EnCurso
  <2>2. EsPeticion(r) /\ r.tipo = "generarLote" /\ r.paso = "bloquear"
        /\ r.foto = peticion[p].foto
    BY <2>1, CambiaPaso
  <2>3. /\ peticion' = [peticion EXCEPT ![p] = r] /\ candado' = candado
        /\ candadoLote = NADIE /\ candadoLote' = p /\ guardada' = guardada
    BY <1>4 DEF GenerarLoteBloquearLote, varsFilas
  <2> HIDE DEF r
  <2>4. r # Libre /\ Sostiene(p, r, candadoLote', candado', guardada')
    BY <2>1, <2>2, <2>3 DEF Sostiene, EsPeticion, Libre
  <2> QED  BY <2>3, <2>4, TenenciaAvanzar
<1>5. ASSUME NEW p \in Peticiones, GenerarLoteBloquear(p) PROVE Tenencia'
  <2> DEFINE m == Min(PorBloquear(p))
             s == [peticion[p] EXCEPT !.foto[m] = guardada[m]]
             paso == IF PorBloquear(p) = {m} THEN "confirmar" ELSE "bloquear"
             r == [s EXCEPT !.paso = paso]
  <2>1. /\ EsPeticion(peticion[p]) /\ Sostiene(p, peticion[p], candadoLote, candado, guardada)
        /\ peticion[p].tipo = "generarLote"
    BY <1>0, <1>5 DEF GenerarLoteBloquear, EnCurso
  <2>2. /\ peticion' = [peticion EXCEPT ![p] = r] /\ candadoLote' = candadoLote
        /\ guardada' = guardada
        /\ candado[m] = NADIE
        /\ \A n \in Muestras : candado'[n] = IF n = m THEN p ELSE candado[n]
    BY <1>5 DEF GenerarLoteBloquear, varsFilas, Estructura
  <2>3. /\ EsPeticion(s) /\ s.tipo = "generarLote"
        /\ \A n \in Muestras : s.foto[n] = IF n = m THEN guardada[m] ELSE peticion[p].foto[n]
    BY <2>1, CambiaFoto
  <2>4. paso \in Pasos /\ (paso = "confirmar" => \A n \in Muestras : n = m \/ candado[n] = p)
    BY DEF PorBloquear
  <2> HIDE DEF m, s, paso
  <2>5. EsPeticion(r) /\ r.tipo = "generarLote" /\ r.paso = paso /\ r.foto = s.foto
    BY <2>3, <2>4, CambiaPaso
  <2> HIDE DEF r
  <2>6. r # Libre /\ Sostiene(p, r, candadoLote', candado', guardada')
    BY <2>1, <2>2, <2>3, <2>4, <2>5 DEF Sostiene, EsPeticion, Libre
  <2> QED  BY <2>2, <2>6, TenenciaAvanzar
<1>6. ASSUME NEW p \in Peticiones, GenerarEnlazar(p) PROVE Tenencia'
  <2> DEFINE s == [peticion[p] EXCEPT !.paso = "insertar"]
             t == [s EXCEPT !.version = Siguiente(peticion[p].m)]
             r == [t EXCEPT !.leida = ultima[peticion[p].m]]
  <2>1. EsPeticion(peticion[p]) /\ Sostiene(p, peticion[p], candadoLote, candado, guardada) /\ peticion[p].tipo = "generar"
        /\ peticion[p].paso = "enlazar"
    BY <1>0, <1>6 DEF GenerarEnlazar, EnCurso
  <2>2. peticion' = [peticion EXCEPT ![p] = r] /\ candado' = candado
        /\ candadoLote' = candadoLote /\ guardada' = guardada
    BY <1>6 DEF GenerarEnlazar, candados, varsFilas
  <2>3. EsPeticion(s) /\ s.paso = "insertar" /\ s.tipo = "generar"
    BY <2>1, CambiaPaso
  <2> HIDE DEF s
  <2>4. EsPeticion(t) /\ t.paso = "insertar" /\ t.tipo = "generar"
    BY <2>3, CambiaVersion
  <2> HIDE DEF t
  <2>5. EsPeticion(r) /\ r.paso = "insertar" /\ r.tipo = "generar"
    BY <2>4, CambiaLeida
  <2> HIDE DEF r
  <2>6. r # Libre /\ Sostiene(p, r, candadoLote', candado', guardada')
    BY <2>1, <2>2, <2>5 DEF Sostiene, EsPeticion, Libre
  <2> QED  BY <2>2, <2>6, TenenciaAvanzar
<1>7. ASSUME NEW p \in Peticiones, Confirma(p) \/ Abortar(p) PROVE Tenencia'
  <2>1. Terminar(p)
    BY <1>7 DEF Confirma, Abortar, GuardarConfirmar, GenerarLoteConfirmar,
                InvalidarConfirmar, GenerarInsertar
  <2>2. /\ guardada' = [m \in Muestras |-> guardada'[m]]
        /\ \A m \in Muestras : guardada'[m] = guardada[m] \/ candado[m] = p
    <3>1. CASE GuardarConfirmar(p) \/ InvalidarConfirmar(p)
      <4>1. candado[peticion[p].m] = p
        BY <1>0, <3>1 DEF Sostiene, GuardarConfirmar, InvalidarConfirmar, EnCurso
      <4>2. /\ guardada' = [m \in Muestras |-> guardada'[m]]
            /\ \A m \in Muestras : guardada'[m] = guardada[m] \/ m = peticion[p].m
        BY <3>1 DEF GuardarConfirmar, InvalidarConfirmar, Tenencia
      <4> QED  BY <4>1, <4>2
    <3>2. CASE GenerarLoteConfirmar(p) \/ GenerarInsertar(p) \/ Abortar(p)
      BY <3>2 DEF GenerarLoteConfirmar, GenerarInsertar, Abortar, varsFilas, Tenencia
    <3> QED  BY <1>7, <3>1, <3>2 DEF Confirma
  <2> QED  BY <2>1, <2>2, TenenciaTerminar
<1>8. CASE UNCHANGED <<guardada, candadoLote, candado, peticion>>
  BY <1>8 DEF Tenencia, SostieneLoSuyo, Sostiene, NadaSostiene
<1>9. ASSUME NEW m \in Muestras, Corregir(m) PROVE Tenencia'
  BY <1>8, <1>9 DEF Corregir, candados
<1> QED
  BY <1>2, <1>3, <1>4, <1>5, <1>6, <1>7, <1>8, <1>9
  DEF Next, Sigue, Bloquea, varsTodas, varsFilas, candados

-----------------------------------------------------------------------------
(* The number a save is about to use is still free, however many requests save
   the interpretation of the sample (save_interpretation_sample). *)
THEOREM ConsecutivoSiempreLibre == Spec => []ConsecutivoLibre
<1>1. Init => Numeracion
  BY DEF Init, Numeracion, Estructura, CandadoTomado, ConsecutivoLibre, EnCurso
<1>2. Numeracion => ConsecutivoLibre
  BY DEF Numeracion
<1> QED  BY <1>1, <1>2, NumeracionDelPaso, PTL DEF Spec

LEMMA VigenciaInicial == Init => Vigencia
  BY DEF Init, Vigencia, SonInformes, RevisadaSinRechazo, InformeDeLoteVigente

(* No report of a batch generation is in force over an invalidated result
   (generate_batch_from_interpretation, invalidate). *)
THEOREM InformeDeLoteSiempreVigente == Spec => []InformeDeLoteVigente
<1>1. Vigencia => InformeDeLoteVigente
  BY DEF Vigencia
<1> QED  BY <1>1, VigenciaInicial, VigenciaDelPaso, PTL DEF Spec

Reparto == Numeracion /\ Tenencia

LEMMA RepartoInicial == Init => Reparto
  BY InterpretacionesAssumption
  DEF Init, Reparto, Numeracion, Estructura, CandadoTomado, ConsecutivoLibre, EnCurso,
      Tenencia, SostieneLoSuyo, NadaSostiene

LEMMA RepartoDelPaso == Reparto /\ [Next]_varsTodas => Reparto'
  BY NumeracionDelPaso, TenenciaDelPaso DEF Reparto, Numeracion

(* A batch generation issues what its samples hold at that moment
   (generate_batch_from_interpretation): it has read every one of them under
   a lock it still has. *)
THEOREM LoteSiempreConContenidoVigente == Spec => LoteConContenidoVigente
<1> DEFINE Emision == \A r \in informes' \ informes :
                        r.delLote /\ r.vigente => r.foto = guardada[r.muestra]
<1>1. ASSUME Reparto, Vigencia, NEW p \in Peticiones, GenerarLoteConfirmar(p) PROVE Emision
  <2>1. \A m \in Muestras : peticion[p].foto[m] = guardada[m]
    BY <1>1 DEF GenerarLoteConfirmar, EnCurso, Reparto, Tenencia, SostieneLoSuyo, Sostiene
  <2>2. \A i \in informes' \ informes :
           \E m \in Muestras : i.muestra = m /\ i.foto = peticion[p].foto[m]
    BY <1>1 DEF GenerarLoteConfirmar, InformeDe
  <2> QED  BY <2>1, <2>2
<1>2. ASSUME NEW p \in Peticiones, GenerarInsertar(p) PROVE Emision
  <2> DEFINE nuevo == InformeDe(peticion[p].m, peticion[p].version,
                                peticion[p].foto[peticion[p].m],
                                peticion[p].leida, FALSE)
  <2>1. ~nuevo.delLote
    BY DEF InformeDe
  <2>2. informes' = informes \/ informes' = informes \cup {nuevo}
    BY <1>2 DEF GenerarInsertar
  <2> HIDE DEF nuevo
  <2> QED  BY <2>1, <2>2
<1>3. ASSUME Vigencia, NEW p \in Peticiones, InvalidarConfirmar(p) PROVE Emision
  <2> DEFINE m == peticion[p].m
             anulado(i) == [i EXCEPT !.vigente = FALSE]
  <2>1. informes' = {IF i.muestra = m THEN anulado(i) ELSE i : i \in informes}
    BY <1>3 DEF InvalidarConfirmar
  <2>2. \A i \in informes : ~anulado(i).vigente
    BY <1>3 DEF Vigencia, SonInformes, EsInforme
  <2> HIDE DEF m, anulado
  <2> QED  BY <2>1, <2>2
<1>4. ASSUME UNCHANGED informes PROVE Emision
  BY <1>4
<1>5. ASSUME NEW p \in Peticiones,
             Empieza(p) \/ Bloquea(p) \/ GenerarEnlazar(p) \/ GuardarConfirmar(p)
               \/ Abortar(p)
      PROVE  UNCHANGED informes
  BY <1>5 DEF Empieza, Bloquea, GuardarComprobar, GenerarLeer, InvalidarLeer,
     GenerarLoteEmpezar, Empezar, GuardarBloquear, InvalidarBloquear,
     GenerarLoteBloquearLote, GenerarLoteBloquear, GenerarEnlazar, GuardarConfirmar,
     Abortar, varsFilas
<1>6. ASSUME NEW m \in Muestras, Corregir(m) PROVE UNCHANGED informes
  BY <1>6 DEF Corregir
<1>7. Reparto /\ Vigencia /\ [Next]_varsTodas => [Emision]_varsTodas
  <2> HIDE DEF Emision
  <2> QED  BY <1>1, <1>2, <1>3, <1>4, <1>5, <1>6 DEF Next, Sigue, Confirma
<1> QED
  BY <1>7, RepartoInicial, RepartoDelPaso, VigenciaInicial, VigenciaDelPaso, PTL
  DEF Spec, LoteConContenidoVigente

(* Whoever is in an embrace with another request, one of the two is a batch
   generation: a save and an invalidation wait for the batch only once they
   have their sample, and hold nothing before. *)
THEOREM AbrazoSiempreSoloDelLote == Spec => []AbrazoSoloDelLote
<1>1. Reparto => AbrazoSoloDelLote
  <2> SUFFICES ASSUME Reparto, NEW p \in Peticiones, NEW q \in Peticiones,
                      Espera(p) = q, Espera(q) = p,
                      peticion[p].tipo # "generarLote", peticion[q].tipo # "generarLote"
               PROVE  FALSE
    BY DEF AbrazoSoloDelLote, AbrazoDeLote, EnAbrazo
  <2>1. ASSUME NEW x \in Peticiones, NEW y \in Peticiones, Espera(x) = y,
               peticion[x].tipo # "generarLote", peticion[y].tipo # "generarLote"
        PROVE  peticion[x].paso = "bloquear" /\ peticion[y].paso = "confirmar"
    <3>1. peticion[x] # Libre /\ EsPeticion(peticion[x])
      BY <2>1, InterpretacionesAssumption DEF Espera, Reparto, Numeracion, Estructura
    <3>2. candadoLote # y
      BY <2>1 DEF Reparto, Tenencia, SostieneLoSuyo, NadaSostiene, Sostiene
    <3>3. peticion[x].paso = "bloquear" /\ candado[peticion[x].m] = y
          /\ peticion[x].m \in Muestras
      BY <2>1, <3>1, <3>2, InterpretacionesAssumption DEF Espera, EsPeticion, Pasos
    <3> QED
      BY <2>1, <3>3 DEF Reparto, Tenencia, SostieneLoSuyo, NadaSostiene, Sostiene
  <2> QED  BY <2>1
<1> QED  BY <1>1, RepartoInicial, RepartoDelPaso, PTL DEF Spec
=============================================================================
