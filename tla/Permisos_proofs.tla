-------------------------- MODULE Permisos_proofs --------------------------
(***************************************************************************)
(* Proofs about Permisos, for any number of consoles and any matrices they *)
(* send: however the requests overlap or die, a role stays between what    *)
(* all of them granted and what some of them did, and the laboratory       *)
(* delivers no report unless somebody edited its matrix; and about the     *)
(* administration as a whole, from these and the proofs it extends.        *)
(***************************************************************************)
EXTENDS MCAdministracion, Cuentas_proofs, Activos_proofs, SequenceTheorems, TLAPS

(* The migrations run with the server stopped. *)
EnMarcha == \A e \in Consolas : consola[e] # LIBRE => EnServicio

(* What is still to be granted was asked for. *)
FaltanBajoTope ==
    \A e \in Consolas : consola[e] # LIBRE => consola[e].faltan \subseteq tope[consola[e].rol]

(* What all of them asked for is granted, or one of them has yet to. *)
PisoCubierto ==
    \A r \in Papeles : \A c \in piso[r] :
        c \in matriz[r] \/ \E e \in EscribenRol(r) : c \in consola[e].faltan

MatrizBajoTope == \A r \in Papeles : matriz[r] \subseteq tope[r]

Acotada == FaltanBajoTope /\ PisoCubierto /\ MatrizBajoTope

(* No delivery on its way to the laboratory, unless by hand. *)
SinEntregas ==
    "laboratorista" \notin aMano =>
        /\ matriz["laboratorista"] \cap Entregas = {}
        /\ \A e \in Consolas : consola[e] # LIBRE /\ consola[e].rol = "laboratorista" =>
               consola[e].faltan \cap Entregas = {}

-----------------------------------------------------------------------------
(* The tables *)

LEMMA LosPapeles ==
  /\ Sembrados = {"admin_empresa", "solo_lectura", "laboratorista", "revisor_interpretador"}
  /\ Papeles = Sembrados \cup {"propio"}
  /\ OrdenDeSiembra \in Seq(Sembrados) /\ OrdenDeSiembra # <<>>
  /\ Head(OrdenDeSiembra) = "admin_empresa"
  <1>1. DOMAIN OrdenDeSiembra = 1..4
    BY DEF OrdenDeSiembra
  <1>2. Sembrados = {OrdenDeSiembra[1], OrdenDeSiembra[2], OrdenDeSiembra[3], OrdenDeSiembra[4]}
    BY <1>1 DEF Sembrados
  <1>3. Sembrados = {"admin_empresa", "solo_lectura", "laboratorista", "revisor_interpretador"}
    BY <1>2 DEF OrdenDeSiembra
  <1>4. OrdenDeSiembra \in Seq(Sembrados) /\ OrdenDeSiembra # <<>>
    BY <1>3 DEF OrdenDeSiembra
  <1>5. Head(OrdenDeSiembra) = "admin_empresa"
    BY DEF OrdenDeSiembra
  <1> QED BY <1>3, <1>4, <1>5 DEF Papeles, Propios

LEMMA TablaTipada ==
  ASSUME NEW a \in SUBSET Codigo, NEW b \in SUBSET Codigo,
         NEW c \in SUBSET Codigo, NEW d \in SUBSET Codigo
  PROVE  Tabla(a, b, c, d) \in [Papeles -> SUBSET Codigo] /\ Tabla(a, b, c, d)["laboratorista"] = c
  BY LosPapeles DEF Tabla

LEMMA SiembraTipada ==
  /\ GrantsDeLaSiembra \in [Papeles -> SUBSET Codigo]
  /\ GrantsDeLaSiembra["laboratorista"] \cap Entregas = {}
  <1> DEFINE a == {"activos.ver", "usuarios.invitar", "trazabilidad.ver"}
             b == {"activos.ver", "trazabilidad.ver"}
             c == {"resultados.cargar", "reportes.generar"}
             d == {"revision.ver_historico", "reportes.generar", "reportes.aprobar",
                   "reportes.publicar_cliente"}
  <1>1. a \in SUBSET Codigo /\ b \in SUBSET Codigo /\ c \in SUBSET Codigo /\ d \in SUBSET Codigo
    BY DEF Codigo, PorDefecto
  <1>2. GrantsDeLaSiembra = Tabla(a, b, c, d)
    BY DEF GrantsDeLaSiembra
  <1>3. c \cap Entregas = {}
    BY DEF Entregas
  <1> HIDE DEF a, b, c, d
  <1> QED BY <1>1, <1>2, <1>3, TablaTipada

(* What a migration may be; the last ones grant the laboratory no delivery. *)
EsMigracion(m) ==
    /\ m.concede \in [Papeles -> SUBSET Codigo]
    /\ m.retira \in SUBSET Codigo
    /\ m.concede["laboratorista"] \cap Entregas = {}

LEMMA MigracionesTipadas ==
  Len(Migraciones) = 5 /\ \A i \in 1..5 : EsMigracion(Migraciones[i])
  <1>0. {} \in SUBSET Codigo
    OBVIOUS
  <1>1. EsMigracion(SeedSecurity)
    <2>1. /\ {"activos.ver", "usuarios.invitar", "resultados.cargar", "reportes.generar",
              "revision.ver_historico", "reportes.publicar_cliente",
              "dashboard.ver_empresa"} \in SUBSET Codigo
          /\ {"activos.ver", "dashboard.ver_empresa"} \in SUBSET Codigo
          /\ {"resultados.cargar", "revision.ver_historico"} \in SUBSET Codigo
          /\ {"revision.ver_historico", "reportes.generar", "reportes.publicar_cliente",
              "dashboard.ver_empresa"} \in SUBSET Codigo
      BY DEF Codigo, PorDefecto, Heredados
    <2> QED BY <2>1, TablaTipada DEF EsMigracion, SeedSecurity, Entregas
  <1>2. EsMigracion(RestringirEmpresas)
    <2>1. /\ {"activos.ver", "usuarios.invitar", "dashboard.ver_empresa"} \in SUBSET Codigo
          /\ {"activos.ver", "dashboard.ver_empresa"} \in SUBSET Codigo
      BY DEF Codigo, PorDefecto, Heredados
    <2> QED BY <1>0, <2>1, TablaTipada DEF EsMigracion, RestringirEmpresas
  <1>3. EsMigracion(AccionesDeReportes)
    <2>1. {"trazabilidad.ver"} \in SUBSET Codigo /\ {"reportes.aprobar"} \in SUBSET Codigo
      BY DEF Codigo, PorDefecto
    <2> QED BY <1>0, <2>1, TablaTipada DEF EsMigracion, AccionesDeReportes
  <1>4. EsMigracion(SoloPanelGlobal)
    BY <1>0, TablaTipada DEF EsMigracion, SoloPanelGlobal, Codigo
  <1>5. EsMigracion(InformesDelLaboratorio)
    <2>1. {"reportes.generar"} \in SUBSET Codigo
      BY DEF Codigo, PorDefecto
    <2> QED BY <1>0, <2>1, TablaTipada DEF EsMigracion, InformesDelLaboratorio, Entregas
  <1>6. /\ Len(Migraciones) = 5
        /\ Migraciones[1] = SeedSecurity /\ Migraciones[2] = RestringirEmpresas
        /\ Migraciones[3] = AccionesDeReportes /\ Migraciones[4] = SoloPanelGlobal
        /\ Migraciones[5] = InformesDelLaboratorio
    BY DEF Migraciones
  <1>7. \A i \in 1..5 : i = 1 \/ i = 2 \/ i = 3 \/ i = 4 \/ i = 5
    OBVIOUS
  <1> QED BY <1>1, <1>2, <1>3, <1>4, <1>5, <1>6, <1>7

-----------------------------------------------------------------------------
(* Types *)

(* A request keeps the type of the consoles when it starts writing a role. *)
LEMMA AbreTipada ==
  ASSUME TiposPermisos, NEW e \in Consolas, NEW r \in Papeles,
         NEW codigos \in SUBSET Codigo, NEW colas \in Seq(Sembrados),
         consola' = [consola EXCEPT ![e] = [rol |-> r, faltan |-> codigos, quedan |-> colas]],
         Acotar(e, r, codigos)
  PROVE  /\ consola' \in [Consolas -> {LIBRE} \cup Escritura]
         /\ piso' \in [Papeles -> SUBSET Codigo] /\ tope' \in [Papeles -> SUBSET Codigo]
  <1>1. [rol |-> r, faltan |-> codigos, quedan |-> colas] \in Escritura
    BY DEF Escritura
  <1>2. consola' \in [Consolas -> {LIBRE} \cup Escritura]
    BY <1>1 DEF TiposPermisos
  <1>3. piso' \in [Papeles -> SUBSET Codigo] /\ tope' \in [Papeles -> SUBSET Codigo]
    BY DEF TiposPermisos, Acotar
  <1> QED BY <1>2, <1>3

LEMMA RestauradosTipados ==
  ASSUME TiposPermisos, Restaurados
  PROVE  papel' \in [Papeles -> {"inexistente", "activo", "inactivo"}] /\ retirados' \subseteq Codigo
  BY DEF TiposPermisos, Restaurados

LEMMA EscrituraTipada ==
  ASSUME TiposPermisos, NEW e \in Consolas, consola[e] # LIBRE
  PROVE  /\ consola[e] \in Escritura /\ consola[e].rol \in Papeles
         /\ consola[e].faltan \in SUBSET Codigo /\ consola[e].quedan \in Seq(Sembrados)
  BY DEF TiposPermisos, Escritura

LEMMA EmpezarTipado ==
  ASSUME TiposPermisos, NEW e \in Consolas, NEW roles \in Seq(Sembrados), roles # <<>>,
         EmpezarRol(e, roles)
  PROVE  /\ Head(roles) \in Papeles /\ Tail(roles) \in Seq(Sembrados)
         /\ GrantsDeLaSiembra[Head(roles)] \in SUBSET Codigo
         /\ matriz' \in [Papeles -> SUBSET Codigo]
         /\ consola' \in [Consolas -> {LIBRE} \cup Escritura]
         /\ piso' \in [Papeles -> SUBSET Codigo] /\ tope' \in [Papeles -> SUBSET Codigo]
  <1>1. Head(roles) \in Sembrados /\ Tail(roles) \in Seq(Sembrados)
    BY HeadTailProperties
  <1>2. Head(roles) \in Papeles
    BY <1>1, LosPapeles
  <1>3. GrantsDeLaSiembra[Head(roles)] \in SUBSET Codigo
    BY <1>2, SiembraTipada
  <1>4. matriz' \in [Papeles -> SUBSET Codigo]
    BY DEF TiposPermisos, EmpezarRol
  <1>5. /\ Acotar(e, Head(roles), GrantsDeLaSiembra[Head(roles)])
        /\ consola' = [consola EXCEPT ![e] = [rol |-> Head(roles),
                          faltan |-> GrantsDeLaSiembra[Head(roles)], quedan |-> Tail(roles)]]
    BY DEF EmpezarRol
  <1> QED BY <1>1, <1>2, <1>3, <1>4, <1>5, AbreTipada

LEMMA InitTipado == InitPermisos => TiposPermisos
  <1>1. 0 \in 0..Len(Migraciones) /\ 0 \in 0..MaxPedidos
    BY MigracionesTipadas, ConsolasFinitas
  <1> QED BY <1>1 DEF InitPermisos, TiposPermisos

LEMMA PasoTipado == TiposPermisos /\ [NextPermisos]_varsPermisos => TiposPermisos'
  <1> SUFFICES ASSUME TiposPermisos, [NextPermisos]_varsPermisos PROVE TiposPermisos'
    OBVIOUS
  <1>0. Len(Migraciones) = 5 /\ MaxPedidos \in Nat
    BY MigracionesTipadas, ConsolasFinitas
  <1>p. ASSUME Pedir PROVE pedidos' \in 0..MaxPedidos
    BY <1>p, <1>0 DEF Pedir, TiposPermisos
  <1>1. CASE Migrar
    <2>1. migracion \in Nat /\ migracion + 1 \in 1..5 /\ migracion' = migracion + 1
      BY <1>0, <1>1 DEF Migrar, TiposPermisos
    <2> DEFINE m == Migraciones[migracion + 1]
    <2>2. EsMigracion(m)
      BY <2>1, MigracionesTipadas
    <2>3. /\ matriz' = [r \in Papeles |-> IF r \in m.borra THEN m.concede[r]
                                          ELSE matriz[r] \cup m.concede[r]]
          /\ retirados' = retirados \cup m.retira /\ piso' = matriz' /\ tope' = matriz'
          /\ papel' = [r \in Papeles |-> IF r \in Sembrados THEN "activo" ELSE papel[r]]
          /\ UNCHANGED <<consola, aMano, pedidos>>
      BY <1>1 DEF Migrar
    <2> HIDE DEF m
    <2> QED BY <1>0, <2>1, <2>2, <2>3 DEF TiposPermisos, EsMigracion
  <1>2. CASE SembrarPorComando
    <2>1. matriz' \in [Papeles -> SUBSET Codigo]
      BY <1>2, SiembraTipada DEF SembrarPorComando, TiposPermisos
    <2>2. piso' \in [Papeles -> SUBSET Codigo] /\ tope' \in [Papeles -> SUBSET Codigo]
      BY <1>2, SiembraTipada DEF SembrarPorComando, TiposPermisos
    <2>3. /\ Restaurados /\ Pedir /\ UNCHANGED <<migracion, consola, aMano>>
      BY <1>2 DEF SembrarPorComando
    <2> QED BY <1>p, <2>1, <2>2, <2>3, RestauradosTipados DEF TiposPermisos
  <1>3. ASSUME NEW e \in Consolas, Sembrar(e) PROVE TiposPermisos'
    <2>1. Pedir /\ Restaurados /\ EmpezarRol(e, OrdenDeSiembra) /\ UNCHANGED <<migracion, aMano>>
      BY <1>3 DEF Sembrar
    <2>2. /\ matriz' \in [Papeles -> SUBSET Codigo]
          /\ consola' \in [Consolas -> {LIBRE} \cup Escritura]
          /\ piso' \in [Papeles -> SUBSET Codigo] /\ tope' \in [Papeles -> SUBSET Codigo]
      BY <2>1, LosPapeles, EmpezarTipado
    <2> QED BY <1>p, <2>1, <2>2, RestauradosTipados DEF TiposPermisos
  <1>4. ASSUME NEW e \in Consolas, Conceder(e) PROVE TiposPermisos'
    <2>1. PICK c \in consola[e].faltan :
             /\ matriz' = [matriz EXCEPT ![consola[e].rol] = @ \cup {c}]
             /\ consola' = [consola EXCEPT ![e].faltan = @ \ {c}]
      BY <1>4 DEF Conceder
    <2>2. consola[e] \in Escritura /\ consola[e].rol \in Papeles /\ c \in Codigo
      BY <1>4, <2>1, EscrituraTipada DEF Conceder
    <2>3. [consola[e] EXCEPT !.faltan = @ \ {c}] \in Escritura
      BY <2>2 DEF Escritura
    <2>4. consola' \in [Consolas -> {LIBRE} \cup Escritura]
      BY <2>1, <2>3 DEF TiposPermisos
    <2>5. matriz' \in [Papeles -> SUBSET Codigo]
      BY <2>1, <2>2 DEF TiposPermisos
    <2> QED BY <1>4, <2>4, <2>5 DEF TiposPermisos, Conceder
  <1>5. ASSUME NEW e \in Consolas, SiguienteRol(e) PROVE TiposPermisos'
    <2>1. CASE consola[e].quedan = <<>>
      BY <1>5, <2>1 DEF SiguienteRol, TiposPermisos
    <2>2. CASE consola[e].quedan # <<>>
      <3>1. EmpezarRol(e, consola[e].quedan) /\ consola[e].quedan \in Seq(Sembrados)
        BY <1>5, <2>2, EscrituraTipada DEF SiguienteRol
      <3>2. /\ matriz' \in [Papeles -> SUBSET Codigo]
            /\ consola' \in [Consolas -> {LIBRE} \cup Escritura]
            /\ piso' \in [Papeles -> SUBSET Codigo] /\ tope' \in [Papeles -> SUBSET Codigo]
        BY <2>2, <3>1, EmpezarTipado
      <3> QED BY <1>5, <3>2 DEF TiposPermisos, SiguienteRol
    <2> QED BY <2>1, <2>2
  <1>6. ASSUME NEW e \in Consolas, Caer(e) PROVE TiposPermisos'
    BY <1>6 DEF Caer, TiposPermisos
  <1>7. ASSUME NEW e \in Consolas, NEW r \in Papeles, NEW codigos \in MatricesPedidas,
               EditarMatriz(e, r, codigos)
        PROVE  TiposPermisos'
    <2>1. codigos \in SUBSET Codigo /\ <<>> \in Seq(Sembrados)
      BY MatricesDeCodigos
    <2>2. /\ consola' \in [Consolas -> {LIBRE} \cup Escritura]
          /\ piso' \in [Papeles -> SUBSET Codigo] /\ tope' \in [Papeles -> SUBSET Codigo]
      BY <1>7, <2>1, AbreTipada DEF EditarMatriz
    <2>3. matriz' \in [Papeles -> SUBSET Codigo]
      BY <1>7, <2>1 DEF EditarMatriz, Retirar, TiposPermisos
    <2>4. papel' \in [Papeles -> {"inexistente", "activo", "inactivo"}]
      BY <1>7 DEF EditarMatriz, TiposPermisos
    <2> QED BY <1>7, <1>p, <2>2, <2>3, <2>4 DEF EditarMatriz, TiposPermisos
  <1>8. ASSUME NEW r \in Papeles, CrearPapel(r) \/ DesactivarRol(r) \/ ReactivarRol(r)
        PROVE  TiposPermisos'
    BY <1>8, <1>p DEF CrearPapel, DesactivarRol, ReactivarRol, TiposPermisos
  <1>9. CASE UNCHANGED varsPermisos
    BY <1>9 DEF varsPermisos, TiposPermisos
  <1> QED BY <1>1, <1>2, <1>3, <1>4, <1>5, <1>6, <1>7, <1>8, <1>9 DEF NextPermisos

(* Every table of the matrix holds rows of its form, whatever overlaps.    *)
THEOREM TiposSiempre == SpecPermisos => []TiposPermisos
  BY InitTipado, PasoTipado, PTL DEF SpecPermisos

-----------------------------------------------------------------------------
(* Between the matrices the requests were sent with *)

(* A request that empties its role, or cuts it to what it was sent, and    *)
(* asks for the rest, whatever the others writing the role have done.      *)
LEMMA AbreAcotada ==
  ASSUME TiposPermisos, Acotada, NEW e \in Consolas, NEW r \in Papeles,
         NEW codigos \in SUBSET Codigo, NEW colas \in Seq(Sembrados), NEW x \in SUBSET codigos,
         consola[e] = LIBRE \/ consola[e].faltan = {},
         consola' = [consola EXCEPT ![e] = [rol |-> r, faltan |-> codigos, quedan |-> colas]],
         matriz' = [matriz EXCEPT ![r] = x],
         Acotar(e, r, codigos)
  PROVE  Acotada'
  <1>1. /\ consola'[e] # LIBRE /\ consola'[e].rol = r /\ consola'[e].faltan = codigos
        /\ \A o \in Consolas \ {e} : consola'[o] = consola[o]
    <2>1. [rol |-> r, faltan |-> codigos, quedan |-> colas] \in Escritura
      BY DEF Escritura
    <2> QED BY <2>1, LibreAparte DEF TiposPermisos
  <1>2. matriz'[r] = x /\ \A s \in Papeles \ {r} : matriz'[s] = matriz[s]
    BY DEF TiposPermisos
  <1>3. \A s \in Papeles \ {r} : piso'[s] = piso[s] /\ tope'[s] = tope[s]
    BY DEF Acotar, TiposPermisos
  <1>4. piso'[r] \subseteq codigos /\ codigos \subseteq tope'[r]
    BY DEF Acotar, TiposPermisos
  <1>5. \A o \in Consolas \ {e} : consola[o] # LIBRE /\ consola[o].rol = r => tope[r] \subseteq tope'[r]
    BY DEF Acotar, TiposPermisos, EscribenRol
  <1>6. FaltanBajoTope'
    <2> SUFFICES ASSUME NEW o \in Consolas, consola'[o] # LIBRE
                 PROVE  consola'[o].faltan \subseteq tope'[consola'[o].rol]
      BY DEF FaltanBajoTope
    <2>1. CASE o = e
      BY <2>1, <1>1, <1>4
    <2>2. CASE o # e
      <3>1. /\ consola'[o] = consola[o] /\ consola[o].rol \in Papeles
            /\ consola[o].faltan \subseteq tope[consola[o].rol]
        BY <2>2, <1>1, EscrituraTipada DEF Acotada, FaltanBajoTope
      <3> QED BY <2>2, <3>1, <1>3, <1>5
    <2> QED BY <2>1, <2>2
  <1>7. PisoCubierto'
    <2> SUFFICES ASSUME NEW s \in Papeles, NEW c \in piso'[s]
                 PROVE  c \in matriz'[s] \/ \E o \in EscribenRol(s)' : c \in consola'[o].faltan
      BY DEF PisoCubierto
    <2>1. CASE s = r
      BY <2>1, <1>1, <1>4 DEF EscribenRol
    <2>2. CASE s # r
      <3>1. c \in matriz'[s] \/ \E o \in EscribenRol(s) : c \in consola[o].faltan
        BY <2>2, <1>2, <1>3 DEF Acotada, PisoCubierto
      <3>2. ASSUME NEW o \in EscribenRol(s), c \in consola[o].faltan
            PROVE  o \in EscribenRol(s)' /\ c \in consola'[o].faltan
        <4>1. o # e
          BY <3>2 DEF EscribenRol
        <4> QED BY <3>2, <4>1, <1>1 DEF EscribenRol
      <3> QED BY <3>1, <3>2
    <2> QED BY <2>1, <2>2
  <1>8. MatrizBajoTope'
    BY <1>2, <1>3, <1>4 DEF Acotada, MatrizBajoTope
  <1> QED BY <1>6, <1>7, <1>8 DEF Acotada

LEMMA EmpezarAcotado ==
  ASSUME TiposPermisos, Acotada, NEW e \in Consolas, NEW roles \in Seq(Sembrados), roles # <<>>,
         consola[e] = LIBRE \/ consola[e].faltan = {}, EmpezarRol(e, roles)
  PROVE  Acotada'
  <1>1. /\ Head(roles) \in Papeles /\ Tail(roles) \in Seq(Sembrados)
        /\ GrantsDeLaSiembra[Head(roles)] \in SUBSET Codigo
    BY EmpezarTipado
  <1>2. /\ matriz' = [matriz EXCEPT ![Head(roles)] = {}]
        /\ Acotar(e, Head(roles), GrantsDeLaSiembra[Head(roles)])
        /\ consola' = [consola EXCEPT ![e] = [rol |-> Head(roles),
                          faltan |-> GrantsDeLaSiembra[Head(roles)], quedan |-> Tail(roles)]]
    BY DEF EmpezarRol
  <1>3. {} \in SUBSET GrantsDeLaSiembra[Head(roles)]
    OBVIOUS
  <1> QED BY <1>1, <1>2, <1>3, AbreAcotada

LEMMA QuietaAcotada ==
  ASSUME Acotada, UNCHANGED <<matriz, consola, piso, tope>>
  PROVE  Acotada'
  BY DEF Acotada, FaltanBajoTope, PisoCubierto, MatrizBajoTope, EscribenRol

LEMMA PasoAcotado ==
  ASSUME TiposPermisos, TiposPermisos', EnMarcha, Acotada, [NextPermisos]_varsPermisos
  PROVE  EnMarcha' /\ Acotada'
  <1>0. Len(Migraciones) = 5
    BY MigracionesTipadas
  <1>1. CASE Migrar
    <2>1. \A e \in Consolas : consola[e] = LIBRE /\ consola'[e] = LIBRE
      BY <1>0, <1>1 DEF Migrar, EnMarcha, EnServicio, TiposPermisos
    <2>2. piso' = matriz' /\ tope' = matriz'
      BY <1>1 DEF Migrar
    <2> QED BY <2>1, <2>2
         DEF EnMarcha, Acotada, FaltanBajoTope, PisoCubierto, MatrizBajoTope
  <1>2. CASE SembrarPorComando
    <2>1. /\ EnServicio /\ UNCHANGED <<migracion, consola>>
      BY <1>2 DEF SembrarPorComando, Pedir
    <2>2. \A r \in Papeles : r \notin Sembrados =>
             matriz'[r] = matriz[r] /\ piso'[r] = piso[r] /\ tope'[r] = tope[r]
      BY <1>2 DEF SembrarPorComando
    <2>3. \A r \in Sembrados : /\ matriz'[r] = GrantsDeLaSiembra[r]
                               /\ piso'[r] \subseteq matriz'[r] /\ matriz'[r] \subseteq tope'[r]
      BY <1>2, LosPapeles DEF SembrarPorComando
    <2>4. \A r \in Papeles : EscribenRol(r) # {} => tope[r] \subseteq tope'[r]
      BY <1>2, <2>2 DEF SembrarPorComando
    <2>5. FaltanBajoTope'
      <3> SUFFICES ASSUME NEW e \in Consolas, consola[e] # LIBRE
                   PROVE  consola[e].faltan \subseteq tope'[consola[e].rol]
        BY <2>1 DEF FaltanBajoTope
      <3>1. consola[e].rol \in Papeles /\ e \in EscribenRol(consola[e].rol)
        BY EscrituraTipada DEF EscribenRol
      <3> QED BY <3>1, <2>4 DEF Acotada, FaltanBajoTope
    <2>6. PisoCubierto' /\ MatrizBajoTope'
      BY <2>1, <2>2, <2>3, LosPapeles
         DEF Acotada, PisoCubierto, MatrizBajoTope, EscribenRol
    <2> QED BY <2>1, <2>5, <2>6 DEF Acotada, EnMarcha, EnServicio
  <1>3. ASSUME NEW e \in Consolas, Sembrar(e) PROVE EnMarcha' /\ Acotada'
    <2>1. /\ EnServicio /\ migracion' = migracion /\ consola[e] = LIBRE
          /\ EmpezarRol(e, OrdenDeSiembra)
      BY <1>3 DEF Sembrar, Pedir
    <2> QED BY <2>1, LosPapeles, EmpezarAcotado DEF EnMarcha, EnServicio
  <1>4. ASSUME NEW e \in Consolas, Conceder(e) PROVE EnMarcha' /\ Acotada'
    <2> DEFINE r == consola[e].rol
    <2>1. PICK c \in consola[e].faltan :
             /\ matriz' = [matriz EXCEPT ![r] = @ \cup {c}]
             /\ consola' = [consola EXCEPT ![e].faltan = @ \ {c}]
      BY <1>4 DEF Conceder
    <2>2. /\ consola[e] # LIBRE /\ consola[e] \in Escritura /\ r \in Papeles
          /\ UNCHANGED <<migracion, piso, tope>>
      BY <1>4, EscrituraTipada DEF Conceder
    <2>3. /\ consola'[e].rol = r /\ consola'[e].faltan = consola[e].faltan \ {c}
          /\ consola'[e] # LIBRE
      <3>1. [consola[e] EXCEPT !.faltan = @ \ {c}] \in Escritura
        BY <2>2 DEF Escritura
      <3>2. consola'[e] = [consola[e] EXCEPT !.faltan = @ \ {c}]
        BY <2>1 DEF TiposPermisos
      <3> QED BY <2>2, <3>1, <3>2, LibreAparte DEF Escritura
    <2>4. \A o \in Consolas \ {e} : consola'[o] = consola[o]
      BY <2>1 DEF TiposPermisos
    <2>5. /\ matriz'[r] = matriz[r] \cup {c}
          /\ \A s \in Papeles \ {r} : matriz'[s] = matriz[s]
      BY <2>1, <2>2 DEF TiposPermisos
    <2>6. consola[e].faltan \subseteq tope[r]
      BY <2>2 DEF Acotada, FaltanBajoTope
    <2>7. \A s \in Papeles : EscribenRol(s)' = EscribenRol(s)
      BY <2>2, <2>3, <2>4 DEF EscribenRol
    <2> HIDE DEF r
    <2>8. EnMarcha' /\ FaltanBajoTope'
      <3> SUFFICES ASSUME NEW o \in Consolas, consola'[o] # LIBRE
                   PROVE  EnServicio' /\ consola'[o].faltan \subseteq tope'[consola'[o].rol]
        BY DEF EnMarcha, FaltanBajoTope
      <3>1. CASE o = e
        BY <3>1, <2>2, <2>3, <2>6 DEF EnMarcha, EnServicio
      <3>2. CASE o # e
        BY <3>2, <2>2, <2>4 DEF EnMarcha, EnServicio, Acotada, FaltanBajoTope
      <3> QED BY <3>1, <3>2
    <2>9. PisoCubierto'
      <3> SUFFICES ASSUME NEW s \in Papeles, NEW d \in piso[s]
                   PROVE  d \in matriz'[s] \/ \E o \in EscribenRol(s) : d \in consola'[o].faltan
        BY <2>2, <2>7 DEF PisoCubierto
      <3>1. d \in matriz[s] \/ \E o \in EscribenRol(s) : d \in consola[o].faltan
        BY DEF Acotada, PisoCubierto
      <3>2. matriz[s] \subseteq matriz'[s]
        BY <2>5
      <3>3. ASSUME NEW o \in EscribenRol(s), d \in consola[o].faltan
            PROVE  d \in matriz'[s] \/ d \in consola'[o].faltan
        <4>1. CASE o = e
          <5>1. s = r
            BY <4>1 DEF EscribenRol, r
          <5> QED BY <3>3, <4>1, <5>1, <2>3, <2>5
        <4>2. CASE o # e
          BY <3>3, <4>2, <2>4 DEF EscribenRol
        <4> QED BY <4>1, <4>2
      <3> QED BY <3>1, <3>2, <3>3
    <2>10. MatrizBajoTope'
      BY <2>2, <2>5, <2>6 DEF Acotada, MatrizBajoTope
    <2> QED BY <2>8, <2>9, <2>10 DEF Acotada
  <1>5. ASSUME NEW e \in Consolas, SiguienteRol(e) PROVE EnMarcha' /\ Acotada'
    <2>1. consola[e] # LIBRE /\ consola[e].faltan = {} /\ migracion' = migracion
      BY <1>5 DEF SiguienteRol
    <2>2. CASE consola[e].quedan = <<>>
      <3>1. consola' = [consola EXCEPT ![e] = LIBRE] /\ UNCHANGED <<matriz, piso, tope>>
        BY <1>5, <2>2 DEF SiguienteRol
      <3>2. /\ consola'[e] = LIBRE
            /\ \A o \in Consolas \ {e} : consola'[o] = consola[o]
        BY <3>1 DEF TiposPermisos
      <3> QED BY <2>1, <3>1, <3>2
           DEF EnMarcha, EnServicio, Acotada, FaltanBajoTope, PisoCubierto, MatrizBajoTope, EscribenRol
    <2>3. CASE consola[e].quedan # <<>>
      <3>1. EmpezarRol(e, consola[e].quedan) /\ consola[e].quedan \in Seq(Sembrados)
        BY <1>5, <2>1, <2>3, EscrituraTipada DEF SiguienteRol
      <3>2. Acotada'
        BY <2>1, <2>3, <3>1, EmpezarAcotado
      <3>3. EnMarcha'
        BY <2>1 DEF EnMarcha, EnServicio
      <3> QED BY <3>2, <3>3
    <2> QED BY <2>2, <2>3
  <1>6. ASSUME NEW e \in Consolas, Caer(e) PROVE EnMarcha' /\ Acotada'
    <2> DEFINE r == consola[e].rol
    <2>1. /\ consola[e] # LIBRE /\ r \in Papeles
          /\ UNCHANGED <<matriz, migracion, tope>>
          /\ piso' = [piso EXCEPT ![r] = {}] /\ consola' = [consola EXCEPT ![e] = LIBRE]
      BY <1>6, EscrituraTipada DEF Caer
    <2>2. /\ consola'[e] = LIBRE /\ \A o \in Consolas \ {e} : consola'[o] = consola[o]
          /\ piso'[r] = {} /\ \A s \in Papeles \ {r} : piso'[s] = piso[s]
      BY <2>1 DEF TiposPermisos
    <2>3. \A s \in Papeles \ {r} : EscribenRol(s) \subseteq EscribenRol(s)' /\ e \notin EscribenRol(s)
      BY <2>2 DEF EscribenRol
    <2>4. PisoCubierto'
      <3> SUFFICES ASSUME NEW s \in Papeles, NEW c \in piso'[s]
                   PROVE  c \in matriz[s] \/ \E o \in EscribenRol(s)' : c \in consola'[o].faltan
        BY <2>1 DEF PisoCubierto
      <3>1. s # r /\ c \in piso[s]
        BY <2>2
      <3>2. c \in matriz[s] \/ \E o \in EscribenRol(s) : c \in consola[o].faltan
        BY <3>1 DEF Acotada, PisoCubierto
      <3>3. \A o \in EscribenRol(s) : o \in EscribenRol(s)' /\ consola'[o] = consola[o]
        BY <3>1, <2>2, <2>3 DEF EscribenRol
      <3> QED BY <3>2, <3>3
    <2>5. EnMarcha' /\ FaltanBajoTope' /\ MatrizBajoTope'
      BY <2>1, <2>2 DEF EnMarcha, EnServicio, Acotada, FaltanBajoTope, MatrizBajoTope
    <2> QED BY <2>4, <2>5 DEF Acotada
  <1>7. ASSUME NEW e \in Consolas, NEW r \in Papeles, NEW codigos \in MatricesPedidas,
               EditarMatriz(e, r, codigos)
        PROVE  EnMarcha' /\ Acotada'
    <2>1. /\ EnServicio /\ migracion' = migracion /\ consola[e] = LIBRE
          /\ matriz' = [matriz EXCEPT ![r] = matriz[r] \cap codigos] /\ Acotar(e, r, codigos)
          /\ consola' = [consola EXCEPT ![e] = [rol |-> r, faltan |-> codigos, quedan |-> <<>>]]
      BY <1>7 DEF EditarMatriz, Pedir, Retirar
    <2>2. /\ codigos \in SUBSET Codigo /\ <<>> \in Seq(Sembrados)
          /\ matriz[r] \cap codigos \in SUBSET codigos
      BY MatricesDeCodigos
    <2>3. Acotada'
      BY <2>1, <2>2, AbreAcotada
    <2> QED BY <2>1, <2>3 DEF EnMarcha, EnServicio
  <1>8. ASSUME NEW r \in Papeles, CrearPapel(r) \/ DesactivarRol(r) \/ ReactivarRol(r)
        PROVE  EnMarcha' /\ Acotada'
    BY <1>8, QuietaAcotada DEF CrearPapel, DesactivarRol, ReactivarRol, EnMarcha, EnServicio
  <1>9. CASE UNCHANGED varsPermisos
    BY <1>9, QuietaAcotada DEF varsPermisos, EnMarcha, EnServicio
  <1> QED BY <1>1, <1>2, <1>3, <1>4, <1>5, <1>6, <1>7, <1>8, <1>9 DEF NextPermisos

LEMMA InitAcotado == InitPermisos => EnMarcha /\ Acotada
  BY DEF InitPermisos, EnMarcha, Acotada, FaltanBajoTope, PisoCubierto, MatrizBajoTope

LEMMA AcotadaBasta == Acotada => MatrizAcotada
  BY DEF Acotada, PisoCubierto, MatrizBajoTope, MatrizAcotada

(* However many consoles write the matrix of a role at once, and whichever *)
(* of them dies half-way, the role has no permission that none of them     *)
(* granted and, when they have ended, all that every one of them granted.  *)
THEOREM MatrizSiempreAcotada == SpecPermisos => []MatrizAcotada
  <1>1. InitPermisos => TiposPermisos /\ EnMarcha /\ Acotada
    BY InitTipado, InitAcotado
  <1>2. (TiposPermisos /\ EnMarcha /\ Acotada) /\ [NextPermisos]_varsPermisos
           => (TiposPermisos /\ EnMarcha /\ Acotada)'
    BY PasoTipado, PasoAcotado
  <1> QED BY <1>1, <1>2, AcotadaBasta, PTL DEF SpecPermisos

-----------------------------------------------------------------------------
(* No delivery by the laboratory *)

LEMMA EmpezarSinEntregas ==
  ASSUME TiposPermisos, SinEntregas, NEW e \in Consolas, NEW roles \in Seq(Sembrados),
         roles # <<>>, EmpezarRol(e, roles), aMano' = aMano
  PROVE  SinEntregas'
  <1> DEFINE r == Head(roles)
  <1>1. /\ matriz' = [matriz EXCEPT ![r] = {}]
        /\ consola' = [consola EXCEPT ![e] = [rol |-> r,
                          faltan |-> GrantsDeLaSiembra[r], quedan |-> Tail(roles)]]
    BY DEF EmpezarRol
  <1>2. consola'[e].rol = r /\ consola'[e].faltan = GrantsDeLaSiembra[r]
    BY <1>1 DEF TiposPermisos
  <1>3. \A o \in Consolas \ {e} : consola'[o] = consola[o]
    BY <1>1 DEF TiposPermisos
  <1>4. matriz'["laboratorista"] \subseteq matriz["laboratorista"]
    BY <1>1, LosPapeles DEF TiposPermisos
  <1> HIDE DEF r
  <1> QED BY <1>2, <1>3, <1>4, SiembraTipada DEF SinEntregas

LEMMA PasoSinEntregas ==
  ASSUME TiposPermisos, SinEntregas, [NextPermisos]_varsPermisos
  PROVE  SinEntregas'
  <1>0. Len(Migraciones) = 5 /\ "laboratorista" \in Papeles /\ "laboratorista" \in Sembrados
    BY MigracionesTipadas, LosPapeles
  <1>1. CASE Migrar
    <2>1. migracion + 1 \in 1..5
      BY <1>0, <1>1 DEF Migrar, TiposPermisos
    <2> DEFINE m == Migraciones[migracion + 1]
    <2>2. EsMigracion(m)
      BY <2>1, MigracionesTipadas
    <2>3. /\ matriz'["laboratorista"] \subseteq matriz["laboratorista"] \cup m.concede["laboratorista"]
          /\ UNCHANGED <<consola, aMano>>
      BY <1>0, <1>1 DEF Migrar
    <2> HIDE DEF m
    <2> QED BY <2>2, <2>3 DEF EsMigracion, SinEntregas
  <1>2. CASE SembrarPorComando
    <2>1. /\ matriz'["laboratorista"] = GrantsDeLaSiembra["laboratorista"]
          /\ UNCHANGED <<consola, aMano>>
      BY <1>0, <1>2 DEF SembrarPorComando
    <2> QED BY <2>1, SiembraTipada DEF SinEntregas
  <1>3. ASSUME NEW e \in Consolas, Sembrar(e) PROVE SinEntregas'
    BY <1>3, LosPapeles, EmpezarSinEntregas DEF Sembrar
  <1>4. ASSUME NEW e \in Consolas, Conceder(e) PROVE SinEntregas'
    <2> DEFINE r == consola[e].rol
    <2>1. PICK c \in consola[e].faltan :
             /\ matriz' = [matriz EXCEPT ![r] = @ \cup {c}]
             /\ consola' = [consola EXCEPT ![e].faltan = @ \ {c}]
      BY <1>4 DEF Conceder
    <2>2. consola[e] # LIBRE /\ consola[e] \in Escritura /\ r \in Papeles /\ aMano' = aMano
      BY <1>4, EscrituraTipada DEF Conceder
    <2>3. consola'[e] = [consola[e] EXCEPT !.faltan = @ \ {c}]
      BY <2>1 DEF TiposPermisos
    <2>4. consola'[e].rol = r /\ consola'[e].faltan \subseteq consola[e].faltan
      BY <2>2, <2>3 DEF Escritura
    <2>5. \A o \in Consolas \ {e} : consola'[o] = consola[o]
      BY <2>1 DEF TiposPermisos
    <2>6. matriz'["laboratorista"] \subseteq
             matriz["laboratorista"] \cup (IF r = "laboratorista" THEN {c} ELSE {})
      BY <1>0, <2>1 DEF TiposPermisos
    <2> SUFFICES ASSUME "laboratorista" \notin aMano
                 PROVE  /\ matriz'["laboratorista"] \cap Entregas = {}
                        /\ \A o \in Consolas : consola'[o] # LIBRE /\ consola'[o].rol = "laboratorista" =>
                               consola'[o].faltan \cap Entregas = {}
      BY <2>2 DEF SinEntregas
    <2>7. r = "laboratorista" => consola[e].faltan \cap Entregas = {}
      BY <2>2 DEF SinEntregas
    <2>8. matriz'["laboratorista"] \cap Entregas = {}
      BY <2>1, <2>6, <2>7 DEF SinEntregas
    <2>9. ASSUME NEW o \in Consolas, consola'[o] # LIBRE, consola'[o].rol = "laboratorista"
          PROVE  consola'[o].faltan \cap Entregas = {}
      <3>1. CASE o = e
        BY <2>9, <3>1, <2>4, <2>7
      <3>2. CASE o # e
        BY <2>9, <3>2, <2>5 DEF SinEntregas
      <3> QED BY <3>1, <3>2
    <2> QED BY <2>8, <2>9
  <1>5. ASSUME NEW e \in Consolas, SiguienteRol(e) PROVE SinEntregas'
    <2>1. CASE consola[e].quedan = <<>>
      <3>1. consola' = [consola EXCEPT ![e] = LIBRE] /\ UNCHANGED <<matriz, aMano>>
        BY <1>5, <2>1 DEF SiguienteRol
      <3>2. consola'[e] = LIBRE /\ \A o \in Consolas \ {e} : consola'[o] = consola[o]
        BY <3>1 DEF TiposPermisos
      <3> QED BY <3>1, <3>2 DEF SinEntregas
    <2>2. CASE consola[e].quedan # <<>>
      BY <1>5, <2>2, EscrituraTipada, EmpezarSinEntregas DEF SiguienteRol
    <2> QED BY <2>1, <2>2
  <1>6. ASSUME NEW e \in Consolas, Caer(e) PROVE SinEntregas'
    <2>1. consola' = [consola EXCEPT ![e] = LIBRE] /\ UNCHANGED <<matriz, aMano>>
      BY <1>6 DEF Caer
    <2>2. consola'[e] = LIBRE /\ \A o \in Consolas \ {e} : consola'[o] = consola[o]
      BY <2>1 DEF TiposPermisos
    <2> QED BY <2>1, <2>2 DEF SinEntregas
  <1>7. ASSUME NEW e \in Consolas, NEW r \in Papeles, NEW codigos \in MatricesPedidas,
               EditarMatriz(e, r, codigos)
        PROVE  SinEntregas'
    <2>1. /\ aMano' = aMano \cup {r} /\ matriz' = [matriz EXCEPT ![r] = @ \cap codigos]
          /\ consola' = [consola EXCEPT ![e] = [rol |-> r, faltan |-> codigos, quedan |-> <<>>]]
      BY <1>7 DEF EditarMatriz, Retirar
    <2>2. consola'[e].rol = r /\ \A o \in Consolas \ {e} : consola'[o] = consola[o]
      BY <2>1 DEF TiposPermisos
    <2>3. matriz'["laboratorista"] \subseteq matriz["laboratorista"]
      BY <1>0, <2>1 DEF TiposPermisos
    <2> QED BY <2>1, <2>2, <2>3 DEF SinEntregas
  <1>8. ASSUME NEW r \in Papeles, CrearPapel(r) \/ DesactivarRol(r) \/ ReactivarRol(r)
        PROVE  SinEntregas'
    BY <1>8 DEF CrearPapel, DesactivarRol, ReactivarRol, SinEntregas
  <1>9. CASE UNCHANGED varsPermisos
    BY <1>9 DEF varsPermisos, SinEntregas
  <1> QED BY <1>1, <1>2, <1>3, <1>4, <1>5, <1>6, <1>7, <1>8, <1>9 DEF NextPermisos

(* Through every migration and seed, finished or cut off, a laboratory     *)
(* role nobody edited by hand delivers no report.                          *)
THEOREM SeparacionSiempre == SpecPermisos => []SeparacionDeFunciones
  <1>1. InitPermisos => TiposPermisos /\ SinEntregas
    BY InitTipado, LosPapeles DEF InitPermisos, SinEntregas
  <1>2. (TiposPermisos /\ SinEntregas) /\ [NextPermisos]_varsPermisos => (TiposPermisos /\ SinEntregas)'
    BY PasoTipado, PasoSinEntregas
  <1>3. SinEntregas => SeparacionDeFunciones
    BY DEF SinEntregas, SeparacionDeFunciones, Efectiva
  <1> QED BY <1>1, <1>2, <1>3, PTL DEF SpecPermisos
-----------------------------------------------------------------------------
(* The administration as a whole.  Sessions, accounts, plant and roles are *)
(* of the same database and of no common table: a behaviour of the whole   *)
(* is one of each of them, so what is proved of each holds of the whole.   *)
THEOREM CadaAreaEsLaSuya ==
  SpecAdministracion => SpecSesiones /\ SpecCuentas /\ SpecActivos /\ SpecPermisos
  <1> DEFINE Adm == [NextAdministracion]_varsAdministracion
  <1>1. InitAdministracion => InitSesiones /\ InitCuentas /\ InitActivos /\ InitPermisos
    BY DEF InitAdministracion
  <1>2. Adm => [NextSesiones]_varsSesiones
    BY DEF NextAdministracion, varsAdministracion
  <1>3. Adm => [NextCuentas]_varsCuentas
    BY DEF NextAdministracion, varsAdministracion, VariasDirecciones, NextCuentas, Actores,
           PasoSobreCuenta
  <1>4. Adm => [NextActivos]_varsActivos
    BY DEF NextAdministracion, varsAdministracion
  <1>5. Adm => [NextPermisos]_varsPermisos
    BY DEF NextAdministracion, varsAdministracion
  <1> QED BY <1>1, <1>2, <1>3, <1>4, <1>5, PTL
          DEF SpecAdministracion, SpecSesiones, SpecCuentas, SpecActivos, SpecPermisos

(* The areas at once, whatever the order their requests come in and with   *)
(* none of the bounds of a run.                                            *)
Areas == SpecSesiones /\ SpecCuentas /\ SpecActivos /\ SpecPermisos

(* Every table of the administration holds rows of its form, whatever      *)
(* requests overlap and wherever they die.                                 *)
THEOREM AdministracionTipada == Areas => []TiposAdministracion
  <1>1. TiposSesiones /\ TiposCuentas /\ TiposActivos /\ TiposPermisos => TiposAdministracion
    BY DEF TiposAdministracion
  <1> QED BY <1>1, SesionesTipadas, CuentasTipadas, ActivosTipados, TiposSiempre, PTL DEF Areas

(* What the areas promise, all at once; of the sessions, when one request  *)
(* writes the row of the account at a time.                                *)
THEOREM AdministracionCorrecta ==
  Areas =>
    /\ Escrituras <= 1 => []SesionDeClaveVigente
    /\ [](InvitacionSustituida /\ RaizFiel /\ PuntoFiel)
    /\ [](MatrizAcotada /\ SeparacionDeFunciones)
    /\ SoloEnSuEmpresa /\ HistorialConservado
  <1>1. ASSUME Escrituras <= 1 PROVE SpecSesiones => []SesionDeClaveVigente
    BY <1>1, SesionSiempreDeClaveVigente
  <1>2. CASE Escrituras <= 1
    <2>1. SpecSesiones => []SesionDeClaveVigente
      BY <1>1, <1>2
    <2> QED BY <2>1, InvitacionSiempreSustituida, RaizSiempreFiel, PuntoSiempreFiel,
               MatrizSiempreAcotada, SeparacionSiempre, SoloEnSuEmpresaSiempre,
               HistorialSiempreConservado, PTL DEF Areas
  <1>3. CASE ~(Escrituras <= 1)
    BY <1>3, InvitacionSiempreSustituida, RaizSiempreFiel, PuntoSiempreFiel,
       MatrizSiempreAcotada, SeparacionSiempre, SoloEnSuEmpresaSiempre,
       HistorialSiempreConservado, PTL DEF Areas
  <1> QED BY <1>2, <1>3
=============================================================================
