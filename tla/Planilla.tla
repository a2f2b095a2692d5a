------------------------------ MODULE Planilla -----------------------------
(***************************************************************************)
(* The workbook a batch of samples is registered with: the template that   *)
(* is downloaded, the preview that reads it back and stores nothing, and   *)
(* the registration of the previewed rows by the forms of the batch, which *)
(* validate them again with other code.  The technical fields, their       *)
(* catalogues, the points and the lubricants may change between the three. *)
(* A row of one sheet is followed; its dates and periods are left out.     *)
(***************************************************************************)
EXTENDS Naturals, Sequences, FiniteSets

CONSTANTS
    CamposTecnicos,     \* CampoTecnicoMuestra rows, by their numbers
    Titulos,            \* the visible names, by numbers
    CatalogosDeCampos,
    Empresas, Placas, Nombres,
    Opciones,           \* CatalogoTecnicoItem rows
    FilasEscritas,      \* what clients write in a row
    PuntosIniciales,    \* the points registered at the start, with their machines
    MaxCambiosDePlanilla,  \* bound: changes of the configuration
    SinDato, DESCONOCIDO

ASSUME PlanillaFinita ==
    /\ IsFiniteSet(CamposTecnicos) /\ CamposTecnicos \subseteq Nat
    /\ CamposTecnicos \subseteq Titulos
    /\ MaxCambiosDePlanilla \in Nat /\ SinDato # DESCONOCIDO

(* A machine is known by its plate in its company, a point by its name in  *)
(* its machine.                                                            *)
Maquina       == [empresa : Empresas, placa : Placas]
PuntoDeMedida == [maquina : Maquina, nombre : Nombres]
Condiciones   == {"usada", "nueva"}

CampoTecnico ==
    [titulo : Titulos, orden : CamposTecnicos, catalogo : CatalogosDeCampos,
     obligatorio : BOOLEAN, activo : BOOLEAN]

FilaDeMuestra ==
    [condicion : Condiciones \cup {"otra"}, maquina : Maquina \cup {SinDato},
     punto : PuntoDeMedida \cup {SinDato}, placa : Placas \cup {SinDato},
     manual : Nombres \cup {SinDato}, lubricante : BOOLEAN, referencia : BOOLEAN,
     celdas : [1..Cardinality(CamposTecnicos) -> Opciones \cup {SinDato, DESCONOCIDO}]]

PorCampo(S) == UNION {[F -> S] : F \in SUBSET CamposTecnicos}

(* What the preview reads in a row, and what it answers. *)
Lectura ==
    [fila : FilaDeMuestra, punto : PuntoDeMedida \cup {SinDato}, maquina : Maquina \cup {SinDato},
     titulos : PorCampo(Titulos), atributos : PorCampo(Opciones \cup {SinDato, DESCONOCIDO})]

Motivos == {"condicion", "lubricante", "sinLubricante", "punto", "maquinaDelPunto", "placaDeMas",
            "manualDeMas", "manualSinPlaca", "maquina", "sinLugar", "opcion", "campo"}

Respuesta ==
    [errores : SUBSET Motivos, ofrecida : BOOLEAN, vigente : BOOLEAN, leida : Lectura \cup {SinDato}]

MuestraGuardada ==
    [estado : {"registrada", "editada"}, nueva : BOOLEAN, empresa : Empresas \cup {SinDato},
     maquina : Maquina \cup {SinDato}, punto : PuntoDeMedida \cup {SinDato},
     atributos : PorCampo([catalogo : CatalogosDeCampos, valor : Opciones \cup {DESCONOCIDO}])]

MuestraRechazada == [estado : {"rechazada"}, empresa : Empresas \cup {SinDato}, exigido : BOOLEAN]

ASSUME FilasPosibles == FilasEscritas \subseteq FilaDeMuestra /\ PuntosIniciales \subseteq PuntoDeMedida

ASSUME SinDatoNoEsFila ==
    /\ SinDato \notin Opciones /\ SinDato \notin Lectura /\ SinDato \notin Respuesta
    /\ SinDato \notin MuestraGuardada /\ SinDato \notin MuestraRechazada

VARIABLES
    tecnicos,       \* the technical fields
    catalogoVivo, \* CatalogoTecnico: not deleted
    catalogoDe,   \* the catalogue of each item
    actuales,     \* active items of the current edition of each catalogue
    maquinas, puntos,     \* the machines, the active points
    lubricanteActivo,     \* the registered lubricant a row may choose
    plantilla,    \* the downloaded template
    previa,       \* what the preview answered for the row
    muestra,      \* what the registration left
    mudadas,      \* history: items moved to another catalogue since then
    retoques       \* bound

varsPlanilla == <<tecnicos, catalogoVivo, catalogoDe, actuales, maquinas, puntos, lubricanteActivo,
                  plantilla, previa, muestra, mudadas, retoques>>

configuracionDePlanilla == <<tecnicos, catalogoVivo, catalogoDe, actuales, maquinas, puntos, lubricanteActivo>>

-----------------------------------------------------------------------------
(* The columns *)

(* The fields of the template, ordered by orden, nombre_visible and id.    *)
EnPlanilla == {f \in CamposTecnicos : tecnicos[f].activo /\ catalogoVivo[tecnicos[f].catalogo]}

Antes(f, g) ==
    \/ tecnicos[f].orden < tecnicos[g].orden
    \/ tecnicos[f].orden = tecnicos[g].orden /\ f < g

Columnas == CHOOSE s \in [1..Cardinality(EnPlanilla) -> EnPlanilla] :
                \A i, j \in DOMAIN s : i < j => Antes(s[i], s[j])

Columna(f) == CHOOSE i \in DOMAIN Columnas : Columnas[i] = f

(* The headers of the sheets, kept in the hidden sheet of the template.    *)
Encabezados == [i \in DOMAIN Columnas |-> tecnicos[Columnas[i]].titulo]

DeLaEmpresa(e, x) == e = SinDato \/ x = e

(* What the lists of the template offer: of a company its machines and     *)
(* points, of nobody none; of a catalogue the active items of the current  *)
(* edition.                                                                *)
Ofrece(fila, e) ==
    /\ fila.maquina # SinDato =>
           e # SinDato /\ fila.maquina \in maquinas /\ fila.maquina.empresa = e
    /\ fila.punto # SinDato =>
           e # SinDato /\ fila.punto \in puntos /\ fila.punto.maquina.empresa = e
    /\ fila.lubricante => lubricanteActivo
    /\ \A f \in EnPlanilla : LET v == fila.celdas[Columna(f)] IN
           v \in {SinDato, DESCONOCIDO} \/ v \in actuales[tecnicos[f].catalogo]

Descargar(e) ==
    /\ plantilla = SinDato
    /\ plantilla' = [empresa |-> e, encabezados |-> Encabezados, vencida |-> FALSE]
    /\ UNCHANGED <<configuracionDePlanilla, previa, muestra, mudadas, retoques>>

Vencer ==
    /\ plantilla # SinDato /\ previa = SinDato /\ ~plantilla.vencida
    /\ plantilla' = [plantilla EXCEPT !.vencida = TRUE]
    /\ UNCHANGED <<configuracionDePlanilla, previa, muestra, mudadas, retoques>>

-----------------------------------------------------------------------------
(* The preview *)

PuntoLeido(fila, e) ==
    IF fila.punto \in puntos /\ DeLaEmpresa(e, fila.punto.maquina.empresa) THEN fila.punto
    ELSE SinDato

(* What is wrong with the identity of the row. *)
ErroresDeIdentidad(fila, e) ==
    LET p == PuntoLeido(fila, e) IN
    [condicion |-> fila.condicion \notin Condiciones,
     lubricante |-> fila.lubricante /\ ~lubricanteActivo,
     sinLubricante |-> ~fila.referencia /\ ~(fila.lubricante /\ lubricanteActivo),
     punto |-> fila.punto # SinDato /\ p = SinDato,
     maquinaDelPunto |-> p # SinDato /\ fila.maquina # SinDato /\ fila.maquina # p.maquina,
     placaDeMas |-> p # SinDato /\ fila.placa # SinDato,
     manualDeMas |-> p # SinDato /\ fila.manual # SinDato,
     manualSinPlaca |-> fila.manual # SinDato /\ fila.placa = SinDato,
     maquina |-> /\ fila.maquina # SinDato /\ p = SinDato
                 /\ ~(fila.maquina \in maquinas /\ DeLaEmpresa(e, fila.maquina.empresa)),
     sinLugar |-> fila.condicion = "usada" /\ p = SinDato /\ fila.placa = SinDato]

(* The value of a field: what its column says, unknown when the catalogue  *)
(* offers nothing.                                                         *)
Leido(fila, f) ==
    LET v == fila.celdas[Columna(f)] IN
    IF v = SinDato /\ actuales[tecnicos[f].catalogo] = {} THEN DESCONOCIDO ELSE v

OpcionErrada(fila, f) ==
    LET v == Leido(fila, f) IN
    v \notin {SinDato, DESCONOCIDO} \cup actuales[tecnicos[f].catalogo]

CampoVacio(fila, f) ==
    tecnicos[f].obligatorio /\ Leido(fila, f) \notin Opciones \cup {DESCONOCIDO}

Errores(fila, e) ==
    LET identidad == ErroresDeIdentidad(fila, e)
    IN  {k \in DOMAIN identidad : identidad[k]}
            \cup {k \in {"opcion", "campo"} : \E f \in EnPlanilla :
                     IF k = "opcion" THEN OpcionErrada(fila, f)
                     ELSE CampoVacio(fila, f)}

(* Slip: the values keyed by the catalogue of the field, the last column   *)
(* of a catalogue wins.                                                    *)
AtributosPorCatalogo(fila) ==
    [f \in EnPlanilla |->
        LET iguales == {g \in EnPlanilla : tecnicos[g].catalogo = tecnicos[f].catalogo}
        IN  Leido(fila, CHOOSE g \in iguales : \A h \in iguales : Columna(h) <= Columna(g))]

(* The values, keyed by the field. *)
Atributos(fila) == [f \in EnPlanilla |-> Leido(fila, f)]

(* The token, then the headers, then the row.  A run is kept as evidence;  *)
(* nothing else is stored.                                                 *)
Previsualizar(fila) ==
    LET e == plantilla.empresa
        p == PuntoLeido(fila, e)
        leida == [fila |-> fila, punto |-> p,
                  maquina |-> IF p # SinDato THEN p.maquina ELSE fila.maquina,
                  titulos |-> [f \in EnPlanilla |-> tecnicos[f].titulo],
                  atributos |-> Atributos(fila)]
    IN
    /\ plantilla # SinDato /\ previa = SinDato
    /\ ~plantilla.vencida /\ plantilla.encabezados = Encabezados
    /\ previa' = [errores |-> Errores(fila, e), ofrecida |-> Ofrece(fila, e), vigente |-> TRUE,
                  leida |-> IF Errores(fila, e) = {} THEN leida ELSE SinDato]
    /\ UNCHANGED <<configuracionDePlanilla, plantilla, muestra, mudadas, retoques>>

-----------------------------------------------------------------------------
(* The registration *)

ValorValido(f, v) == v # DESCONOCIDO => v # SinDato /\ catalogoDe[v] = tecnicos[f].catalogo

(* The catalogue of a required field is not looked at.                     *)
CamposRequeridos == {f \in CamposTecnicos : tecnicos[f].activo /\ tecnicos[f].obligatorio}

(* The form of a sample: its point must be active, its attributes must be  *)
(* an item of the catalogue of their field or unknown, and every required  *)
(* field must be there.                                                    *)
MuestraValida(m) ==
    /\ m.condicion \in Condiciones
    /\ m.lubricante => lubricanteActivo
    /\ m.punto # SinDato => /\ m.punto \in puntos /\ m.manual = SinDato
                            /\ m.maquina \in {SinDato, m.punto.maquina}
    /\ m.condicion = "usada" => m.punto # SinDato \/ m.placa # SinDato
    /\ \A f \in DOMAIN m.atributos : ValorValido(f, m.atributos[f])
    /\ CamposRequeridos \subseteq DOMAIN m.atributos

(* The batch form also asks that the point belong to the company.          *)
DelLote(m, e) == m.punto # SinDato /\ e # SinDato => m.punto.maquina.empresa = e

(* The machine of a sample: of its point, the chosen one, or the one its   *)
(* plate names in the company of the batch, created when there is none.    *)
MaquinaResuelta(m, e) ==
    IF m.punto # SinDato THEN m.punto.maquina
    ELSE IF m.maquina # SinDato \/ m.placa = SinDato \/ e = SinDato THEN m.maquina
    ELSE [empresa |-> e, placa |-> m.placa]

(* A written point of a known machine is found or created.                 *)
PuntoResuelto(m, maquina) ==
    IF m.punto # SinDato \/ m.manual = SinDato \/ maquina = SinDato THEN m.punto
    ELSE [maquina |-> maquina, nombre |-> m.manual]

GuardarMuestra(m, e, nueva) ==
    LET maquina == MaquinaResuelta(m, e)
        punto   == PuntoResuelto(m, maquina)
    IN
    /\ muestra' = [estado |-> "registrada", nueva |-> nueva, empresa |-> e, maquina |-> maquina,
                   punto |-> punto,
                   atributos |-> [f \in DOMAIN m.atributos |->
                                     [catalogo |-> tecnicos[f].catalogo, valor |-> m.atributos[f]]]]
    /\ maquinas' = maquinas \cup ({maquina} \ {SinDato})
    /\ puntos' = puntos \cup ({punto} \ {SinDato})

RechazarMuestra(e) ==
    /\ muestra' = [estado |-> "rechazada", empresa |-> e,
                   exigido |-> \E f \in CamposRequeridos : ~catalogoVivo[tecnicos[f].catalogo]]
    /\ UNCHANGED <<maquinas, puntos>>

(* What the front end sends of a previewed row: the attributes that have a *)
(* value.                                                                  *)
Enviada ==
    LET leida  == previa.leida
        llenos == {f \in DOMAIN leida.atributos : leida.atributos[f] # SinDato}
    IN
    [condicion |-> leida.fila.condicion, maquina |-> leida.maquina, punto |-> leida.punto,
     placa |-> leida.fila.placa, manual |-> leida.fila.manual,
     lubricante |-> leida.fila.lubricante, atributos |-> [f \in llenos |-> leida.atributos[f]]]

Registrable == previa # SinDato /\ previa.errores = {} /\ muestra = SinDato

(* A new batch, of any company or of none.                                 *)
RegistrarLote(e) ==
    /\ Registrable
    /\ IF MuestraValida(Enviada) /\ DelLote(Enviada, e)
       THEN GuardarMuestra(Enviada, e, TRUE) ELSE RechazarMuestra(e)
    /\ mudadas' = {}
    /\ UNCHANGED <<tecnicos, catalogoVivo, catalogoDe, actuales, lubricanteActivo, plantilla, previa, retoques>>

(* Rows added to a batch that is already there, of any company: nothing    *)
(* compares it with that of their points and machines.                     *)
AgregarAlLote(e) ==
    /\ Registrable
    /\ IF MuestraValida(Enviada) THEN GuardarMuestra(Enviada, e, FALSE) ELSE RechazarMuestra(e)
    /\ mudadas' = {}
    /\ UNCHANGED <<tecnicos, catalogoVivo, catalogoDe, actuales, lubricanteActivo, plantilla, previa, retoques>>

(* The endpoint of the attributes: an item of the catalogue the field has  *)
(* now, or unknown.  The row takes that catalogue.                         *)
EditarAtributo(f, v) ==
    /\ muestra # SinDato /\ muestra.estado # "rechazada" /\ ValorValido(f, v)
    /\ retoques < MaxCambiosDePlanilla /\ retoques' = retoques + 1
    /\ muestra' = [muestra EXCEPT !.estado = "editada",
                       !.atributos = [g \in DOMAIN @ \cup {f} |->
                           IF g # f THEN @[g]
                           ELSE [catalogo |-> tecnicos[f].catalogo, valor |-> v]]]
    /\ UNCHANGED <<configuracionDePlanilla, plantilla, previa, mudadas>>

BorrarAtributo(f) ==
    /\ muestra # SinDato /\ muestra.estado # "rechazada" /\ f \in DOMAIN muestra.atributos
    /\ retoques < MaxCambiosDePlanilla /\ retoques' = retoques + 1
    /\ muestra' = [muestra EXCEPT !.estado = "editada",
                       !.atributos = [g \in DOMAIN @ \ {f} |-> @[g]]]
    /\ UNCHANGED <<configuracionDePlanilla, plantilla, previa, mudadas>>

(* An edit of the sample replaces all of them; those not sent are deleted. *)
ReemplazarAtributos(enviados, v) ==
    /\ muestra # SinDato /\ muestra.estado # "rechazada"
    /\ retoques < MaxCambiosDePlanilla /\ retoques' = retoques + 1
    /\ CamposRequeridos \subseteq enviados /\ \A f \in enviados : ValorValido(f, v)
    /\ muestra' = [muestra EXCEPT !.estado = "editada",
                       !.atributos = [f \in enviados |->
                                         [catalogo |-> tecnicos[f].catalogo, valor |-> v]]]
    /\ UNCHANGED <<configuracionDePlanilla, plantilla, previa, mudadas>>

-----------------------------------------------------------------------------
(* The configuration changes meanwhile *)

CambiarConfiguracion ==
    /\ retoques < MaxCambiosDePlanilla /\ retoques' = retoques + 1
    /\ previa' = IF previa = SinDato THEN SinDato ELSE [previa EXCEPT !.vigente = FALSE]
    /\ UNCHANGED <<plantilla, muestra>>

(* The form of a field asks for a catalogue that is not deleted.           *)
EditarCampoTecnico(f, c) ==
    /\ CambiarConfiguracion
    /\ catalogoVivo[c.catalogo] /\ c # tecnicos[f]
    /\ c.activo = tecnicos[f].activo
    /\ tecnicos' = [tecnicos EXCEPT ![f] = c]
    /\ UNCHANGED <<catalogoVivo, catalogoDe, actuales, maquinas, puntos, lubricanteActivo, mudadas>>

BorrarCampoTecnico(f) ==
    /\ CambiarConfiguracion
    /\ tecnicos' = [tecnicos EXCEPT ![f].activo = ~@]
    /\ UNCHANGED <<catalogoVivo, catalogoDe, actuales, maquinas, puntos, lubricanteActivo, mudadas>>

BorrarCatalogoDeCampo(c) ==
    /\ CambiarConfiguracion
    /\ catalogoVivo' = [catalogoVivo EXCEPT ![c] = ~@]
    /\ UNCHANGED <<tecnicos, catalogoDe, actuales, maquinas, puntos, lubricanteActivo, mudadas>>

(* Another edition is made current, or its items are retired.              *)
PublicarEdicion(c, items) ==
    /\ CambiarConfiguracion /\ items # actuales[c]
    /\ actuales' = [actuales EXCEPT ![c] = items]
    /\ UNCHANGED <<tecnicos, catalogoVivo, catalogoDe, maquinas, puntos, lubricanteActivo, mudadas>>

(* PATCH of an item, with the edition of another catalogue, its current    *)
(* one or not.                                                             *)
MoverOpcion(o, c, vigente) ==
    /\ CambiarConfiguracion
    /\ catalogoVivo[c] /\ c # catalogoDe[o]
    /\ catalogoDe' = [catalogoDe EXCEPT ![o] = c]
    /\ actuales' = [d \in CatalogosDeCampos |->
                       IF d = c /\ vigente THEN actuales[d] \cup {o} ELSE actuales[d] \ {o}]
    /\ mudadas' = mudadas \cup {o}
    /\ UNCHANGED <<tecnicos, catalogoVivo, maquinas, puntos, lubricanteActivo>>

RetirarPuntoDeMedida(p) ==
    /\ CambiarConfiguracion
    /\ puntos' = puntos \ {p}
    /\ UNCHANGED <<tecnicos, catalogoVivo, catalogoDe, actuales, maquinas, lubricanteActivo, mudadas>>

RetirarLubricante ==
    /\ CambiarConfiguracion
    /\ lubricanteActivo' = ~lubricanteActivo
    /\ UNCHANGED <<tecnicos, catalogoVivo, catalogoDe, actuales, maquinas, puntos, mudadas>>

-----------------------------------------------------------------------------
InitPlanilla ==
    /\ tecnicos \in [CamposTecnicos -> CampoTecnico]
    /\ \A f \in CamposTecnicos :
          tecnicos[f].activo /\ tecnicos[f].titulo = f /\ tecnicos[f].orden = f
    /\ catalogoVivo = [c \in CatalogosDeCampos |-> TRUE]
    /\ catalogoDe \in [Opciones -> CatalogosDeCampos] /\ actuales \in [CatalogosDeCampos -> SUBSET Opciones]
    /\ \A c \in CatalogosDeCampos : \A o \in actuales[c] : catalogoDe[o] = c
    /\ puntos = PuntosIniciales /\ maquinas = {p.maquina : p \in PuntosIniciales}
    /\ lubricanteActivo = TRUE
    /\ plantilla = SinDato /\ previa = SinDato /\ muestra = SinDato
    /\ mudadas = {} /\ retoques = 0

NextPlanilla ==
    \/ \E e \in Empresas \cup {SinDato} : Descargar(e) \/ RegistrarLote(e) \/ AgregarAlLote(e)
    \/ Vencer \/ RetirarLubricante
    \/ \E fila \in FilasEscritas : Previsualizar(fila)
    \/ \E f \in CamposTecnicos :
          \/ BorrarCampoTecnico(f) \/ BorrarAtributo(f)
          \/ \E c \in CampoTecnico : EditarCampoTecnico(f, c)
          \/ \E v \in Opciones \cup {DESCONOCIDO} : EditarAtributo(f, v)
    \/ \E enviados \in SUBSET CamposTecnicos, v \in Opciones \cup {DESCONOCIDO} :
          ReemplazarAtributos(enviados, v)
    \/ \E c \in CatalogosDeCampos :
          \/ BorrarCatalogoDeCampo(c)
          \/ \E items \in SUBSET {o \in Opciones : catalogoDe[o] = c} : PublicarEdicion(c, items)
          \/ \E o \in Opciones, vigente \in BOOLEAN : MoverOpcion(o, c, vigente)
    \/ \E p \in PuntosIniciales : RetirarPuntoDeMedida(p)

SpecPlanilla == InitPlanilla /\ [][NextPlanilla]_varsPlanilla

-----------------------------------------------------------------------------
TiposPlanilla ==
    /\ tecnicos \in [CamposTecnicos -> CampoTecnico]
    /\ catalogoVivo \in [CatalogosDeCampos -> BOOLEAN]
    /\ catalogoDe \in [Opciones -> CatalogosDeCampos] /\ mudadas \subseteq Opciones
    /\ actuales \in [CatalogosDeCampos -> SUBSET Opciones]
    /\ maquinas \subseteq Maquina /\ puntos \subseteq PuntoDeMedida
    /\ lubricanteActivo \in BOOLEAN /\ retoques \in 0..MaxCambiosDePlanilla
    /\ plantilla # SinDato => plantilla.empresa \in Empresas \cup {SinDato}
    /\ previa # SinDato => previa.errores = {} <=> previa.leida # SinDato
    /\ muestra # SinDato => /\ previa # SinDato
                            /\ muestra.estado \in {"registrada", "editada", "rechazada"}

(* What the lists of the template offer is no error of the preview.        *)
OfrecidoLeido ==
    previa # SinDato /\ previa.ofrecida =>
        previa.errores \cap {"punto", "maquina", "lubricante", "opcion"} = {}

(* A row the preview passes is registered in a batch of the company of the *)
(* template, if nothing changed in between and no required field hangs     *)
(* from a deleted catalogue.                                               *)
AceptadaSeRegistra ==
    muestra # SinDato /\ muestra.estado = "rechazada" /\ muestra.empresa = plantilla.empresa =>
        ~previa.vigente \/ muestra.exigido

(* A registered value is the one written under the title of its field, and *)
(* no written value is lost; a sample registered with its batch is of the  *)
(* company of the batch when that is the company of the template or the    *)
(* row names a registered point.                                           *)
RegistradaComoSeEscribio ==
    muestra # SinDato /\ muestra.estado = "registrada" =>
        LET Celda(i) == previa.leida.fila.celdas[i]
            titulos  == plantilla.encabezados
        IN
        /\ \A f \in DOMAIN muestra.atributos : \E i \in DOMAIN titulos :
              /\ titulos[i] = previa.leida.titulos[f]
              /\ Celda(i) = SinDato \/ Celda(i) = muestra.atributos[f].valor
        /\ \A i \in DOMAIN titulos : Celda(i) # SinDato =>
              \E f \in DOMAIN muestra.atributos : /\ previa.leida.titulos[f] = titulos[i]
                                                  /\ muestra.atributos[f].valor = Celda(i)
        /\ /\ muestra.nueva /\ muestra.maquina # SinDato /\ muestra.empresa # SinDato
           /\ muestra.empresa = plantilla.empresa \/ previa.leida.punto # SinDato
           => muestra.maquina.empresa = muestra.empresa
        /\ muestra.punto # SinDato => muestra.punto.maquina = muestra.maquina

(* An item is stored with its own catalogue, also after the field moved to *)
(* another one, as long as the item itself does not.                       *)
ItemDeSuCatalogo ==
    muestra # SinDato /\ muestra.estado # "rechazada" =>
        \A f \in DOMAIN muestra.atributos :
            LET a == muestra.atributos[f]
            IN  a.valor \notin {DESCONOCIDO} \cup mudadas => catalogoDe[a.valor] = a.catalogo

(* The workbook keeps what the client wrote: the lists of the template,    *)
(* the preview and the forms of the batch are three pieces of code that    *)
(* must agree (parse_row against MuestraLoteCreateSerializer), and two     *)
(* fields of one catalogue keep their own values ("Keying by catalog       *)
(* silently overwrote the earlier Excel column").                          *)
PlanillaFiel ==
    /\ OfrecidoLeido /\ AceptadaSeRegistra /\ RegistradaComoSeEscribio /\ ItemDeSuCatalogo
=============================================================================
