CONSTANTS
    Muestras = {m1}
    Pruebas = {p1}
    MaxInformes = 1
    NINGUNA = NINGUNA
    Peticiones = {r1, r2}
    Tipos = {"aprobar", "publicar", "ocultar", "correo", "correoFallido", "anular", "invalidar"}
    Modos = {"juntas"}
    Concurrentes = {"aprobar", "publicar", "ocultar"}

SPECIFICATION SpecModos
SYMMETRY Simetria

INVARIANT
    NuncaTerminalSinEntrega
