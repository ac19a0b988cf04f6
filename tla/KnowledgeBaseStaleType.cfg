\* One conversation about restaurants, hotels and museums.
SPECIFICATION Spec
CONSTANTS
  pasta = pasta
  forni = forni
  inn = inn
  italian = italian
  mexican = mexican
  Type = {"restaurant", "hotel", "museum"}
  Attribute = {"cuisine"}
  Value = {italian, mexican}
  Word = {pasta, forni, inn}
  Data <- Store
  Ordinal = {1, 2}
  LAST = LAST
  ANY = ANY
  IT = IT
  UseLast = TRUE
  Limit = 2
  MaxEntities = 2
  None = None
PROPERTY NamedObjectIsAnswered
