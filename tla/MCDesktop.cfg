SPECIFICATION DesktopSpec
CONSTANTS
  Apps = {about, files, terminal}
  First = about
  MaxSeq = 3
  None = None
  home = home
  projects = projects
  missing = missing
  winterm = winterm
  gnome = gnome
SYMMETRY AppSymmetry
INVARIANTS
  WindowsConsistent
  PromptIsCurrent
