CONSTANTS
  j1 = j1
  j2 = j2
  t1 = t1
  t2 = t2
  f1 = f1
  f2 = f2
  Jobs <- MCJobs
  Threads <- MCThreads
  Files <- MCFiles
  NoJob = NoJob
  NoThread = NoThread
  NoFile = NoFile
  Loader = Loader
  Fresh = Fresh
  Patient = FALSE
SPECIFICATION AppSpec
PROPERTIES StopIsTranscribed
